------------------------- MODULE RateLimiterProofs -------------------------
(* What the rate limiter keeps to, proved for any addresses and settings. *)
EXTENDS RateLimiter, TLAPS

-----------------------------------------------------------------------------
(* Types *)

(* The settings in ticks are integers, and a window is one of its own ages. *)
LEMMA WindowFacts ==
  ASSUME config \in RateLimiterConfig
  PROVE  /\ Window \in Int /\ BlockLength \in Int /\ config.limit \in Int
         /\ Quota \in Nat /\ MaxPassed \in Nat
         /\ Age \subseteq Nat /\ 0 \in Age
         /\ Window > 0 => Window \in Age
<1> USE LimiterAssumption
<1>1. config.interval \in Int /\ config.blockTime \in Int /\ config.limit \in Int
  BY DEF RateLimiterConfig
<1>2. Window \in Int
  BY <1>1 DEF Window, WholeSeconds
<1>3. BlockLength \in Int
  BY <1>1 DEF BlockLength, WholeSeconds
<1>4. Quota \in Nat /\ MaxPassed \in Nat
  BY <1>1 DEF Quota, MaxPassed
<1> QED
  BY <1>1, <1>2, <1>3, <1>4 DEF Age

(* The settings never change, and neither do the ages the history has. *)
LEMMA ConfigKept ==
  ASSUME [Next]_vars
  PROVE  /\ config' = config
         /\ Window' = Window /\ BlockLength' = BlockLength
         /\ Quota' = Quota /\ MaxPassed' = MaxPassed /\ Age' = Age
<1>1. config' = config
  BY DEF Next, Handle, Accept, Refuse, ScriptError, FailOpen, LetInUndecided, Tick, vars
<1> QED
  BY <1>1 DEF Window, BlockLength, Quota, MaxPassed, Age

(* CountRequest leaves a counter and a lifetime, whichever branch it takes. *)
LEMMA CountRequestTyped ==
  ASSUME TypeOK, NEW a \in Address, CountRequest(a)
  PROVE  count' \in [Address -> Nat] /\ ttl' \in [Address -> Nat]
<1>1. Window \in Int
  BY WindowFacts DEF TypeOK
<1>2. CASE count[a] = 0 /\ Window <= 0
  BY <1>2 DEF TypeOK, CountRequest
<1>3. CASE ~(count[a] = 0 /\ Window <= 0)
  <2>1. count' = [count EXCEPT ![a] = @ + 1]
    BY <1>3 DEF CountRequest
  <2>2. ttl' = [ttl EXCEPT ![a] = IF count[a] = 0 THEN Window + 1 ELSE @]
    BY <1>3 DEF CountRequest
  <2>3. count[a] = 0 => Window + 1 \in Nat
    BY <1>1, <1>3
  <2> QED
    BY <2>1, <2>2, <2>3 DEF TypeOK
<1> QED
  BY <1>2, <1>3

(* So does SetBlock. *)
LEMMA SetBlockTyped ==
  ASSUME TypeOK, NEW a \in Address, SetBlock(a)
  PROVE  block' \in [Address -> Nat]
<1>1. BlockLength \in Int
  BY WindowFacts DEF TypeOK
<1> QED
  BY <1>1 DEF TypeOK, SetBlock

(* LetIn adds at most one to each entry of the address's history. *)
LEMMA LetInTyped ==
  ASSUME TypeOK, NEW a \in Address, LetIn(a)
  PROVE  /\ passed' \in [Address -> [Age -> Nat]]
         /\ answer' \in [Address -> {"none", "next", "429"}]
         /\ \A b \in Address : b # a => passed'[b] = passed[b]
         /\ \A i \in Age : passed'[a][i] <= passed[a][i] + 1
<1>1. MaxPassed \in Nat
  BY WindowFacts DEF TypeOK
<1> DEFINE h == [i \in Age |-> IF passed[a][i] < MaxPassed
                               THEN passed[a][i] + 1 ELSE passed[a][i]]
<1>2. passed' = [passed EXCEPT ![a] = h]
  BY DEF LetIn
<1>3. passed[a] \in [Age -> Nat]
  BY DEF TypeOK
<1>4. h \in [Age -> Nat]
  BY <1>1, <1>3
<1>5. \A i \in Age : h[i] <= passed[a][i] + 1
  BY <1>1, <1>3
<1> HIDE DEF h
<1>6. passed' \in [Address -> [Age -> Nat]]
  BY <1>2, <1>4 DEF TypeOK
<1>7. passed'[a] = h
  BY <1>2 DEF TypeOK
<1>8. \A b \in Address : b # a => passed'[b] = passed[b]
  BY <1>2 DEF TypeOK
<1>9. answer' \in [Address -> {"none", "next", "429"}]
  BY DEF TypeOK, LetIn
<1> QED
  BY <1>5, <1>6, <1>7, <1>8, <1>9

(* Letting one in undecided marks the address's whole history. *)
LEMMA LetInUndecidedTyped ==
  ASSUME TypeOK, NEW a \in Address, LetInUndecided(a)
  PROVE  /\ undecided' \in [Address -> [Age -> BOOLEAN]]
         /\ \A b \in Address : b # a => undecided'[b] = undecided[b]
         /\ \A i \in Age : undecided'[a][i] = TRUE
<1>1. [i \in Age |-> TRUE] \in [Age -> BOOLEAN]
  OBVIOUS
<1>2. undecided' = [undecided EXCEPT ![a] = [i \in Age |-> TRUE]]
  BY DEF LetInUndecided
<1>3. undecided'[a] = [i \in Age |-> TRUE]
  BY <1>2 DEF TypeOK
<1> QED
  BY <1>1, <1>2, <1>3 DEF TypeOK

(* A tick moves the history by one. *)
LEMMA TickTyped ==
  ASSUME TypeOK, Tick
  PROVE  /\ TypeOK'
         /\ \A a \in Address : passed'[a][0] = 0
         /\ \A a \in Address, i \in Age :
              i # 0 => /\ i - 1 \in Age
                       /\ passed'[a][i] = passed[a][i - 1]
                       /\ undecided'[a][i] = undecided[a][i - 1]
<1>1. config' = config /\ Age' = Age
  BY DEF Tick, Age, Window
<1>2. Age \subseteq Nat /\ 0 \in Age
  BY WindowFacts DEF TypeOK
<1>3. \A i \in Age : i # 0 => i - 1 \in Age
  <2>1. Window \in Int
    BY WindowFacts DEF TypeOK
  <2> QED
    BY <2>1 DEF Age
<1>4. \A a \in Address : [i \in Age |-> IF i = 0 THEN 0 ELSE passed[a][i - 1]]
                           \in [Age -> Nat]
  BY <1>2, <1>3 DEF TypeOK
<1>5. passed' \in [Address -> [Age -> Nat]]
  BY <1>4 DEF Tick
<1>6. \A a \in Address :
        [i \in Age |-> IF i = 0 THEN FALSE ELSE undecided[a][i - 1]]
          \in [Age -> BOOLEAN]
  BY <1>2, <1>3 DEF TypeOK
<1>7. undecided' \in [Address -> [Age -> BOOLEAN]]
  BY <1>6 DEF Tick
<1>8. \A t \in Nat : Sooner(t) \in Nat
  BY DEF Sooner
<1>9. ttl' \in [Address -> Nat] /\ block' \in [Address -> Nat]
  BY <1>8 DEF Tick, TypeOK
<1>10. count' \in [Address -> Nat]
  BY DEF Tick, TypeOK
<1>11. TypeOK'
  BY <1>1, <1>5, <1>7, <1>9, <1>10 DEF TypeOK, Tick
<1>12. \A a \in Address, i \in Age :
         passed'[a][i] = IF i = 0 THEN 0 ELSE passed[a][i - 1]
  BY DEF Tick
<1>13. \A a \in Address, i \in Age :
         undecided'[a][i] = IF i = 0 THEN FALSE ELSE undecided[a][i - 1]
  BY DEF Tick
<1> QED
  BY <1>2, <1>3, <1>11, <1>12, <1>13

LEMMA TypeNext ==
  ASSUME TypeOK, [Next]_vars
  PROVE  TypeOK'
<1>1. config' = config /\ Age' = Age
  BY ConfigKept
<1>2. ASSUME NEW a \in Address, Accept(a)
      PROVE  TypeOK'
  <2>1. count' \in [Address -> Nat] /\ ttl' \in [Address -> Nat]
    BY <1>2, CountRequestTyped DEF Accept
  <2>2. /\ passed' \in [Address -> [Age -> Nat]]
        /\ answer' \in [Address -> {"none", "next", "429"}]
    BY <1>2, LetInTyped DEF Accept
  <2> QED
    BY <1>1, <1>2, <2>1, <2>2 DEF TypeOK, Accept
<1>3. ASSUME NEW a \in Address, Refuse(a)
      PROVE  TypeOK'
  <2>1. block' \in [Address -> Nat]
    BY <1>3, SetBlockTyped DEF Refuse
  <2> QED
    BY <1>1, <1>3, <2>1 DEF TypeOK, Refuse
<1>4. ASSUME NEW a \in Address, ScriptError(a)
      PROVE  TypeOK'
  <2>1. /\ passed' \in [Address -> [Age -> Nat]]
        /\ answer' \in [Address -> {"none", "next", "429"}]
    BY <1>4, LetInTyped DEF ScriptError, LetInUndecided
  <2>2. undecided' \in [Address -> [Age -> BOOLEAN]]
    BY <1>4, LetInUndecidedTyped DEF ScriptError
  <2> QED
    BY <1>1, <1>4, <2>1, <2>2 DEF TypeOK, ScriptError
<1>5. ASSUME NEW a \in Address, FailOpen(a)
      PROVE  TypeOK'
  <2>1. count' \in [Address -> Nat] /\ ttl' \in [Address -> Nat]
    BY <1>5, CountRequestTyped DEF FailOpen, TypeOK
  <2>2. block' \in [Address -> Nat]
    BY <1>5, SetBlockTyped DEF FailOpen, TypeOK
  <2>3. /\ passed' \in [Address -> [Age -> Nat]]
        /\ answer' \in [Address -> {"none", "next", "429"}]
    BY <1>5, LetInTyped DEF FailOpen, LetInUndecided
  <2>4. undecided' \in [Address -> [Age -> BOOLEAN]]
    BY <1>5, LetInUndecidedTyped DEF FailOpen
  <2> QED
    BY <1>1, <1>5, <2>1, <2>2, <2>3, <2>4 DEF TypeOK, FailOpen
<1>6. CASE Tick
  BY <1>6, TickTyped
<1>7. CASE UNCHANGED vars
  BY <1>7, <1>1 DEF TypeOK, vars
<1> QED
  BY <1>2, <1>3, <1>4, <1>5, <1>6, <1>7 DEF Next, Handle

LEMMA TypeInit == Init => TypeOK
<1> SUFFICES ASSUME Init PROVE TypeOK
  OBVIOUS
<1>1. [i \in Age |-> 0] \in [Age -> Nat]
  OBVIOUS
<1>2. [i \in Age |-> FALSE] \in [Age -> BOOLEAN]
  BY Zenon
<1>3. undecided \in [Address -> [Age -> BOOLEAN]]
  BY <1>2, Zenon DEF Init
<1> QED
  BY <1>1, <1>3 DEF Init, TypeOK

(* The two keys of an address and the history of its requests are well-formed in *)
(* every state, for any settings the process accepts. *)
THEOREM TypeCorrect == Spec => []TypeOK
  BY TypeInit, TypeNext, PTL DEF Spec

-----------------------------------------------------------------------------
(* Two windows *)

\* What the counter of an address says of the requests let in.  While it is there,
\* its window is Window + 1 - ttl ticks old: the requests of that window are counted,
\* and those before it are one window's at most.  When it is not there, one window's
\* requests at most are left in an interval, and none of the current tick.
Counted(a) ==
  /\ count[a] <= Quota
  /\ count[a] > 0 =>
       /\ ttl[a] \in 1..(Window + 1)
       /\ \A i \in Age : AtMost(a, i, count[a] + Quota)
       /\ \A i \in Age : i + ttl[a] <= Window + 1 => AtMost(a, i, count[a])
  /\ count[a] = 0 =>
       /\ AtMost(a, 0, 0)
       /\ \A i \in Age : AtMost(a, i, Quota)

IInv ==
  /\ TypeOK
  /\ Window > 0 => \A a \in Address : Counted(a)

(* A larger bound holds where a smaller one does. *)
LEMMA AtMostMore ==
  ASSUME TypeOK, NEW a \in Address, NEW i \in Age,
         NEW n \in Nat, NEW m \in Nat, n <= m, AtMost(a, i, n)
  PROVE  AtMost(a, i, m)
<1>1. passed[a][i] \in Nat
  BY DEF TypeOK
<1>2. CASE undecided[a][i]
  BY <1>2, Zenon DEF AtMost
<1>3. CASE passed[a][i] <= n
  <2>1. passed[a][i] <= m
    BY <1>1, <1>3
  <2> QED
    BY <2>1, Zenon DEF AtMost
<1> QED
  BY <1>2, <1>3, Zenon DEF AtMost

(* What an interval held, the interval one tick longer holds after the tick. *)
LEMMA TickAtMost ==
  ASSUME TypeOK, Tick, NEW a \in Address, NEW i \in Age, NEW n \in Nat,
         i # 0 => AtMost(a, i - 1, n)
  PROVE  AtMost(a, i, n)'
<1>1. CASE i = 0
  <2>1. passed'[a][i] <= n
    BY <1>1, TickTyped
  <2> QED
    BY <2>1, Zenon DEF AtMost
<1>2. CASE i # 0
  <2>1. passed'[a][i] = passed[a][i - 1] /\ undecided'[a][i] = undecided[a][i - 1]
    BY <1>2, TickTyped, Zenon
  <2> QED
    BY <1>2, <2>1, Zenon DEF AtMost
<1> QED
  BY <1>1, <1>2, Zenon

(* A tick ages a window and its requests alike, and ends it when they leave the *)
(* interval. *)
LEMMA TickCounted ==
  ASSUME TypeOK, Tick, Window > 0, NEW a \in Address, Counted(a)
  PROVE  Counted(a)'
<1>1. Window' = Window /\ Quota' = Quota /\ Age' = Age
  BY DEF Tick, Window, Quota, Age
<1>2. /\ Window \in Int /\ Quota \in Nat /\ Age \subseteq Nat
      /\ 0 \in Age /\ Window \in Age
  BY WindowFacts DEF TypeOK
<1>3. \A i \in Age : i <= Window
  BY <1>2 DEF Age
<1>4. \A i \in Age : i # 0 => i - 1 \in Age
  BY TickTyped
<1>5. count[a] \in Nat /\ ttl[a] \in Nat
  BY DEF TypeOK
<1>6. /\ count'[a] = IF Sooner(ttl[a]) = 0 THEN 0 ELSE count[a]
      /\ ttl'[a] = Sooner(ttl[a])
  BY DEF Tick
<1>7. CASE count[a] > 0 /\ ttl[a] > 1
  <2>1. count'[a] = count[a] /\ ttl'[a] = ttl[a] - 1
    BY <1>5, <1>6, <1>7 DEF Sooner
  <2>2. count[a] <= Quota /\ ttl[a] \in 1..(Window + 1)
    BY <1>7 DEF Counted
  <2>3. ttl[a] - 1 \in 1..(Window + 1)
    BY <2>2, <1>2, <1>7
  <2>4. count[a] + Quota \in Nat
    BY <1>2, <1>5
  <2>5. ASSUME NEW i \in Age
        PROVE  AtMost(a, i, count[a] + Quota)'
    <3>1. i # 0 => AtMost(a, i - 1, count[a] + Quota)
      BY <1>4, <1>7 DEF Counted
    <3>2. \A n \in Nat : (i # 0 => AtMost(a, i - 1, n)) => (undecided'[a][i] \/ passed'[a][i] <= n)
      BY TickAtMost, Zenon DEF AtMost
    <3>3. undecided'[a][i] \/ passed'[a][i] <= count[a] + Quota
      BY <2>4, <3>1, <3>2, Zenon
    <3> QED
      BY <1>1, <2>1, <3>3, Zenon DEF AtMost
  <2>6. ASSUME NEW i \in Age, i + (ttl[a] - 1) <= Window + 1
        PROVE  AtMost(a, i, count[a])'
    <3>1. i # 0 => (i - 1) + ttl[a] <= Window + 1
      BY <2>6, <1>2, <1>5
    <3>2. i # 0 => AtMost(a, i - 1, count[a])
      BY <3>1, <1>4, <1>7 DEF Counted
    <3>3. \A n \in Nat : (i # 0 => AtMost(a, i - 1, n)) => (undecided'[a][i] \/ passed'[a][i] <= n)
      BY TickAtMost, Zenon DEF AtMost
    <3>4. undecided'[a][i] \/ passed'[a][i] <= count[a]
      BY <1>5, <3>2, <3>3, Zenon
    <3> QED
      BY <2>1, <3>4, Zenon DEF AtMost
  <2> QED
    BY <1>1, <1>7, <2>1, <2>2, <2>3, <2>5, <2>6 DEF Counted
<1>8. CASE ~(count[a] > 0 /\ ttl[a] > 1)
  <2>1. count'[a] = 0
    BY <1>5, <1>6, <1>8 DEF Sooner
  <2>2. ASSUME NEW i \in Age, i # Window
        PROVE  AtMost(a, i, Quota)
    <3>1. CASE count[a] = 0
      BY <3>1 DEF Counted
    <3>2. CASE count[a] > 0
      <4>1. ttl[a] = 1 /\ count[a] <= Quota
        BY <3>2, <1>2, <1>8 DEF Counted
      <4>2. i + ttl[a] <= Window + 1
        BY <4>1, <1>2, <1>3
      <4>3. AtMost(a, i, count[a])
        BY <3>2, <4>2 DEF Counted
      <4> QED
        BY <4>1, <4>3, <1>2, <1>5, AtMostMore
    <3> QED
      BY <3>1, <3>2, <1>5
  <2>3. ASSUME NEW i \in Age
        PROVE  AtMost(a, i, Quota)'
    <3>1. i # 0 => i - 1 # Window
      BY <1>2, <1>3
    <3>2. i # 0 => AtMost(a, i - 1, Quota)
      BY <3>1, <1>4, <2>2
    <3> QED
      BY <1>1, <1>2, <3>2, TickAtMost DEF AtMost
  <2>4. AtMost(a, 0, 0)'
    BY <1>2, TickAtMost
  <2>5. ~(count'[a] > 0) /\ count'[a] <= Quota
    BY <1>2, <2>1
  <2> QED
    BY <1>1, <2>3, <2>4, <2>5 DEF Counted
<1> QED
  BY <1>7, <1>8

(* With a window, a request below the limit makes the counter or adds one to it. *)
LEMMA CountedOnce ==
  ASSUME TypeOK, Window > 0, NEW a \in Address, ~OverLimit(a), CountRequest(a)
  PROVE  /\ count[a] + 1 <= Quota
         /\ count'[a] = count[a] + 1
         /\ ttl'[a] = IF count[a] = 0 THEN Window + 1 ELSE ttl[a]
<1>1. Window \in Int /\ config.limit \in Int /\ count[a] \in Nat
  BY WindowFacts DEF TypeOK
<1>2. /\ count' = [count EXCEPT ![a] = @ + 1]
      /\ ttl' = [ttl EXCEPT ![a] = IF count[a] = 0 THEN Window + 1 ELSE @]
  BY <1>1 DEF CountRequest
<1>3. count'[a] = count[a] + 1 /\ ttl'[a] = IF count[a] = 0 THEN Window + 1 ELSE ttl[a]
  BY <1>2 DEF TypeOK
<1>4. count[a] + 1 <= Quota
  BY <1>1 DEF OverLimit, Quota
<1> QED
  BY <1>3, <1>4

(* A request that the script lets in is counted in the same run of it. *)
LEMMA AcceptCounted ==
  ASSUME TypeOK, Window > 0, NEW a \in Address, Accept(a), Counted(a)
  PROVE  Counted(a)'
<1>1. Window' = Window /\ Quota' = Quota /\ Age' = Age
  BY DEF Accept, Window, Quota, Age
<1>2. /\ Window \in Int /\ Quota \in Nat /\ Age \subseteq Nat /\ 0 \in Age
  BY WindowFacts DEF TypeOK
<1>3. count[a] \in Nat /\ ttl[a] \in Nat
  BY DEF TypeOK
<1>4. /\ count[a] + 1 <= Quota
      /\ count'[a] = count[a] + 1
      /\ ttl'[a] = IF count[a] = 0 THEN Window + 1 ELSE ttl[a]
  BY CountedOnce DEF Accept
<1>5. ASSUME NEW i \in Age, NEW n \in Nat, AtMost(a, i, n)
      PROVE  undecided'[a][i] \/ passed'[a][i] <= n + 1
  <2>1. /\ passed'[a][i] <= passed[a][i] + 1
        /\ passed'[a][i] \in Nat /\ passed[a][i] \in Nat
        /\ undecided' = undecided
    BY <1>1, LetInTyped DEF Accept, TypeOK
  <2>2. passed[a][i] <= n => passed'[a][i] <= n + 1
    BY <2>1
  <2> QED
    BY <1>5, <2>1, <2>2, Zenon DEF AtMost
<1>6. ttl'[a] \in 1..(Window + 1)
  BY <1>2, <1>3, <1>4 DEF Counted
<1>7. ASSUME NEW i \in Age
      PROVE  AtMost(a, i, count[a] + Quota)'
  <2>1. AtMost(a, i, count[a] + Quota)
    BY <1>2, <1>3 DEF Counted
  <2>2. count[a] + Quota \in Nat /\ count'[a] + Quota' = (count[a] + Quota) + 1
    BY <1>1, <1>2, <1>3, <1>4
  <2>3. undecided'[a][i] \/ passed'[a][i] <= (count[a] + Quota) + 1
    BY <1>5, <2>1, <2>2
  <2> QED
    BY <2>2, <2>3, Zenon DEF AtMost
<1>8. ASSUME NEW i \in Age, i + ttl'[a] <= Window + 1
      PROVE  AtMost(a, i, count[a])'
  <2>1. AtMost(a, i, count[a])
    <3>1. CASE count[a] = 0
      <4>1. i = 0
        BY <3>1, <1>2, <1>4, <1>8
      <4> QED
        BY <3>1, <4>1 DEF Counted
    <3>2. CASE count[a] > 0
      BY <3>2, <1>3, <1>4, <1>8 DEF Counted
    <3> QED
      BY <3>1, <3>2, <1>3
  <2>2. undecided'[a][i] \/ passed'[a][i] <= count[a] + 1
    BY <1>3, <1>5, <2>1
  <2> QED
    BY <1>4, <2>2, Zenon DEF AtMost
<1>9. count'[a] > 0 /\ count'[a] # 0 /\ count'[a] <= Quota
  BY <1>2, <1>3, <1>4
<1> QED
  BY <1>1, <1>6, <1>7, <1>8, <1>9 DEF Counted

(* A request that is let in undecided makes no claim of any interval it is in.  The *)
(* script may have counted it, if it was below the limit. *)
LEMMA UndecidedCounted ==
  ASSUME TypeOK, Window > 0, NEW a \in Address, Counted(a),
         LetInUndecided(a), config' = config,
         \/ ~OverLimit(a) /\ CountRequest(a)
         \/ UNCHANGED <<count, ttl>>
  PROVE  Counted(a)'
<1>1. Window' = Window /\ Quota' = Quota /\ Age' = Age
  BY DEF Window, Quota, Age
<1>2. /\ Window \in Int /\ Quota \in Nat /\ 0 \in Age
  BY WindowFacts DEF TypeOK
<1>3. count[a] \in Nat /\ ttl[a] \in Nat
  BY DEF TypeOK
<1>4. \A i \in Age : undecided'[a][i]
  BY LetInUndecidedTyped
<1>5. /\ \A i \in Age : AtMost(a, i, count[a] + Quota)'
      /\ \A i \in Age : AtMost(a, i, count[a])'
      /\ \A i \in Age : AtMost(a, i, Quota)'
      /\ AtMost(a, 0, 0)'
  BY <1>2, <1>4, Zenon DEF AtMost
<1>6. count'[a] <= Quota /\ (count'[a] > 0 => ttl'[a] \in 1..(Window + 1))
  <2>1. CASE ~OverLimit(a) /\ CountRequest(a)
    <3>1. /\ count[a] + 1 <= Quota
          /\ count'[a] = count[a] + 1
          /\ ttl'[a] = IF count[a] = 0 THEN Window + 1 ELSE ttl[a]
      BY <2>1, CountedOnce
    <3> QED
      BY <3>1, <1>2, <1>3 DEF Counted
  <2>2. CASE UNCHANGED <<count, ttl>>
    BY <2>2 DEF Counted
  <2> QED
    BY <2>1, <2>2
<1> QED
  BY <1>1, <1>5, <1>6 DEF Counted

(* A request of one address changes nothing of another's. *)
LEMMA OthersCounted ==
  ASSUME TypeOK, NEW a \in Address, Handle(a), NEW b \in Address, b # a, Counted(b)
  PROVE  Counted(b)'
<1>1. config' = config
  BY DEF Handle, Accept, Refuse, ScriptError, FailOpen
<1>2. Window' = Window /\ Quota' = Quota /\ Age' = Age
  BY <1>1 DEF Window, Quota, Age
<1>3. CountRequest(a) => count'[b] = count[b] /\ ttl'[b] = ttl[b]
  BY DEF CountRequest, TypeOK
<1>4. LetIn(a) => passed'[b] = passed[b]
  BY LetInTyped
<1>5. LetInUndecided(a) => passed'[b] = passed[b] /\ undecided'[b] = undecided[b]
  BY <1>4, LetInUndecidedTyped DEF LetInUndecided
<1>6. /\ count'[b] = count[b] /\ ttl'[b] = ttl[b]
      /\ passed'[b] = passed[b] /\ undecided'[b] = undecided[b]
  BY <1>3, <1>4, <1>5 DEF Handle, Accept, Refuse, ScriptError, FailOpen
<1> QED
  BY <1>2, <1>6, Zenon DEF Counted, AtMost

LEMMA InvNext ==
  ASSUME IInv, [Next]_vars
  PROVE  IInv'
<1>1. TypeOK'
  BY TypeNext DEF IInv
<1>2. config' = config /\ Window' = Window /\ Quota' = Quota /\ Age' = Age
  BY ConfigKept
<1>3. SUFFICES ASSUME Window > 0, NEW a \in Address
               PROVE  Counted(a)'
  BY <1>1, <1>2 DEF IInv
<1>4. TypeOK /\ Counted(a)
  BY <1>3 DEF IInv
<1>5. CASE Tick
  BY <1>3, <1>4, <1>5, TickCounted
<1>6. CASE UNCHANGED vars
  BY <1>2, <1>4, <1>6 DEF Counted, AtMost, vars
<1>7. ASSUME NEW b \in Address, Handle(b), b # a
      PROVE  Counted(a)'
  BY <1>4, <1>7, OthersCounted
<1>8. CASE Accept(a)
  BY <1>3, <1>4, <1>8, AcceptCounted
<1>9. CASE Refuse(a)
  BY <1>2, <1>4, <1>9 DEF Refuse, Counted, AtMost
<1>10. CASE ScriptError(a)
  BY <1>2, <1>3, <1>4, <1>10, UndecidedCounted DEF ScriptError
<1>11. CASE FailOpen(a)
  BY <1>2, <1>3, <1>4, <1>11, UndecidedCounted DEF FailOpen
<1> QED
  BY <1>5, <1>6, <1>7, <1>8, <1>9, <1>10, <1>11 DEF Next, Handle

LEMMA InvInit == Init => IInv
<1> SUFFICES ASSUME Init PROVE IInv
  OBVIOUS
<1>1. TypeOK
  BY TypeInit
<1>2. Quota \in Nat
  BY <1>1, WindowFacts DEF TypeOK
<1>3. 0 \in Age
  BY DEF Age
<1>4. ASSUME NEW a \in Address
      PROVE  Counted(a)
  <2>1. count[a] = 0 /\ passed[a] = [i \in Age |-> 0]
    BY DEF Init
  <2>2. \A i \in Age : passed[a][i] <= Quota
    BY <1>2, <2>1
  <2>3. passed[a][0] <= 0
    BY <1>3, <2>1
  <2>4. 0 <= Quota /\ ~(0 > 0)
    BY <1>2
  <2> QED
    BY <2>1, <2>2, <2>3, <2>4 DEF Counted, AtMost
<1> QED
  BY <1>1, <1>4 DEF IInv

(* The counter's window and the one before it are all an interval can hold. *)
LEMMA InvBounds == IInv => AtMostTwoWindows
<1> SUFFICES ASSUME IInv, Window > 0, NEW a \in Address
             PROVE  AtMost(a, Window, 2 * Quota)
  BY DEF AtMostTwoWindows
<1>1. Quota \in Nat /\ Window \in Age
  BY WindowFacts DEF IInv, TypeOK
<1>2. TypeOK /\ Counted(a)
  BY DEF IInv
<1>3. count[a] \in Nat /\ count[a] <= Quota
  BY <1>2 DEF Counted, TypeOK
<1>4. PICK n \in Nat : n <= 2 * Quota /\ AtMost(a, Window, n)
  <2>1. CASE count[a] = 0
    BY <1>1, <1>2, <2>1 DEF Counted
  <2>2. CASE count[a] > 0
    BY <1>1, <1>2, <1>3, <2>2 DEF Counted
  <2> QED
    BY <1>3, <2>1, <2>2
<1> QED
  BY <1>1, <1>2, <1>4, AtMostMore

(* For all settings: the requests of an address that the middleware lets in during *)
(* any interval are twice the limit at most, unless the script failed for one of    *)
(* them.  A failure costs the limit of no interval it is not in, even when the      *)
(* script counted a request and only its reply was lost.  The windows are the       *)
(* script's, and fixed; the sliding window README names would be half of this.      *)
THEOREM WindowsBounded == Spec => []AtMostTwoWindows
<1>1. Init => IInv
  BY InvInit
<1>2. IInv /\ [Next]_vars => IInv'
  BY InvNext
<1>3. IInv => AtMostTwoWindows
  BY InvBounds
<1> QED
  BY <1>1, <1>2, <1>3, PTL DEF Spec
=============================================================================
