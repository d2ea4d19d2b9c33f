---------------------------- MODULE RateLimiter ----------------------------
(***************************************************************************)
(* The rate limiter (RateLimiter in api/middleware.go) and the two Redis   *)
(* keys it keeps for a client address.  Redis runs the Lua script without  *)
(* interleaving, so a run of the script is one action.                     *)
(*                                                                         *)
(* A key's expiry is kept as the number of ticks until Redis drops it, 0   *)
(* for a key that is not there.  Redis drops a key when the clock is past  *)
(* its deadline, so a key with a lifetime of n ticks is there for n + 1    *)
(* clock values.                                                           *)
(***************************************************************************)
EXTENDS Integers

CONSTANTS
  Address,    \* client addresses (RealIP)
  Limits,     \* values of RATE_LIMIT_LIMIT
  Intervals,  \* values of RATE_LIMIT_INTERVAL, in ticks
  BlockTimes, \* values of RATE_LIMIT_BLOCK_TIME, in ticks
  Second,     \* ticks in a second
  Faulty      \* Redis may be unreachable, or its reply be lost

ASSUME LimiterAssumption ==
  /\ Limits \subseteq Int
  /\ Intervals \subseteq Int
  /\ BlockTimes \subseteq Int
  /\ Second \in Nat \ {0}
  /\ Faulty \in BOOLEAN

VARIABLES
  config,  \* what the process was started with
  count,   \* value of the counter key of an address, 0 if there is none
  ttl,     \* ticks until the counter key is dropped
  block,   \* ticks until the block key is dropped, 0 if there is none
  answer,  \* what the middleware last did with a request of an address
  (* history, for each i: *)
  passed,    \* requests the middleware let in during the last i ticks, for any reason
  undecided  \* whether one of them was let in for want of a verdict of the script

vars == <<config, count, ttl, block, answer, passed, undecided>>

\* NewRateLimiterConfig: a variable that is missing or does not parse has its
\* default, which is a value like the others; no value is refused, a negative
\* one neither.
RateLimiterConfig == [limit : Limits, interval : Intervals, blockTime : BlockTimes]

\* int(d.Seconds()): whole seconds, rounded towards zero, in ticks.
WholeSeconds(d) ==
  IF d < 0 THEN -(((-d) \div Second) * Second) ELSE (d \div Second) * Second

Window      == WholeSeconds(config.interval)
BlockLength == WholeSeconds(config.blockTime)

\* The history looks back one interval, as the script counts it.
Age == {0} \cup 1..Window

\* Requests one window has room for.
Quota == IF config.limit > 0 THEN config.limit ELSE 0

\* Bound: the history counts no further, which tells the properties apart.
MaxPassed == 2 * Quota + 1

TypeOK ==
  /\ config \in RateLimiterConfig
  /\ count \in [Address -> Nat]
  /\ ttl \in [Address -> Nat]
  /\ block \in [Address -> Nat]
  /\ answer \in [Address -> {"none", "next", "429"}]
  /\ passed \in [Address -> [Age -> Nat]]
  /\ undecided \in [Address -> [Age -> BOOLEAN]]

Init ==
  /\ config \in RateLimiterConfig
  /\ count = [a \in Address |-> 0]
  /\ ttl = [a \in Address |-> 0]
  /\ block = [a \in Address |-> 0]
  /\ answer = [a \in Address |-> "none"]
  /\ passed = [a \in Address |-> [i \in Age |-> 0]]
  /\ undecided = [a \in Address |-> [i \in Age |-> FALSE]]

-----------------------------------------------------------------------------
\* INCR and, for the request that made the key, EXPIRE.  EXPIRE with 0 or less
\* drops the key at once.
CountRequest(a) ==
  IF count[a] = 0 /\ Window <= 0
  THEN UNCHANGED <<count, ttl>>
  ELSE /\ count' = [count EXCEPT ![a] = @ + 1]
       /\ ttl' = [ttl EXCEPT ![a] =
                    IF count[a] = 0 THEN Window + 1 ELSE @]

\* Mutant: off by one.
OverLimitByOne(a) == count[a] > config.limit

OverLimit(a) == count[a] >= config.limit

LetIn(a) ==
  /\ answer' = [answer EXCEPT ![a] = "next"]
  /\ passed' = [passed EXCEPT ![a] =
                  [i \in Age |-> IF @[i] < MaxPassed THEN @[i] + 1 ELSE @[i]]]

\* Below the limit: counted and let in.
Accept(a) ==
  /\ ~OverLimit(a)
  /\ CountRequest(a)
  /\ LetIn(a)
  /\ UNCHANGED <<config, block, undecided>>

\* Mutant: a refused request renews the counter's lifetime.
RefuseRenewing(a) ==
  /\ OverLimit(a)
  /\ ttl' = [ttl EXCEPT ![a] = Window + 1]
  /\ answer' = [answer EXCEPT ![a] = "429"]
  /\ UNCHANGED <<config, count, block, passed, undecided>>

\* The block key is made if there is none.  It is read nowhere else.
SetBlock(a) ==
  \/ block[a] > 0 /\ UNCHANGED block
  \/ /\ block[a] = 0 /\ BlockLength > 0
     /\ block' = [block EXCEPT ![a] = BlockLength + 1]

\* At the limit: refused.
Refuse(a) ==
  /\ OverLimit(a)
  /\ SetBlock(a)
  /\ answer' = [answer EXCEPT ![a] = "429"]
  /\ UNCHANGED <<config, count, ttl, passed, undecided>>

\* The script gave no verdict, so the middleware lets the request in.
LetInUndecided(a) ==
  /\ LetIn(a)
  /\ undecided' = [undecided EXCEPT ![a] = [i \in Age |-> TRUE]]

\* SETEX with 0 seconds or less is an error, which fails the script.
ScriptError(a) ==
  /\ OverLimit(a)
  /\ block[a] = 0 /\ BlockLength <= 0
  /\ LetInUndecided(a)
  /\ UNCHANGED <<config, count, ttl, block>>

\* Redis is not reached, or the reply of the script does not come back.
FailOpen(a) ==
  /\ Faulty
  /\ \/ ~OverLimit(a) /\ CountRequest(a) /\ UNCHANGED block
     \/ OverLimit(a) /\ SetBlock(a) /\ UNCHANGED <<count, ttl>>
     \/ UNCHANGED <<count, ttl, block>>
  /\ LetInUndecided(a)
  /\ UNCHANGED config

Handle(a) == Accept(a) \/ Refuse(a) \/ ScriptError(a) \/ FailOpen(a)

\* Mutant: the lifetime is not stopped at its end.
SoonerPastZero(t) == t - 1

\* One tick nearer to the end of a key's lifetime.
Sooner(t) == IF t > 0 THEN t - 1 ELSE t

\* A tick: Redis drops the keys whose lifetime has ended.
Tick ==
  /\ ttl' = [a \in Address |-> Sooner(ttl[a])]
  /\ count' = [a \in Address |-> IF Sooner(ttl[a]) = 0 THEN 0 ELSE count[a]]
  /\ block' = [a \in Address |-> Sooner(block[a])]
  /\ passed' = [a \in Address |->
                  [i \in Age |-> IF i = 0 THEN 0 ELSE passed[a][i - 1]]]
  /\ undecided' = [a \in Address |->
                     [i \in Age |-> IF i = 0 THEN FALSE ELSE undecided[a][i - 1]]]
  /\ UNCHANGED <<config, answer>>

Next == Tick \/ \E a \in Address : Handle(a)

Spec == Init /\ [][Next]_vars

\* Time passes.  Nothing is asked of the clients.
FairSpec == Spec /\ WF_vars(Tick)

-----------------------------------------------------------------------------
\* At most n requests of a were let in during the last i ticks, if the script gave a
\* verdict on every one of them.
AtMost(a, i, n) == undecided[a][i] \/ passed[a][i] <= n

\* The script keeps a fixed window that opens with a client's first request, so the
\* requests of two windows, and no more, fit into any interval in which it gave a
\* verdict on each one let in.  An interval with a failure has no bound: the
\* middleware lets everything in while the script fails.  The failure is paid for by
\* the intervals that contain it and by no later one, though the script may have
\* counted a request whose reply was lost.  (An interval below one second turns the
\* limiter off, as the counter is dropped as soon as it is made.  A limit below 0 is
\* one of 0.)
AtMostTwoWindows ==
  Window > 0 => \A a \in Address : AtMost(a, Window, 2 * Quota)

\* A client at the limit does not stay there, even if it never stops asking: the
\* requests made meanwhile do not prolong the counter's life.  (A limit that is not
\* positive is accepted, and shuts everybody out.)
LimitEnds ==
  config.limit > 0 => \A a \in Address : OverLimit(a) ~> ~OverLimit(a)

-----------------------------------------------------------------------------
(* What a comment and the README say, which the code does not keep *)

\* Comment of RateLimiter: blockTime is how long a client is blocked after it
\* exceeded the limit; no request is let in while the block key is there.
BlockIsHeld ==
  [][\A a \in Address : block[a] > 0 => passed'[a][0] <= passed[a][0]]_vars

\* README: the limiter is a sliding window, so that no interval sees more requests of
\* an address than the limit.
SlidingWindow ==
  Window > 0 => \A a \in Address : AtMost(a, Window, Quota)
=============================================================================
