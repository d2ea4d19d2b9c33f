--------------------------- MODULE LifecycleProofs ---------------------------
(***************************************************************************)
(* Lifecycle, for any number of handlers: TypeOK, and that a graceful      *)
(* shutdown cuts off no handler before its timeout.                        *)
(***************************************************************************)
EXTENDS Lifecycle, TLAPS

\* main has started the server.
Serving == {"wait", "shutdown", "closeDB", "closeRedis", "linger"}

\* Shutdown has returned.
Closing == {"closeDB", "closeRedis", "linger"}

\* The stores are open while main has not come to close them.
StoresOpen ==
  /\ main \in {"migrate", "redis", "sync", "config", "run", "wait", "shutdown", "closeDB"}
       => "postgres" \in open
  /\ main \in {"sync", "config", "run", "wait", "shutdown", "closeDB", "closeRedis"}
       => "redis" \in open

\* Only a server that serves lets handlers in, and it does so while main waits.
ServerFollowsMain ==
  /\ server = "serving" => main = "wait"
  /\ server # "none" => main \in Serving
  /\ \A r \in Request : req[r] # "idle" => main \in Serving

\* When Shutdown has returned, it has waited for the handlers or for its timeout;
\* no handler has come since.
ClosedInTime == main \in Closing => HandlersDone \/ timer = "expired"

IInv == TypeOK /\ StoresOpen /\ ServerFollowsMain /\ ClosedInTime

-----------------------------------------------------------------------------
LEMMA InvInit == Init => IInv
  BY DEF Init, IInv, TypeOK, StoresOpen, ServerFollowsMain, ClosedInTime, Settings,
         Serving, Closing

\* The end of the process forgets everything.
LEMMA InvExit ==
  ASSUME IInv, NEW how \in {"returned", "fatal", "killed"}, Exit(how)
  PROVE  IInv'
  BY DEF Exit, IInv, TypeOK, StoresOpen, ServerFollowsMain, ClosedInTime, Serving,
         Closing, HandlersDone

LEMMA InvStart ==
  ASSUME IInv, Start \/ NewDBConnection \/ RunMigrations \/ NewRedisClient
               \/ SyncAPIKey \/ NewTokenConfig \/ Run
  PROVE  IInv'
<1>1. ASSUME Fatal  PROVE IInv'
  BY <1>1, InvExit DEF Fatal
<1> USE DEF IInv, TypeOK, StoresOpen, ServerFollowsMain, ClosedInTime, Serving,
            Closing, HandlersDone, process
<1>2. CASE Start
  BY <1>2 DEF Start
<1>3. CASE NewDBConnection
  BY <1>1, <1>3 DEF NewDBConnection
<1>4. CASE RunMigrations
  BY <1>1, <1>4 DEF RunMigrations
<1>5. CASE NewRedisClient
  BY <1>1, <1>5 DEF NewRedisClient
<1>6. CASE SyncAPIKey
  BY <1>1, <1>6 DEF SyncAPIKey
<1>7. CASE NewTokenConfig
  BY <1>1, <1>7 DEF NewTokenConfig
<1>8. CASE Run
  BY <1>1, <1>8 DEF Run
<1> QED
  BY <1>2, <1>3, <1>4, <1>5, <1>6, <1>7, <1>8

LEMMA InvStop ==
  ASSUME IInv, StopStep \/ ServerStarts \/ ServerFails \/ ShutdownTimeout
               \/ GraceTimeout \/ Signal \/ Kill
  PROVE  IInv'
<1>1. ASSUME ServerFails \/ Kill \/ Linger  PROVE IInv'
  BY <1>1, InvExit DEF Fatal, ServerFails, Kill, Linger
<1>2. CASE Signal
  <2>1. CASE Exit("killed")
    BY <2>1, InvExit
  <2>2. CASE signalled' = TRUE /\ UNCHANGED <<env, main, server, open, timer, grace, req, exit>>
    BY <2>2 DEF IInv, TypeOK, StoresOpen, ServerFollowsMain, ClosedInTime, HandlersDone
  <2> QED
    BY <1>2, <2>1, <2>2 DEF Signal
<1> USE DEF IInv, TypeOK, StoresOpen, ServerFollowsMain, ClosedInTime, Serving,
            Closing, HandlersDone, process
<1>3. CASE BeginShutdown
  BY <1>3 DEF BeginShutdown
<1>4. CASE ShutdownReturns
  BY <1>4 DEF ShutdownReturns
<1>5. CASE CloseDB
  BY <1>5 DEF CloseDB
<1>6. CASE CloseRedis
  BY <1>6 DEF CloseRedis
<1>7. CASE ServerStarts
  BY <1>7 DEF ServerStarts
<1>8. CASE ShutdownTimeout
  BY <1>8 DEF ShutdownTimeout
<1>9. CASE GraceTimeout
  BY <1>9 DEF GraceTimeout
<1> QED
  BY <1>1, <1>2, <1>3, <1>4, <1>5, <1>6, <1>7, <1>8, <1>9 DEF StopStep

LEMMA InvHandler ==
  ASSUME IInv, NEW r \in Request, Arrive(r) \/ Handle(r)
  PROVE  IInv'
<1>1. /\ UNCHANGED <<env, main, server, open, signalled, timer, grace, exit>>
      /\ \E next \in {"idle", "redis", "begin", "commit", "answer", "failed"} :
           req' = [req EXCEPT ![r] = next]
  BY DEF Arrive, Handle, UseRedis, BeginTx, EndTx, Answer, Becomes
<1>2. req[r] # "idle" \/ main = "wait"
  BY DEF Arrive, Handle, UseRedis, BeginTx, EndTx, Answer, IInv, ServerFollowsMain
<1>3. main \in Serving
  BY <1>2 DEF IInv, ServerFollowsMain, Serving
<1>4. main \in Closing => timer = "expired" \/ HandlersDone'
  <2> SUFFICES ASSUME main \in Closing, timer # "expired"  PROVE FALSE
    OBVIOUS
  <2>1. HandlersDone
    BY DEF IInv, ClosedInTime
  <2> QED
    BY <1>2, <2>1 DEF HandlersDone, Closing
<1> QED
  BY <1>1, <1>3, <1>4 DEF IInv, TypeOK, StoresOpen, ServerFollowsMain, ClosedInTime

LEMMA InvNext == IInv /\ [Next]_vars => IInv'
<1> SUFFICES ASSUME IInv, [Next]_vars  PROVE IInv'
  OBVIOUS
<1>1. CASE UNCHANGED vars
  BY <1>1 DEF vars, IInv, TypeOK, StoresOpen, ServerFollowsMain, ClosedInTime, HandlersDone
<1>2. CASE Next
  BY <1>2, InvStart, InvStop, InvHandler DEF Next
<1> QED
  BY <1>1, <1>2

LEMMA Invariant == Spec => []IInv
  BY InvInit, InvNext, PTL DEF Spec

\* Every reachable state of the process is well-formed.
THEOREM TypeCorrect == Spec => []TypeOK
<1>1. IInv => TypeOK
  BY DEF IInv
<1> QED
  BY <1>1, Invariant, PTL

-----------------------------------------------------------------------------
\* The step in which a handler meets a store that is closed comes after the
\* timeout, because that store is closed after Shutdown has returned.
LEMMA MeetsClosedStore ==
  ASSUME IInv, NEW r \in Request, UseRedis(r) \/ BeginTx(r), req'[r] = "failed"
  PROVE  timer = "expired"
<1>1. ~({"redis", "postgres"} \subseteq open) /\ req[r] # "idle"
  BY DEF UseRedis, BeginTx, Becomes, IInv, TypeOK
<1>2. main \in Closing
  BY <1>1 DEF IInv, StoresOpen, ServerFollowsMain, Serving, Closing
<1> QED
  BY <1>1, <1>2 DEF IInv, ClosedInTime, HandlersDone

\* main returns while a handler runs only if Shutdown has given up on it.
LEMMA ReturnsLate ==
  ASSUME IInv, NEW r \in Request, req[r] # "idle", Linger
  PROVE  timer = "expired"
  BY DEF Linger, IInv, ClosedInTime, HandlersDone, Closing

LEMMA CutStep ==
  ASSUME IInv, [Next]_vars, NEW r \in Request, CutOff(r)
  PROVE  timer = "expired" \/ (main' = "off" /\ exit' # "returned")
<1>1. ASSUME Exit("fatal") \/ Exit("killed")  PROVE main' = "off" /\ exit' # "returned"
  BY <1>1 DEF Exit
<1>2. CASE Linger
  BY <1>2, ReturnsLate DEF CutOff
<1>3. main # "off" /\ req[r] # "idle"
  BY DEF CutOff, IInv, ServerFollowsMain, Serving
<1>4. CASE \E q \in Request : UseRedis(q) \/ BeginTx(q)
  <2>1. PICK q \in Request : UseRedis(q) \/ BeginTx(q)
    BY <1>4
  <2>2. main' = main /\ req' = [req EXCEPT ![q] = req'[q]]
    BY <2>1 DEF UseRedis, BeginTx, Becomes, IInv, TypeOK
  <2>3. req[r] # "failed" /\ req'[r] = "failed"
    BY <1>3, <2>2 DEF CutOff
  <2>4. q = r
    BY <2>2, <2>3 DEF IInv, TypeOK
  <2> QED
    BY <2>1, <2>3, <2>4, MeetsClosedStore
<1>5. ASSUME main' # "off", req' = req \/ \E q \in Request : Arrive(q) \/ EndTx(q) \/ Answer(q)
      PROVE  FALSE
  BY <1>5 DEF CutOff, Arrive, EndTx, Answer, Becomes, IInv, TypeOK
<1>6. CASE Start \/ NewDBConnection \/ RunMigrations \/ NewRedisClient \/ SyncAPIKey
           \/ NewTokenConfig \/ Run
  BY <1>1, <1>3, <1>5, <1>6
     DEF Start, NewDBConnection, RunMigrations, NewRedisClient, SyncAPIKey,
         NewTokenConfig, Run, Fatal, process
<1>7. CASE ServerStarts \/ ServerFails \/ BeginShutdown \/ ShutdownReturns \/ CloseDB
           \/ CloseRedis \/ ShutdownTimeout \/ GraceTimeout \/ Signal \/ Kill
  BY <1>1, <1>3, <1>5, <1>7
     DEF ServerStarts, ServerFails, BeginShutdown, ShutdownReturns, CloseDB, CloseRedis,
         ShutdownTimeout, GraceTimeout, Signal, Kill, Fatal, process
<1>8. CASE \E q \in Request : Arrive(q) \/ EndTx(q) \/ Answer(q)
  BY <1>3, <1>5, <1>8 DEF Arrive, EndTx, Answer, Becomes
<1>9. CASE UNCHANGED vars
  BY <1>3, <1>5, <1>9 DEF vars
<1> QED
  BY <1>2, <1>4, <1>6, <1>7, <1>8, <1>9 DEF Next, StopStep, Handle

\* Whatever the number of handlers and wherever they are: Shutdown, the closing of
\* the stores and the end of main come in an order that cuts off nobody in time.
THEOREM GracefulShutdown == Spec => CutOnlyByTimeout
<1>1. IInv /\ [Next]_vars =>
        [\A r \in Request :
           CutOff(r) => timer = "expired" \/ (main' = "off" /\ exit' # "returned")]_vars
  BY CutStep
<1> QED
  BY <1>1, Invariant, PTL DEF Spec, CutOnlyByTimeout
=============================================================================
