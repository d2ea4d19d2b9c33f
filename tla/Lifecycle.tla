----------------------------- MODULE Lifecycle -----------------------------
(***************************************************************************)
(* The life of the process: main (cmd/main.go) opens the stores, runs the  *)
(* migrations, syncs the API key and reads its settings; Run and           *)
(* ListenGracefulShutdown (api/api.go) start the server, wait for a signal *)
(* and shut down within two timers.  Handlers and the goroutine of the     *)
(* server run beside main.  util.*Config and zap end the process with      *)
(* os.Exit when something is missing, and nothing is closed then.          *)
(*                                                                         *)
(* A handler is reduced to what a shutdown can take away from it: its use  *)
(* of Redis, the start of a PostgreSQL transaction, its end, the answer.   *)
(***************************************************************************)
EXTENDS Naturals

CONSTANT Request  \* handlers that may run at the same time

\* What main reads from the environment and cannot do without.
Settings == {"DATABASE_URL", "REDIS_ADDR", "AUTH_SERVICE_API_KEY", "JWT_SECRET"}

VARIABLES
  env,        \* the settings the process was started with
  main,       \* where main is
  server,     \* the goroutine in Start
  open,       \* stores whose client is not closed
  signalled,  \* SIGINT or SIGTERM has cancelled the context of Run
  timer,      \* the timeout of shutdownCtx
  grace,      \* the sleep of gracefulTimeout
  req,        \* what each handler does next
  exit        \* how the process last ended

vars == <<env, main, server, open, signalled, timer, grace, req, exit>>

process == <<server, signalled, timer, grace, req>>

TypeOK ==
  /\ env \subseteq Settings
  /\ main \in {"off", "connect", "migrate", "redis", "sync", "config", "run",
               "wait", "shutdown", "closeDB", "closeRedis", "linger"}
  /\ server \in {"none", "starting", "serving", "closed"}
  /\ open \subseteq {"postgres", "redis"}
  /\ signalled \in BOOLEAN
  /\ timer \in {"off", "running", "expired"}
  /\ grace \in {"off", "running", "expired"}
  /\ req \in [Request -> {"idle", "redis", "begin", "commit", "answer", "failed"}]
  /\ exit \in {"none", "returned", "fatal", "killed"}

Init ==
  /\ env = {} /\ main = "off" /\ server = "none" /\ open = {}
  /\ signalled = FALSE /\ timer = "off" /\ grace = "off"
  /\ req = [r \in Request |-> "idle"]
  /\ exit = "none"

\* The process is gone, with its goroutines and its connections.
Exit(how) ==
  /\ main' = "off" /\ exit' = how
  /\ server' = "none" /\ open' = {}
  /\ signalled' = FALSE /\ timer' = "off" /\ grace' = "off"
  /\ req' = [r \in Request |-> "idle"]
  /\ UNCHANGED env

Fatal == Exit("fatal")

\* Started by hand or by compose, with whatever is in .env.
Start ==
  /\ main = "off"
  /\ main' = "connect"
  /\ env' \in SUBSET Settings
  /\ UNCHANGED <<process, open, exit>>

-----------------------------------------------------------------------------
(* main, up to Run *)

\* sql.Open and Ping.
NewDBConnection ==
  /\ main = "connect"
  /\ \/ /\ "DATABASE_URL" \in env
        /\ main' = "migrate"
        /\ open' = {"postgres"}
        /\ UNCHANGED <<env, process, exit>>
     \/ Fatal

RunMigrations ==
  /\ main = "migrate"
  /\ \/ /\ main' = "redis"
        /\ UNCHANGED <<env, open, process, exit>>
     \/ Fatal

\* The client is made without connecting: it does not fail.
NewRedisClient ==
  /\ main = "redis"
  /\ \/ /\ "REDIS_ADDR" \in env
        /\ main' = "sync"
        /\ open' = open \cup {"redis"}
        /\ UNCHANGED <<env, process, exit>>
     \/ "REDIS_ADDR" \notin env /\ Fatal

\* What it writes is the subject of APIKeyService.
SyncAPIKey ==
  /\ main = "sync"
  /\ \/ /\ "AUTH_SERVICE_API_KEY" \in env
        /\ main' = "config"
        /\ UNCHANGED <<env, open, process, exit>>
     \/ Fatal

NewTokenConfig ==
  /\ main = "config"
  /\ \/ /\ "JWT_SECRET" \in env
        /\ main' = "run"
        /\ UNCHANGED <<env, open, process, exit>>
     \/ "JWT_SECRET" \notin env /\ Fatal

-----------------------------------------------------------------------------
(* Run and ListenGracefulShutdown *)

\* NotifyContext, the OpenAPI document, which may not load, the routes, and the
\* goroutine of the server.
Run ==
  /\ main = "run"
  /\ \/ /\ main' = "wait"
        /\ server' = "starting"
        /\ UNCHANGED <<env, open, signalled, timer, grace, req, exit>>
     \/ Fatal

\* The goroutine: Start listens, or returns an error, which is fatal unless it
\* is the one that says that Shutdown was called.
ServerStarts ==
  /\ server = "starting"
  /\ server' = IF main = "wait" THEN "serving" ELSE "closed"
  /\ UNCHANGED <<env, main, open, signalled, timer, grace, req, exit>>

\* Mutant: the error is logged, and the process stays without a server.
ServerFailsSilently ==
  /\ server \in {"starting", "serving"}
  /\ server' = "failed"
  /\ UNCHANGED <<env, main, open, signalled, timer, grace, req, exit>>

ServerFails == server \in {"starting", "serving"} /\ Fatal

\* The wait for the signal is over: shutdownCtx is made, and Shutdown closes the
\* listener before it waits for the handlers.  A goroutine that has not come to
\* listen yet still tries to, and may fail.
BeginShutdown ==
  /\ main = "wait" /\ signalled
  /\ main' = "shutdown"
  /\ server' = IF server = "serving" THEN "closed" ELSE server
  /\ timer' = "running"
  /\ UNCHANGED <<env, open, signalled, grace, req, exit>>

HandlersDone == \A r \in Request : req[r] = "idle"

\* Mutant: Shutdown runs in a goroutine of its own.
ShutdownNotAwaited ==
  /\ main = "shutdown"
  /\ main' = "closeDB"
  /\ UNCHANGED <<env, open, process, exit>>

\* Mutant: Shutdown has a context without timeout.
ShutdownUntilDone ==
  /\ main = "shutdown" /\ HandlersDone
  /\ main' = "closeDB"
  /\ UNCHANGED <<env, open, process, exit>>

\* Shutdown returns: no handler runs any more, or its context has expired.
ShutdownReturns ==
  /\ main = "shutdown"
  /\ HandlersDone \/ timer = "expired"
  /\ main' = "closeDB"
  /\ UNCHANGED <<env, open, process, exit>>

\* sql.DB.Close closes the idle connections and takes no new work; a connection
\* in use is closed when its transaction ends, and Close does not wait for it.
CloseDB ==
  /\ main = "closeDB"
  /\ main' = "closeRedis"
  /\ open' = open \ {"postgres"}
  /\ UNCHANGED <<env, process, exit>>

\* The client of Redis is closed, and the sleep of gracefulTimeout begins.
CloseRedis ==
  /\ main = "closeRedis"
  /\ main' = "linger"
  /\ open' = open \ {"redis"}
  /\ grace' = "running"
  /\ UNCHANGED <<env, server, signalled, timer, req, exit>>

\* The select ends with either timer, and main returns.
Linger ==
  /\ main = "linger"
  /\ timer = "expired" \/ grace = "expired"
  /\ Exit("returned")

ShutdownTimeout ==
  /\ timer = "running"
  /\ timer' = "expired"
  /\ UNCHANGED <<env, main, server, open, signalled, grace, req, exit>>

GraceTimeout ==
  /\ grace = "running"
  /\ grace' = "expired"
  /\ UNCHANGED <<env, main, server, open, signalled, timer, req, exit>>

-----------------------------------------------------------------------------
(* Signals and handlers *)

\* Before NotifyContext a signal ends the process; after the first one it
\* catches, NotifyContext ignores the others until Run returns.
Signal ==
  \/ /\ main \in {"connect", "migrate", "redis", "sync", "config", "run"}
     /\ Exit("killed")
  \/ /\ main \in {"wait", "shutdown", "closeDB", "closeRedis", "linger"}
     /\ ~signalled
     /\ signalled' = TRUE
     /\ UNCHANGED <<env, main, server, open, timer, grace, req, exit>>

\* SIGKILL, a panic, the loss of the machine.
Kill == main # "off" /\ Exit("killed")

Becomes(r, next) ==
  /\ req' = [req EXCEPT ![r] = next]
  /\ UNCHANGED <<env, main, server, open, signalled, timer, grace, exit>>

\* A request is accepted: it uses Redis first (Logout, an API key) or does not
\* (a refresh).  The rate limiter before it lets it pass if Redis is closed.
Arrive(r) ==
  /\ server = "serving" /\ req[r] = "idle"
  /\ Becomes(r, "redis") \/ Becomes(r, "begin")

UseRedis(r) ==
  /\ req[r] = "redis"
  /\ Becomes(r, IF "redis" \in open THEN "begin" ELSE "failed")

\* A connection is taken from the pool.
BeginTx(r) ==
  /\ req[r] = "begin"
  /\ Becomes(r, IF "postgres" \in open THEN "commit" ELSE "failed")

EndTx(r) == req[r] = "commit" /\ Becomes(r, "answer")

Answer(r) == req[r] \in {"answer", "failed"} /\ Becomes(r, "idle")

Handle(r) == UseRedis(r) \/ BeginTx(r) \/ EndTx(r) \/ Answer(r)

-----------------------------------------------------------------------------
\* The statements of main after the signal.
StopStep == BeginShutdown \/ ShutdownReturns \/ CloseDB \/ CloseRedis \/ Linger

Next ==
  \/ Start
  \/ NewDBConnection \/ RunMigrations \/ NewRedisClient \/ SyncAPIKey \/ NewTokenConfig
  \/ Run \/ ServerStarts \/ ServerFails
  \/ StopStep
  \/ ShutdownTimeout \/ GraceTimeout
  \/ Signal \/ Kill
  \/ \E r \in Request : Arrive(r) \/ Handle(r)

Spec == Init /\ [][Next]_vars

\* main goes on when it can, and time passes.  Nothing is asked of the handlers:
\* one may hang for good.
FairSpec ==
  /\ Spec
  /\ WF_vars(StopStep)
  /\ WF_vars(ShutdownTimeout) /\ WF_vars(GraceTimeout)

-----------------------------------------------------------------------------
\* In this step the handler r is cut off: it meets a store that the process has
\* closed, or the process ends under it.
CutOff(r) ==
  /\ req[r] # "idle"
  /\ main' = "off" \/ (req[r] # "failed" /\ req'[r] = "failed")

\* A graceful shutdown takes no request by surprise: a handler is cut off only
\* after the timeout of shutdownCtx, or when the process dies.
CutOnlyByTimeout ==
  [][\A r \in Request :
       CutOff(r) => timer = "expired" \/ (main' = "off" /\ exit' # "returned")]_vars

\* A signal that was caught ends the process, even if a handler never returns.
StopEnds == signalled ~> main = "off"
=============================================================================
