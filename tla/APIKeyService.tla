---------------------------- MODULE APIKeyService ----------------------------
(***************************************************************************)
(* APIKeyService (service/apikey.go): SyncAPIKey, run by every instance of *)
(* the service when it starts (cmd/main.go), IsValidAPIKey, run for every  *)
(* request with an X-API-Key, and the three Redis keys they share.         *)
(*                                                                         *)
(* A Redis command is an action.  The commands of a pipeline are sent      *)
(* together but are no transaction: they run one after the other, other    *)
(* clients' commands in between, and a broken connection may cut them off. *)
(***************************************************************************)
EXTENDS Integers, Sequences

CONSTANTS
  Key,       \* API keys; Redis holds their hashes, which is injective
  Instance,  \* processes of the service
  Request,   \* goroutines validating a key
  Nothing,   \* a Redis key that is not there
  Grace,     \* 24 hours, in ticks
  Second,    \* ticks in a second: what time.RFC3339 truncates to
  Faulty,    \* Redis calls may fail, a process may die at any point
  MaxTime    \* bound on the clock

ASSUME APIKeyAssumption ==
  /\ Nothing \notin Key \cup Nat \cup [key : Key, until : Nat] \cup [built : Nat, done : Nat]
  /\ Grace \in Nat /\ MaxTime \in Nat
  /\ Second \in Nat \ {0}
  /\ Faulty \in BOOLEAN

VARIABLES
  env,       \* AUTH_SERVICE_API_KEY as deployed
  current,   \* apikey:current
  old,       \* apikey:old, with the time Redis keeps it until
  rotation,  \* apikey:rotation_time
  proc,      \* what each instance does
  check,     \* what each validation has read, or its verdict
  now,       \* the clock
  previous,  \* history: the key that current replaced
  retired,   \* history: when a key that was current stopped being so
  whole,     \* history: the last pipeline that was built ran to its end
  since      \* history: instances started since the last Deploy

redis   == <<current, old, rotation>>
history == <<previous, retired, whole, since>>
vars    == <<env, redis, proc, check, now, history>>

\* A SET of a pipeline; at is the clock when the pipeline was built.
Command ==
  [set : {"old", "current"}, key : Key, at : Nat] \cup [set : {"rotation"}, at : Nat]

Process ==
  [pc : {"down", "up"}]
  \cup [pc : {"sync"}, pipe : Seq(Command), failed : BOOLEAN]

Check ==
  [pc : {"idle"}]
  \cup [pc : {"old", "rotation"}, key : Key, on : Instance, start : Nat]
  \cup [pc : {"accepted", "refused", "error"}]

TypeOK ==
  /\ env \in Key
  /\ current \in Key \cup {Nothing}
  /\ old \in [key : Key, until : Nat] \cup {Nothing}
  /\ rotation \in Nat \cup {Nothing}
  /\ proc \in [Instance -> Process]
  /\ check \in [Request -> Check]
  /\ now \in Nat
  /\ previous \in Key \cup {Nothing}
  /\ retired \in [Key -> [built : Nat, done : Nat] \cup {Nothing}]
  /\ whole \in BOOLEAN
  /\ since \subseteq Instance

Down == [pc |-> "down"]
Up   == [pc |-> "up"]
Idle == [pc |-> "idle"]

Init ==
  /\ env \in Key
  /\ current = Nothing /\ old = Nothing /\ rotation = Nothing
  /\ proc = [i \in Instance |-> Down]
  /\ check = [r \in Request |-> Idle]
  /\ now = 0
  /\ previous = Nothing
  /\ retired = [k \in Key |-> Nothing]
  /\ whole = TRUE
  /\ since = {}

\* The operator puts another key into the environment of the next start.
Deploy ==
  /\ env' \in Key \ {env}
  /\ since' = {}
  /\ UNCHANGED <<redis, proc, check, now, previous, retired, whole>>

-----------------------------------------------------------------------------
(* SyncAPIKey, at the start of an instance *)

\* Mutant: a missing current key is not told from another one.
PipelineOldFirst ==
  <<[set |-> "old", key |-> current, at |-> now],
    [set |-> "current", key |-> env, at |-> now],
    [set |-> "rotation", at |-> now]>>

\* What is written when current is not the key of the environment: setInitial-
\* APIKey writes no old key.
Pipeline ==
  LET install == [set |-> "current", key |-> env, at |-> now]
      rotate  == [set |-> "rotation", at |-> now]
  IN  IF current = Nothing THEN <<install, rotate>>
      ELSE <<[set |-> "old", key |-> current, at |-> now], install, rotate>>

\* Mutant: apikey:old is kept for good.
SetOldForever(cmd) ==
  old' = [key |-> cmd.key, until |-> MaxTime]

SetOld(cmd) ==
  old' = [key |-> cmd.key, until |-> now + Grace]

\* The SET of apikey:current; the history notes which key it replaces.
SetCurrent(cmd) ==
  /\ current' = cmd.key
  /\ IF current \in {cmd.key, Nothing}
     THEN UNCHANGED <<previous, retired>>
     ELSE /\ previous' = current
          /\ retired' = [retired EXCEPT ![cmd.key] = Nothing,
                                        ![current] = [built |-> cmd.at, done |-> now]]
  /\ UNCHANGED <<whole, since>>

\* time.RFC3339 has no fraction of a second.
SetRotation(cmd) ==
  rotation' = cmd.at - (cmd.at % Second)

\* An instance starts: GET of the current key, and a comparison.  An error
\* ends the process.
Start(i) ==
  /\ proc[i] = Down
  /\ \/ /\ current = env
        /\ proc' = [proc EXCEPT ![i] = Up]
        /\ UNCHANGED whole
     \/ /\ current # env
        /\ proc' = [proc EXCEPT ![i] =
                      [pc |-> "sync", pipe |-> Pipeline, failed |-> FALSE]]
        /\ whole' = FALSE
  /\ since' = since \cup {i}
  /\ UNCHANGED <<env, redis, check, now, previous, retired>>

\* Redis runs the next command of the pipeline, or answers it with an error and
\* goes on with the one after it.
RunCommand(i) ==
  /\ proc[i].pc = "sync" /\ proc[i].pipe # <<>>
  /\ LET cmd == Head(proc[i].pipe)
         Done(failed) == proc' = [proc EXCEPT ![i] =
                                    [pc |-> "sync", pipe |-> Tail(@.pipe),
                                     failed |-> @.failed \/ failed]]
     IN
     \/ /\ \/ cmd.set = "old" /\ SetOld(cmd) /\ UNCHANGED <<current, rotation, history>>
           \/ cmd.set = "current" /\ SetCurrent(cmd) /\ UNCHANGED <<old, rotation>>
           \/ cmd.set = "rotation" /\ SetRotation(cmd) /\ UNCHANGED <<current, old, history>>
        /\ Done(FALSE)
     \/ Faulty /\ Done(TRUE) /\ UNCHANGED <<redis, history>>
  /\ UNCHANGED <<env, check, now>>

\* Mutant: the errors of the commands are ignored.
EndSyncAnyway(i) ==
  /\ proc[i].pc = "sync" /\ proc[i].pipe = <<>>
  /\ proc' = [proc EXCEPT ![i] = Up]
  /\ whole' = ~proc[i].failed
  /\ UNCHANGED <<env, redis, check, now, previous, retired, since>>

\* Exec returns: the instance serves requests, or main ends it.
EndSync(i) ==
  /\ proc[i].pc = "sync" /\ proc[i].pipe = <<>>
  /\ proc' = [proc EXCEPT ![i] = IF proc[i].failed THEN Down ELSE Up]
  /\ whole' = ~proc[i].failed
  /\ since' = IF proc[i].failed THEN since \ {i} ELSE since
  /\ UNCHANGED <<env, redis, check, now, previous, retired>>

\* An instance is stopped, or dies in the middle of what it does.  What is left
\* of its pipeline is not run, and its requests are gone.
Stop(i) ==
  /\ proc[i] = Up \/ (Faulty /\ proc[i].pc = "sync")
  /\ proc' = [proc EXCEPT ![i] = Down]
  /\ check' = [r \in Request |->
                 IF check[r].pc \in {"old", "rotation"} /\ check[r].on = i
                 THEN Idle ELSE check[r]]
  /\ since' = since \ {i}
  /\ UNCHANGED <<env, redis, now, previous, retired, whole>>

-----------------------------------------------------------------------------
(* IsValidAPIKey: up to three GETs *)

Become(r, local) ==
  /\ check' = [check EXCEPT ![r] = local]
  /\ UNCHANGED <<env, redis, proc, now, history>>

\* The answers: 200, 401, and 403 for an error.
Decide(r, verdict) == Become(r, [pc |-> verdict])

GetCurrent(r) ==
  /\ check[r].pc \notin {"old", "rotation"}
  /\ \E i \in Instance, key \in Key :
       /\ proc[i] = Up
       /\ \/ key = current /\ Decide(r, "accepted")
          \/ /\ key # current
             /\ Become(r, [pc |-> "old", key |-> key, on |-> i, start |-> now])
          \/ Faulty /\ Decide(r, "error")

IsOld(key) == old # Nothing /\ old.key = key

GetOld(r) ==
  /\ check[r].pc = "old"
  /\ \/ /\ IsOld(check[r].key)
        /\ Become(r, [check[r] EXCEPT !.pc = "rotation"])
     \/ /\ ~IsOld(check[r].key)
        /\ Decide(r, "refused")
     \/ Faulty /\ Decide(r, "error")

\* Mutant: less than 24 hours instead of at most 24 hours.
InGraceStrictly == now - rotation < Grace

InGrace == now - rotation <= Grace

\* A rotation time that is not there is an error as well.
GetRotation(r) ==
  /\ check[r].pc = "rotation"
  /\ \/ rotation # Nothing /\ InGrace /\ Decide(r, "accepted")
     \/ rotation # Nothing /\ ~InGrace /\ Decide(r, "refused")
     \/ (rotation = Nothing \/ Faulty) /\ Decide(r, "error")

-----------------------------------------------------------------------------
\* Redis drops apikey:old when the clock is past its expiry.
Tick ==
  /\ now < MaxTime
  /\ now' = now + 1
  /\ old' = IF old # Nothing /\ old.until < now + 1 THEN Nothing ELSE old
  /\ UNCHANGED <<env, current, rotation, proc, check, history>>

Next ==
  \/ Deploy
  \/ \E i \in Instance : Start(i) \/ RunCommand(i) \/ EndSync(i) \/ Stop(i)
  \/ \E r \in Request : GetCurrent(r) \/ GetOld(r) \/ GetRotation(r)
  \/ Tick

Spec == Init /\ [][Next]_vars

-----------------------------------------------------------------------------
\* The validation r of a key that was not current gets this verdict.
Gets(r, verdict) == check[r].pc \in {"old", "rotation"} /\ check'[r].pc = verdict

\* A key that is no longer current is accepted for at most 24 hours after it
\* was replaced (the validation may take a while), whatever part of whatever
\* rotation was lost: the expiry of apikey:old and the rotation time back each
\* other up.
RetiredKeyExpires ==
  [][\A r \in Request : Gets(r, "accepted") =>
       \/ check[r].key = current
       \/ /\ retired[check[r].key] # Nothing
          /\ check[r].start <= retired[check[r].key].done + Grace]_vars

\* For 24 hours both the old and the new key are accepted, up to the second the
\* rotation time is truncated to, if the last SyncAPIKey that rotated ran to its
\* end: the key that current replaced is not refused.
GraceHeld ==
  [][\A r \in Request : Gets(r, "refused") /\ check[r].key = previous /\ whole =>
       now > retired[previous].built - (Second - 1) + Grace]_vars

\* An instance that was started with the deployed key and serves requests has made
\* it the current one, whatever commands of its pipeline failed and whatever an
\* interrupted pipeline had left behind: it never runs on another key's grace.
ServesItsKey == \A i \in since : proc[i] = Up => current = env
=============================================================================
