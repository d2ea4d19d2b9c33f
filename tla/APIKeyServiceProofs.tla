------------------------- MODULE APIKeyServiceProofs -------------------------
(***************************************************************************)
(* APIKeyService for any number of keys and validations and any grace      *)
(* period: its types with any number of instances, and what holds with one *)
(* instance, as docker-compose.yml has it.  An instance serves with its    *)
(* own key, and a key that was replaced has its grace period, and no more  *)
(* than that.                                                              *)
(***************************************************************************)
EXTENDS APIKeyService, TLAPS

USE DEF Down, Up, Idle

-----------------------------------------------------------------------------
(* Types, for any number of instances *)

LEMMA TypeInit == Init => TypeOK
  BY DEF Init, TypeOK, Process, Check

\* What is left of a pipeline is one, and its first command has the fields that its
\* SET needs.
LEMMA TypeRunCommand ==
  ASSUME TypeOK, NEW i \in Instance, RunCommand(i)
  PROVE  TypeOK'
<1> DEFINE cmd == Head(proc[i].pipe)
           Done(failed) == proc' = [proc EXCEPT ![i] =
                                      [pc |-> "sync", pipe |-> Tail(@.pipe),
                                       failed |-> @.failed \/ failed]]
<1>1. /\ proc[i] \in [pc : {"sync"}, pipe : Seq(Command), failed : BOOLEAN]
      /\ proc[i].pipe # <<>> /\ proc \in [Instance -> Process]
      /\ now \in Nat /\ Grace \in Nat /\ Second \in Nat \ {0}
  BY APIKeyAssumption DEF RunCommand, TypeOK, Process
<1>2. cmd \in Command /\ Tail(proc[i].pipe) \in Seq(Command)
  BY <1>1
<1>3. /\ cmd.set \in {"old", "current"} => cmd.key \in Key
      /\ cmd.at \in Nat
  BY <1>2 DEF Command
<1>4. ASSUME NEW failed \in BOOLEAN, Done(failed)
      PROVE  proc' \in [Instance -> Process]
  <2>1. (proc[i].failed \/ failed) \in BOOLEAN
    OBVIOUS
  <2> QED
    BY <1>1, <1>2, <1>4, <2>1 DEF Process
<1>5. proc' \in [Instance -> Process]
  BY <1>4 DEF RunCommand
<1>6. /\ env' = env /\ now' = now /\ check' = check
      /\ whole' = whole /\ since' = since
  BY DEF RunCommand, redis, history, SetCurrent
<1>7. CASE cmd.set = "old" /\ SetOld(cmd) /\ UNCHANGED <<current, rotation, history>>
  BY <1>1, <1>3, <1>5, <1>6, <1>7 DEF TypeOK, SetOld, history
<1>8. CASE cmd.set = "current" /\ SetCurrent(cmd) /\ UNCHANGED <<old, rotation>>
  <2>1. /\ previous' \in Key \cup {Nothing}
        /\ retired' \in [Key -> [built : Nat, done : Nat] \cup {Nothing}]
    BY <1>1, <1>3, <1>8 DEF TypeOK, SetCurrent
  <2> QED
    BY <1>3, <1>5, <1>6, <1>8, <2>1 DEF TypeOK, SetCurrent
<1>9. CASE cmd.set = "rotation" /\ SetRotation(cmd) /\ UNCHANGED <<current, old, history>>
  <2>1. cmd.at - (cmd.at % Second) \in Nat
    BY <1>1, <1>3
  <2> QED
    BY <1>5, <1>6, <1>9, <2>1 DEF TypeOK, SetRotation, history
<1>10. CASE UNCHANGED <<redis, history>>
  BY <1>5, <1>6, <1>10 DEF TypeOK, redis, history
<1> QED
  BY <1>7, <1>8, <1>9, <1>10 DEF RunCommand

LEMMA TypeSync ==
  ASSUME TypeOK, NEW i \in Instance, Start(i) \/ EndSync(i) \/ Stop(i)
  PROVE  TypeOK'
<1>1. CASE Start(i)
  <2>1. Pipeline \in Seq(Command)
    <3>1. /\ [set |-> "current", key |-> env, at |-> now] \in Command
          /\ [set |-> "rotation", at |-> now] \in Command
          /\ current # Nothing => [set |-> "old", key |-> current, at |-> now] \in Command
      BY DEF TypeOK, Command
    <3> QED
      BY <3>1 DEF Pipeline
  <2> DEFINE pipeline == Pipeline
  <2>2. [pc |-> "sync", pipe |-> pipeline, failed |-> FALSE] \in Process /\ Up \in Process
    BY <2>1 DEF Process
  <2>3. \/ proc' = [proc EXCEPT ![i] = Up]
        \/ proc' = [proc EXCEPT ![i] = [pc |-> "sync", pipe |-> pipeline, failed |-> FALSE]]
    BY <1>1 DEF Start
  <2> HIDE DEF pipeline
  <2>4. proc' \in [Instance -> Process]
    BY <2>2, <2>3 DEF TypeOK
  <2> QED
    BY <1>1, <2>4 DEF Start, TypeOK, redis
<1>2. CASE EndSync(i)
  BY <1>2 DEF EndSync, TypeOK, Process, redis
<1>3. CASE Stop(i)
  BY <1>3 DEF Stop, TypeOK, Process, Check, redis
<1> QED
  BY <1>1, <1>2, <1>3

LEMMA TypeBecome ==
  ASSUME TypeOK, NEW r \in Request, NEW v \in Check, Become(r, v)
  PROVE  TypeOK'
  BY DEF Become, TypeOK, redis, history

LEMMA TypeCheck ==
  ASSUME TypeOK, NEW r \in Request, GetCurrent(r) \/ GetOld(r) \/ GetRotation(r)
  PROVE  TypeOK'
<1>1. ASSUME NEW verdict \in {"accepted", "refused", "error"}, Decide(r, verdict)
      PROVE  TypeOK'
  <2>1. [pc |-> verdict] \in Check
    BY DEF Check
  <2> QED
    BY <1>1, <2>1, TypeBecome DEF Decide
<1>2. ASSUME NEW i \in Instance, NEW key \in Key,
             Become(r, [pc |-> "old", key |-> key, on |-> i, start |-> now])
      PROVE  TypeOK'
  <2>1. [pc |-> "old", key |-> key, on |-> i, start |-> now] \in Check
    BY DEF Check, TypeOK
  <2> QED
    BY <1>2, <2>1, TypeBecome
<1>3. ASSUME check[r].pc = "old", Become(r, [check[r] EXCEPT !.pc = "rotation"])
      PROVE  TypeOK'
  <2>1. [check[r] EXCEPT !.pc = "rotation"] \in Check
    BY <1>3 DEF Check, TypeOK
  <2> QED
    BY <1>3, <2>1, TypeBecome
<1> QED
  BY <1>1, <1>2, <1>3 DEF GetCurrent, GetOld, GetRotation

LEMMA TypeNext ==
  ASSUME TypeOK, [Next]_vars
  PROVE  TypeOK'
<1>1. CASE Deploy
  BY <1>1 DEF Deploy, TypeOK, redis
<1>2. CASE Tick
  BY <1>2 DEF Tick, TypeOK, history
<1>3. CASE UNCHANGED vars
  BY <1>3 DEF vars, TypeOK, redis, history
<1> QED
  BY <1>1, <1>2, <1>3, TypeRunCommand, TypeSync, TypeCheck DEF Next

\* Every reachable state is well-formed, whatever is cut off or fails, and however many
\* instances write the three keys.
THEOREM TypeCorrect == Spec => []TypeOK
  BY TypeInit, TypeNext, PTL DEF Spec

-----------------------------------------------------------------------------
(* The invariant of one instance *)

\* The commands of a pipeline that was built at time t.
Old(key, t)     == [set |-> "old", key |-> key, at |-> t]
Current(key, t) == [set |-> "current", key |-> key, at |-> t]
Rotation(t)     == [set |-> "rotation", at |-> t]

\* How far SyncAPIKey has come: its pipeline installs key, or has done so.
ToGo(i, key, t) ==
  \/ proc[i].pipe = <<Old(current, t), Current(key, t), Rotation(t)>> /\ current \in Key
  \/ proc[i].pipe = <<Current(key, t), Rotation(t)>>
  \/ /\ proc[i].pipe = <<Rotation(t)>> \/ proc[i].pipe = <<>>
     /\ current = key \/ proc[i].failed

\* An instance that was started with the deployed key installs it, and serves
\* when it has done so.
SyncInstalls ==
  \A i \in Instance :
    /\ proc[i].pc = "sync" =>
         \E key \in Key, t \in Nat : ToGo(i, key, t) /\ (i \in since => key = env)
    /\ i \in since /\ proc[i] = Up => current = env

\* The key in apikey:old is the current one, or Redis drops it 24 hours after it was
\* replaced at the latest.
OldDies ==
  /\ \A k \in Key : retired[k] # Nothing => retired[k].done <= now
  /\ old # Nothing =>
       /\ now <= old.until /\ old.until <= now + Grace
       /\ \/ old.key = current
          \/ /\ retired[old.key] # Nothing
             /\ old.until <= retired[old.key].done + Grace

\* What is true of a validation v, on the instance it runs on: while it works that
\* instance serves, and once it has found its key in apikey:old, that key is the
\* current one or has been looked for in time.
InTime(v) ==
  \/ v.key = current
  \/ retired[v.key] # Nothing /\ v.start <= retired[v.key].done + Grace

Served(v) ==
  /\ v.pc \in {"old", "rotation"} => proc[v.on] = Up /\ v.start <= now
  /\ v.pc = "rotation" => InTime(v)

ChecksServed == \A r \in Request : Served(check[r])

IInv == TypeOK /\ SyncInstalls /\ OldDies /\ ChecksServed

LEMMA InvInit == Init => IInv
<1> SUFFICES ASSUME Init  PROVE IInv
  OBVIOUS
<1> QED
  BY TypeInit DEF Init, IInv, SyncInstalls, OldDies, ChecksServed, Served

-----------------------------------------------------------------------------
(* IsValidAPIKey *)

LEMMA CheckFields ==
  ASSUME TypeOK, NEW r \in Request, check[r].pc \in {"old", "rotation"}
  PROVE  /\ check[r] \in [pc : {"old", "rotation"}, key : Key, on : Instance, start : Nat]
         /\ check[r].key \in Key /\ check[r].on \in Instance /\ check[r].start \in Nat
  BY DEF TypeOK, Check

\* A validation goes on, and changes nothing but itself.
LEMMA InvBecome ==
  ASSUME IInv, NEW r \in Request, NEW v \in Check, Become(r, v), Served(v)
  PROVE  IInv'
<1>1. /\ current' = current /\ old' = old /\ rotation' = rotation
      /\ previous' = previous /\ retired' = retired /\ whole' = whole /\ since' = since
      /\ env' = env /\ proc' = proc /\ now' = now
      /\ check' = [check EXCEPT ![r] = v]
  BY DEF Become, redis, history
<1>2. TypeOK'
  BY TypeBecome DEF IInv
<1>3. SyncInstalls' /\ OldDies'
  BY <1>1 DEF IInv, SyncInstalls, OldDies, ToGo
<1>4. ChecksServed'
  BY <1>1 DEF IInv, TypeOK, ChecksServed, Served, InTime
<1> QED
  BY <1>2, <1>3, <1>4 DEF IInv

LEMMA InvDecide ==
  ASSUME IInv, NEW r \in Request, NEW verdict \in {"accepted", "refused", "error"},
         Decide(r, verdict)
  PROVE  IInv'
<1> DEFINE v == [pc |-> verdict]
<1>1. v \in Check /\ Become(r, v) /\ Served(v)
  BY DEF Check, Decide, Served
<1> QED
  BY <1>1, InvBecome

\* The second GET is in time: Redis drops apikey:old 24 hours after its SET.
LEMMA FoundInTime ==
  ASSUME IInv, NEW r \in Request, check[r].pc = "old", IsOld(check[r].key)
  PROVE  InTime(check[r])
<1>1. /\ check[r].start <= now /\ check[r].start \in Nat /\ check[r].key \in Key
  BY CheckFields DEF IInv, ChecksServed, Served
<1>2. /\ old # Nothing /\ old.key = check[r].key
      /\ now <= old.until
      /\ \/ old.key = current
         \/ /\ retired[old.key] # Nothing
            /\ old.until <= retired[old.key].done + Grace
  BY DEF IsOld, IInv, OldDies
<1>3. /\ now \in Nat /\ old.until \in Nat /\ Grace \in Nat
      /\ retired[check[r].key] # Nothing => retired[check[r].key].done \in Nat
  BY <1>1, <1>2, APIKeyAssumption DEF IInv, TypeOK
<1> QED
  BY <1>1, <1>2, <1>3 DEF InTime

LEMMA InvCheck ==
  ASSUME IInv, NEW r \in Request, GetCurrent(r) \/ GetOld(r) \/ GetRotation(r)
  PROVE  IInv'
<1>1. CASE GetCurrent(r)
  <2>1. ASSUME NEW i \in Instance, NEW key \in Key, proc[i] = Up,
               Become(r, [pc |-> "old", key |-> key, on |-> i, start |-> now])
        PROVE  IInv'
    <3> DEFINE v == [pc |-> "old", key |-> key, on |-> i, start |-> now]
    <3>1. v \in Check /\ Served(v) /\ Become(r, v)
      BY <2>1 DEF Check, Served, IInv, TypeOK
    <3> QED
      BY <3>1, InvBecome
  <2> QED
    BY <1>1, <2>1, InvDecide DEF GetCurrent
<1>2. CASE GetOld(r)
  <2>1. ASSUME check[r].pc = "old", IsOld(check[r].key),
               Become(r, [check[r] EXCEPT !.pc = "rotation"])
        PROVE  IInv'
    <3> DEFINE v == [check[r] EXCEPT !.pc = "rotation"]
    <3>1. /\ v \in Check /\ v.pc = "rotation" /\ v.key = check[r].key
          /\ v.on = check[r].on /\ v.start = check[r].start
      BY <2>1, CheckFields DEF Check, IInv
    <3>2. Become(r, v)
      BY <2>1
    <3> HIDE DEF v
    <3>3. Served(v)
      BY <2>1, <3>1, FoundInTime DEF Served, InTime, IInv, ChecksServed
    <3> QED
      BY <3>1, <3>2, <3>3, InvBecome
  <2> QED
    BY <1>2, <2>1, InvDecide DEF GetOld
<1>3. CASE GetRotation(r)
  BY <1>3, InvDecide DEF GetRotation
<1> QED
  BY <1>1, <1>2, <1>3

-----------------------------------------------------------------------------
(* SyncAPIKey.  There is one instance: nobody validates while it starts, and *)
(* nobody else installs a key.                                               *)

Single == \A i, j \in Instance : i = j

LEMMA NoneServed ==
  ASSUME IInv, Single, NEW i \in Instance, proc[i] # Up, NEW r \in Request
  PROVE  check[r].pc \notin {"old", "rotation"}
  BY CheckFields DEF IInv, ChecksServed, Served, Single

LEMMA InvStart ==
  ASSUME IInv, Single, NEW i \in Instance, Start(i)
  PROVE  IInv'
<1>0. /\ proc[i] # Up /\ check' = check /\ current' = current /\ old' = old
      /\ rotation' = rotation /\ env' = env /\ now' = now
      /\ previous' = previous /\ retired' = retired /\ since' = since \cup {i}
      /\ env \in Key /\ now \in Nat /\ current \in Key \cup {Nothing}
      /\ proc \in [Instance -> Process]
  BY DEF Start, redis, IInv, TypeOK
<1>1. OldDies' /\ ChecksServed'
  BY <1>0, NoneServed DEF IInv, OldDies, ChecksServed, Served
<1>2. CASE current = env /\ proc' = [proc EXCEPT ![i] = Up] /\ UNCHANGED whole
  <2>1. SyncInstalls'
    BY <1>0, <1>2 DEF Single, SyncInstalls
  <2> QED
    BY <1>1, <2>1, TypeSync DEF IInv
<1>3. ASSUME current # env, whole' = FALSE,
             proc' = [proc EXCEPT ![i] =
                        [pc |-> "sync", pipe |-> Pipeline, failed |-> FALSE]]
      PROVE  IInv'
  <2>0. /\ Current(env, now) \in Command /\ Rotation(now) \in Command
        /\ current # Nothing => Old(current, now) \in Command
    BY <1>0 DEF Command, Old, Current, Rotation
  <2>1. /\ Pipeline \in Seq(Command)
        /\ \/ Pipeline = <<Old(current, now), Current(env, now), Rotation(now)>> /\ current \in Key
           \/ Pipeline = <<Current(env, now), Rotation(now)>>
    <3>1. Pipeline = IF current = Nothing THEN <<Current(env, now), Rotation(now)>>
                     ELSE <<Old(current, now), Current(env, now), Rotation(now)>>
      BY DEF Pipeline, Old, Current, Rotation
    <3> QED
      BY <1>0, <2>0, <3>1
  <2> DEFINE pipeline == Pipeline
  <2>2. proc'[i] = [pc |-> "sync", pipe |-> pipeline, failed |-> FALSE]
    BY <1>0, <1>3
  <2>3. ToGo(i, env, now)'
    BY <1>0, <2>1, <2>2 DEF ToGo, Old, Current, Rotation
  <2>4. SyncInstalls'
    BY <1>0, <2>2, <2>3 DEF Single, SyncInstalls
  <2> QED
    BY <1>1, <2>4, TypeSync DEF IInv
<1> QED
  BY <1>2, <1>3 DEF Start

\* What has been run is one command: the SET of the key that is current as the old
\* one, that of the new key, or that of the time.
LEMMA InvRunCommand ==
  ASSUME IInv, Single, NEW i \in Instance, RunCommand(i)
  PROVE  IInv'
<1>0. PICK key \in Key, t \in Nat :
        /\ ToGo(i, key, t) /\ (i \in since => key = env)
        /\ proc[i].pc = "sync" /\ proc[i].pipe # <<>>
  BY DEF RunCommand, IInv, SyncInstalls
<1>1. /\ proc[i] \in [pc : {"sync"}, pipe : Seq(Command), failed : BOOLEAN]
      /\ proc \in [Instance -> Process]
  BY <1>0 DEF IInv, TypeOK, Process
<1>2. /\ env' = env /\ now' = now /\ check' = check /\ since' = since
      /\ whole' = whole /\ now \in Nat
      /\ proc[i] # Up
  BY <1>0 DEF RunCommand, redis, history, SetCurrent, IInv, TypeOK
<1>3. ChecksServed'
  BY <1>2, NoneServed DEF ChecksServed, Served
<1> DEFINE cmd == Head(proc[i].pipe)
           Done(failed) == proc' = [proc EXCEPT ![i] =
                                      [pc |-> "sync", pipe |-> Tail(@.pipe),
                                       failed |-> @.failed \/ failed]]
<1>4. ASSUME NEW failed \in BOOLEAN, Done(failed)
      PROVE  /\ proc'[i].pc = "sync"
             /\ proc'[i].pipe = Tail(proc[i].pipe)
             /\ proc'[i].failed = (proc[i].failed \/ failed)
  BY <1>1, <1>4
<1>5. ASSUME NEW failed \in BOOLEAN, Done(failed), OldDies', ToGo(i, key, t)'
      PROVE  IInv'
  <2>1. SyncInstalls'
    BY <1>0, <1>2, <1>4, <1>5 DEF Single, SyncInstalls
  <2> QED
    BY <1>3, <1>5, <2>1, TypeRunCommand DEF IInv
<1>6. \/ cmd = Old(current, t) /\ current \in Key
         /\ Tail(proc[i].pipe) = <<Current(key, t), Rotation(t)>>
      \/ cmd = Current(key, t) /\ Tail(proc[i].pipe) = <<Rotation(t)>>
      \/ /\ cmd = Rotation(t) /\ Tail(proc[i].pipe) = <<>>
         /\ current = key \/ proc[i].failed
  <2>1. CASE proc[i].pipe = <<Old(current, t), Current(key, t), Rotation(t)>> /\ current \in Key
    <3>1. cmd = Old(current, t)
      BY <2>1
    <3>2. Tail(proc[i].pipe) = <<Current(key, t), Rotation(t)>>
      BY <2>1
    <3> QED
      BY <2>1, <3>1, <3>2
  <2>2. CASE proc[i].pipe = <<Current(key, t), Rotation(t)>>
    <3>1. cmd = Current(key, t)
      BY <2>2
    <3>2. Tail(proc[i].pipe) = <<Rotation(t)>>
      BY <2>2
    <3> QED
      BY <3>1, <3>2
  <2>3. CASE proc[i].pipe = <<Rotation(t)>> /\ (current = key \/ proc[i].failed)
    BY <2>3
  <2> QED
    BY <1>0, <2>1, <2>2, <2>3 DEF ToGo
<1>7. CASE Done(TRUE) /\ UNCHANGED <<redis, history>>
  <2>1. /\ current' = current /\ old' = old /\ rotation' = rotation
        /\ previous' = previous /\ retired' = retired
    BY <1>7 DEF redis, history
  <2>2. OldDies'
    BY <1>2, <2>1 DEF IInv, OldDies
  <2>3. proc'[i].pipe = Tail(proc[i].pipe) /\ proc'[i].failed
    BY <1>4, <1>7
  <2>4. ToGo(i, key, t)'
    BY <1>6, <2>1, <2>3 DEF ToGo, Old, Current, Rotation
  <2> QED
    BY <1>5, <1>7, <2>2, <2>4
<1>8. CASE /\ Done(FALSE) /\ cmd = Old(current, t) /\ current \in Key
           /\ Tail(proc[i].pipe) = <<Current(key, t), Rotation(t)>>
           /\ SetOld(cmd) /\ UNCHANGED <<current, rotation, history>>
  <2>1. /\ current' = current /\ rotation' = rotation
        /\ previous' = previous /\ retired' = retired
        /\ old' = [key |-> current, until |-> now + Grace]
    BY <1>8 DEF history, SetOld, Old
  <2>2. OldDies'
    BY <1>2, <1>8, <2>1, APIKeyAssumption DEF IInv, TypeOK, OldDies
  <2>3. ToGo(i, key, t)'
    BY <1>4, <1>8, <2>1 DEF ToGo, Old, Current, Rotation
  <2> QED
    BY <1>5, <1>8, <2>2, <2>3
<1>9. CASE /\ Done(FALSE) /\ cmd = Current(key, t)
           /\ Tail(proc[i].pipe) = <<Rotation(t)>>
           /\ SetCurrent(cmd) /\ UNCHANGED <<old, rotation>>
  <2>1. /\ current' = key /\ old' = old /\ rotation' = rotation
        /\ IF current \in {key, Nothing}
           THEN UNCHANGED <<previous, retired>>
           ELSE /\ previous' = current
                /\ retired' = [retired EXCEPT ![key] = Nothing,
                                              ![current] = [built |-> t, done |-> now]]
    BY <1>9 DEF SetCurrent, Current
  <2>2. OldDies'
    <3>1. CASE current \in {key, Nothing}
      BY <1>2, <2>1, <3>1, APIKeyAssumption DEF IInv, TypeOK, OldDies
    <3>2. CASE current \notin {key, Nothing}
      <4>1. /\ retired \in [Key -> [built : Nat, done : Nat] \cup {Nothing}]
            /\ current \in Key /\ current # key
            /\ retired' = [retired EXCEPT ![key] = Nothing,
                                          ![current] = [built |-> t, done |-> now]]
        BY <2>1, <3>2 DEF IInv, TypeOK
      <4>2. /\ retired'[key] = Nothing
            /\ retired'[current] = [built |-> t, done |-> now]
            /\ \A k \in Key \ {key, current} : retired'[k] = retired[k]
        BY <4>1
      <4>3. \A k \in Key : retired'[k] # Nothing => retired'[k].done <= now
        BY <1>2, <4>1, <4>2 DEF IInv, OldDies
      <4>4. ASSUME old # Nothing
            PROVE  /\ now <= old.until /\ old.until <= now + Grace
                   /\ \/ old.key = key
                      \/ /\ retired'[old.key] # Nothing
                         /\ old.until <= retired'[old.key].done + Grace
        <5>1. old.key \in Key
          BY <4>4 DEF IInv, TypeOK
        <5>2. /\ now <= old.until /\ old.until <= now + Grace
              /\ \/ old.key = current
                 \/ /\ retired[old.key] # Nothing
                    /\ old.until <= retired[old.key].done + Grace
          BY <4>4 DEF IInv, OldDies
        <5>3. /\ now \in Nat /\ [built |-> t, done |-> now] # Nothing
              /\ [built |-> t, done |-> now].done = now
          BY <1>2, APIKeyAssumption
        <5> QED
          BY <4>1, <4>2, <5>1, <5>2, <5>3, APIKeyAssumption
      <4> QED
        BY <1>2, <2>1, <4>3, <4>4 DEF OldDies
    <3> QED
      BY <3>1, <3>2
  <2>3. ToGo(i, key, t)'
    BY <1>4, <1>9, <2>1 DEF ToGo, Old, Current, Rotation
  <2> QED
    BY <1>5, <1>9, <2>2, <2>3
<1>10. CASE /\ Done(FALSE) /\ cmd = Rotation(t) /\ Tail(proc[i].pipe) = <<>>
            /\ current = key \/ proc[i].failed
            /\ SetRotation(cmd) /\ UNCHANGED <<current, old, history>>
  <2>1. /\ current' = current /\ old' = old
        /\ previous' = previous /\ retired' = retired
        /\ rotation' = t - (t % Second)
    BY <1>10 DEF history, SetRotation, Rotation
  <2>2. OldDies'
    BY <1>2, <2>1 DEF IInv, OldDies
  <2>3. proc'[i].pipe = <<>> /\ (proc[i].failed => proc'[i].failed)
    BY <1>4, <1>10
  <2>4. ToGo(i, key, t)'
    BY <1>10, <2>1, <2>3 DEF ToGo
  <2> QED
    BY <1>5, <1>10, <2>2, <2>4
<1>11. /\ Old(current, t).set = "old" /\ Current(key, t).set = "current"
       /\ Rotation(t).set = "rotation"
  BY DEF Old, Current, Rotation
<1>12. \/ Done(TRUE) /\ UNCHANGED <<redis, history>>
       \/ /\ Done(FALSE)
          /\ \/ cmd.set = "old" /\ SetOld(cmd) /\ UNCHANGED <<current, rotation, history>>
             \/ cmd.set = "current" /\ SetCurrent(cmd) /\ UNCHANGED <<old, rotation>>
             \/ cmd.set = "rotation" /\ SetRotation(cmd) /\ UNCHANGED <<current, old, history>>
  BY DEF RunCommand
<1> QED
  BY <1>6, <1>7, <1>8, <1>9, <1>10, <1>11, <1>12

LEMMA InvEndSync ==
  ASSUME IInv, Single, NEW i \in Instance, EndSync(i)
  PROVE  IInv'
<1>0. /\ proc[i].pc = "sync" /\ proc[i].pipe = <<>> /\ proc[i] # Up
      /\ check' = check /\ current' = current /\ old' = old
      /\ rotation' = rotation /\ env' = env /\ now' = now
      /\ previous' = previous /\ retired' = retired
      /\ since' = IF proc[i].failed THEN since \ {i} ELSE since
      /\ proc' = [proc EXCEPT ![i] = IF proc[i].failed THEN Down ELSE Up]
      /\ whole' = ~proc[i].failed
      /\ proc \in [Instance -> Process]
  BY DEF EndSync, redis, IInv, TypeOK
<1>1. TypeOK' /\ OldDies'
  BY <1>0, TypeSync DEF IInv, OldDies
<1>2. ChecksServed'
  BY <1>0, NoneServed DEF ChecksServed, Served
<1>3. proc[i].failed \/ \E key \in Key : current = key /\ (i \in since => key = env)
  BY <1>0 DEF IInv, SyncInstalls, ToGo
<1>4. SyncInstalls'
  BY <1>0, <1>3 DEF Single, SyncInstalls
<1> QED
  BY <1>1, <1>2, <1>4 DEF IInv

LEMMA InvStop ==
  ASSUME IInv, Single, NEW i \in Instance, Stop(i)
  PROVE  IInv'
<1>0. /\ current' = current /\ old' = old /\ rotation' = rotation
      /\ env' = env /\ now' = now /\ whole' = whole
      /\ previous' = previous /\ retired' = retired /\ since' = since \ {i}
      /\ proc' = [proc EXCEPT ![i] = Down]
      /\ check' = [r \in Request |->
                     IF check[r].pc \in {"old", "rotation"} /\ check[r].on = i
                     THEN Idle ELSE check[r]]
  BY DEF Stop, redis
<1>1. TypeOK' /\ OldDies'
  BY <1>0, TypeSync DEF IInv, OldDies
<1>2. SyncInstalls'
  BY <1>0 DEF Single, SyncInstalls, IInv, TypeOK
<1>3. ASSUME NEW r \in Request
      PROVE  check'[r].pc \notin {"old", "rotation"}
  BY <1>0, CheckFields DEF Single, IInv
<1>4. ChecksServed'
  BY <1>3 DEF ChecksServed, Served
<1> QED
  BY <1>1, <1>2, <1>4 DEF IInv

-----------------------------------------------------------------------------
LEMMA InvDeploy ==
  ASSUME IInv, Deploy
  PROVE  IInv'
<1>0. /\ current' = current /\ old' = old /\ rotation' = rotation
      /\ env' \in Key /\ now' = now /\ whole' = whole /\ proc' = proc /\ check' = check
      /\ previous' = previous /\ retired' = retired /\ since' = {}
  BY DEF Deploy, redis
<1>1. TypeOK' /\ OldDies' /\ ChecksServed'
  BY <1>0, TypeNext DEF Next, IInv, OldDies, ChecksServed, Served, InTime
<1>2. SyncInstalls'
  BY <1>0 DEF IInv, SyncInstalls, ToGo
<1> QED
  BY <1>1, <1>2 DEF IInv

LEMMA InvTick ==
  ASSUME IInv, Tick
  PROVE  IInv'
<1>0. /\ current' = current /\ rotation' = rotation /\ env' = env /\ now' = now + 1
      /\ whole' = whole /\ proc' = proc /\ check' = check /\ since' = since
      /\ previous' = previous /\ retired' = retired
      /\ old' = IF old # Nothing /\ old.until < now + 1 THEN Nothing ELSE old
      /\ now \in Nat
  BY DEF Tick, history, IInv, TypeOK
<1>1. TypeOK'
  BY TypeNext DEF Next, IInv
<1>2. OldDies'
  BY <1>0, APIKeyAssumption DEF IInv, TypeOK, OldDies
<1>3. SyncInstalls'
  BY <1>0 DEF IInv, SyncInstalls, ToGo
<1>4. ChecksServed'
  BY <1>0, CheckFields DEF IInv, ChecksServed, Served, InTime
<1> QED
  BY <1>1, <1>2, <1>3, <1>4 DEF IInv

LEMMA InvNext ==
  ASSUME IInv, Single, [Next]_vars
  PROVE  IInv'
<1>1. CASE Next
  BY <1>1, InvDeploy, InvStart, InvRunCommand, InvEndSync, InvStop, InvCheck, InvTick DEF Next
<1>2. CASE UNCHANGED vars
  BY <1>2 DEF vars, redis, history, IInv, TypeOK, SyncInstalls, ToGo, OldDies, ChecksServed,
    Served, InTime
<1> QED
  BY <1>1, <1>2

LEMMA Invariant ==
  ASSUME Single
  PROVE  Spec => []IInv
<1>1. Single /\ IInv /\ [Next]_vars => IInv'
  BY InvNext
<1> QED
  BY <1>1, InvInit, PTL DEF Spec

-----------------------------------------------------------------------------
\* SyncAPIKey: the one instance never serves on another key's grace, whatever
\* commands failed and whatever an interrupted pipeline had left behind.
THEOREM OwnKeyServed ==
  ASSUME Single
  PROVE  Spec => []ServesItsKey
<1>1. IInv => ServesItsKey
  BY DEF IInv, TypeOK, SyncInstalls, ServesItsKey
<1> QED
  BY <1>1, Invariant, PTL

\* Only the second and the third GET of a validation that has begun end it.
LEMMA Decides ==
  ASSUME IInv, [Next]_vars, NEW r \in Request, NEW verdict \in {"accepted", "refused"},
         Gets(r, verdict)
  PROVE  \/ GetRotation(r)
         \/ /\ check[r].pc = "old" /\ verdict = "refused"
            /\ ~IsOld(check[r].key)
<1>0. /\ check[r].pc \in {"old", "rotation"} /\ check'[r].pc = verdict
      /\ check \in [Request -> Check]
  BY DEF Gets, IInv, TypeOK
<1>1. CASE GetOld(r)
  <2>1. CASE Become(r, [check[r] EXCEPT !.pc = "rotation"])
    <3>1. [check[r] EXCEPT !.pc = "rotation"].pc = "rotation"
      BY <1>0, CheckFields DEF IInv
    <3> QED
      BY <1>0, <2>1, <3>1 DEF Become
  <2>2. CASE ~IsOld(check[r].key) /\ Decide(r, "refused")
    BY <1>0, <1>1, <2>2 DEF GetOld, Decide, Become
  <2>3. CASE Decide(r, "error")
    BY <1>0, <2>3 DEF Decide, Become
  <2> QED
    BY <1>1, <2>1, <2>2, <2>3 DEF GetOld
<1>2. CASE GetCurrent(r)
  BY <1>0, <1>2 DEF GetCurrent
<1>3. ASSUME NEW s \in Request \ {r}, GetCurrent(s) \/ GetOld(s) \/ GetRotation(s)
      PROVE  check'[r] = check[r]
  BY <1>0, <1>3 DEF GetCurrent, GetOld, GetRotation, Decide, Become
<1>4. ASSUME NEW i \in Instance, Stop(i)
      PROVE  check'[r] \in {Idle, check[r]}
  BY <1>4 DEF Stop
<1>5. CASE \/ Deploy \/ Tick \/ UNCHANGED vars
           \/ \E i \in Instance : Start(i) \/ RunCommand(i) \/ EndSync(i)
  BY <1>0, <1>5 DEF Deploy, Tick, vars, Start, RunCommand, EndSync
<1> QED
  BY <1>0, <1>1, <1>2, <1>3, <1>4, <1>5 DEF Next

\* A validation that ends with "accepted" has found its key in apikey:old in time.
LEMMA AcceptedInTime ==
  ASSUME IInv, [Next]_vars, NEW r \in Request, Gets(r, "accepted")
  PROVE  InTime(check[r])
<1>1. GetRotation(r)
  BY Decides
<1> QED
  BY <1>1 DEF GetRotation, IInv, ChecksServed, Served

\* IsValidAPIKey: a key that was replaced is accepted for at most its grace period,
\* whatever part of whatever rotation was lost.
THEOREM RetiredKeysDie ==
  ASSUME Single
  PROVE  Spec => RetiredKeyExpires
<1>1. IInv /\ [Next]_vars =>
        [\A r \in Request : Gets(r, "accepted") =>
           \/ check[r].key = current
           \/ /\ retired[check[r].key] # Nothing
              /\ check[r].start <= retired[check[r].key].done + Grace]_vars
  BY AcceptedInTime DEF InTime
<1> QED
  BY <1>1, Invariant, PTL DEF RetiredKeyExpires, Spec

-----------------------------------------------------------------------------
(* The grace period is kept as well: the one instance writes all that the   *)
(* key it replaces needs before it serves.                                  *)

\* A key that was current at time t is in apikey:old, or its 24 hours are over.
Kept(key, t) ==
  \/ now > t + Grace
  \/ old # Nothing /\ old.key = key /\ old.until >= t + Grace

\* The key that a pipeline built at time t has replaced is kept.
Promised(t) ==
  previous # Nothing =>
    /\ retired[previous] # Nothing /\ retired[previous].built = t
    /\ Kept(previous, t)

Timed(t) == rotation = t - (t % Second)

\* How far the pipeline that was built at time t has come: up to where it is, it has
\* written what the grace period needs, unless one of its commands failed.
Rotates(i, key, t) ==
  \/ /\ proc[i].pipe = <<Old(current, t), Current(key, t), Rotation(t)>>
     /\ current \in Key \ {key}
  \/ /\ proc[i].pipe = <<Current(key, t), Rotation(t)>>
     /\ \/ current = Nothing
        \/ proc[i].failed
        \/ current # key /\ Kept(current, t)
  \/ proc[i].pipe = <<Rotation(t)>> /\ (proc[i].failed \/ Promised(t))
  \/ proc[i].pipe = <<>> /\ (proc[i].failed \/ (Promised(t) /\ Timed(t)))

GraceInv ==
  /\ current = Nothing => previous = Nothing
  /\ \A i \in Instance : proc[i].pc = "sync" =>
       ~whole /\ \E key \in Key, t \in Nat : t <= now /\ Rotates(i, key, t)
  /\ whole /\ previous # Nothing => \E t \in Nat : Promised(t) /\ Timed(t)

\* apikey:old outlives the clock's steps until its key's 24 hours are over.
LEMMA GraceTick ==
  ASSUME IInv, GraceInv, Tick
  PROVE  GraceInv'
<1>0. /\ current' = current /\ rotation' = rotation /\ now' = now + 1
      /\ whole' = whole /\ proc' = proc
      /\ previous' = previous /\ retired' = retired
      /\ old' = IF old # Nothing /\ old.until < now + 1 THEN Nothing ELSE old
      /\ now \in Nat /\ Grace \in Nat
      /\ old # Nothing => old.until \in Nat
  BY APIKeyAssumption DEF Tick, history, IInv, TypeOK
<1>1. ASSUME NEW key, NEW t \in Nat, Kept(key, t)
      PROVE  Kept(key, t)'
  BY <1>0, <1>1 DEF Kept
<1>2. ASSUME NEW t \in Nat, Promised(t)
      PROVE  Promised(t)'
  BY <1>0, <1>1, <1>2 DEF Promised, Kept
<1>3. ASSUME NEW i \in Instance, NEW key \in Key, NEW t \in Nat, Rotates(i, key, t)
      PROVE  Rotates(i, key, t)'
  <2>1. CASE /\ proc[i].pipe = <<Old(current, t), Current(key, t), Rotation(t)>>
             /\ current \in Key \ {key}
    BY <1>0, <2>1 DEF Rotates, Old, Current, Rotation
  <2>2. CASE /\ proc[i].pipe = <<Current(key, t), Rotation(t)>>
             /\ \/ current = Nothing
                \/ proc[i].failed
                \/ current # key /\ Kept(current, t)
    BY <1>0, <1>1, <2>2 DEF Rotates, Current, Rotation, Kept
  <2>3. CASE proc[i].pipe = <<Rotation(t)>> /\ (proc[i].failed \/ Promised(t))
    BY <1>0, <1>2, <2>3 DEF Rotates, Rotation
  <2>4. CASE proc[i].pipe = <<>> /\ (proc[i].failed \/ (Promised(t) /\ Timed(t)))
    BY <1>0, <1>2, <2>4 DEF Rotates, Timed
  <2> QED
    BY <1>3, <2>1, <2>2, <2>3, <2>4 DEF Rotates
<1>4. ASSUME NEW t \in Nat, Promised(t), Timed(t)
      PROVE  Promised(t)' /\ Timed(t)'
  BY <1>0, <1>2, <1>4 DEF Timed
<1>5. \A t \in Nat : t <= now => t <= now'
  BY <1>0
<1> QED
  BY <1>0, <1>3, <1>4, <1>5 DEF GraceInv

\* The pipeline is built with the key it replaces, which is not the one it installs.
LEMMA GraceStart ==
  ASSUME IInv, GraceInv, Single, NEW i \in Instance, Start(i)
  PROVE  GraceInv'
<1>0. /\ current' = current /\ old' = old /\ rotation' = rotation
      /\ now' = now /\ env' = env
      /\ previous' = previous /\ retired' = retired
      /\ env \in Key /\ now \in Nat /\ current \in Key \cup {Nothing}
      /\ proc \in [Instance -> Process] /\ proc[i] = Down
  BY DEF Start, redis, IInv, TypeOK
<1>1. CASE current = env /\ proc' = [proc EXCEPT ![i] = Up] /\ UNCHANGED whole
  BY <1>0, <1>1 DEF Single, GraceInv, Promised, Kept, Timed
<1>2. ASSUME current # env, whole' = FALSE,
             proc' = [proc EXCEPT ![i] =
                        [pc |-> "sync", pipe |-> Pipeline, failed |-> FALSE]]
      PROVE  GraceInv'
  <2>1. \/ /\ Pipeline = <<Old(current, now), Current(env, now), Rotation(now)>>
           /\ current \in Key \ {env}
        \/ /\ Pipeline = <<Current(env, now), Rotation(now)>>
           /\ current = Nothing
    BY <1>0, <1>2 DEF Pipeline, Old, Current, Rotation
  <2> DEFINE pipeline == Pipeline
  <2>2. proc'[i] = [pc |-> "sync", pipe |-> pipeline, failed |-> FALSE]
    BY <1>0, <1>2
  <2>3. Rotates(i, env, now)'
    BY <1>0, <2>1, <2>2 DEF Rotates, Old, Current, Rotation
  <2>4. now <= now
    BY <1>0
  <2> QED
    BY <1>0, <1>2, <2>3, <2>4 DEF Single, GraceInv
<1> QED
  BY <1>1, <1>2 DEF Start

\* Each command leaves what the grace period needs of it, or an error that Exec will
\* report.
LEMMA GraceRunCommand ==
  ASSUME IInv, GraceInv, Single, NEW i \in Instance, RunCommand(i)
  PROVE  GraceInv'
<1>0. PICK key \in Key, t \in Nat :
        /\ t <= now /\ Rotates(i, key, t)
        /\ proc[i].pc = "sync" /\ proc[i].pipe # <<>>
  BY DEF RunCommand, GraceInv
<1>1. /\ proc[i] \in [pc : {"sync"}, pipe : Seq(Command), failed : BOOLEAN]
      /\ proc \in [Instance -> Process]
  BY <1>0 DEF IInv, TypeOK, Process
<1>2. /\ now' = now /\ whole' = whole /\ ~whole
      /\ now \in Nat /\ current \in Key \cup {Nothing} /\ Grace \in Nat
      /\ current = Nothing => previous = Nothing
  BY <1>0, APIKeyAssumption DEF RunCommand, redis, history, SetCurrent, IInv, TypeOK, GraceInv
<1> DEFINE cmd == Head(proc[i].pipe)
           Done(failed) == proc' = [proc EXCEPT ![i] =
                                      [pc |-> "sync", pipe |-> Tail(@.pipe),
                                       failed |-> @.failed \/ failed]]
<1>3. ASSUME NEW failed \in BOOLEAN, Done(failed)
      PROVE  /\ proc'[i].pipe = Tail(proc[i].pipe)
             /\ proc'[i].failed = (proc[i].failed \/ failed)
  BY <1>1, <1>3
<1>4. ASSUME Rotates(i, key, t)', current' = Nothing => previous' = Nothing
      PROVE  GraceInv'
  BY <1>0, <1>2, <1>4 DEF Single, GraceInv
<1>5. \/ /\ cmd = Old(current, t) /\ current \in Key \ {key}
         /\ Tail(proc[i].pipe) = <<Current(key, t), Rotation(t)>>
      \/ /\ cmd = Current(key, t) /\ Tail(proc[i].pipe) = <<Rotation(t)>>
         /\ \/ current = Nothing
            \/ proc[i].failed
            \/ current # key /\ Kept(current, t)
      \/ /\ cmd = Rotation(t) /\ Tail(proc[i].pipe) = <<>>
         /\ proc[i].failed \/ Promised(t)
  <2>1. CASE /\ proc[i].pipe = <<Old(current, t), Current(key, t), Rotation(t)>>
             /\ current \in Key \ {key}
    <3>1. cmd = Old(current, t)
      BY <2>1
    <3>2. Tail(proc[i].pipe) = <<Current(key, t), Rotation(t)>>
      BY <2>1
    <3> QED
      BY <2>1, <3>1, <3>2
  <2>2. CASE /\ proc[i].pipe = <<Current(key, t), Rotation(t)>>
             /\ \/ current = Nothing
                \/ proc[i].failed
                \/ current # key /\ Kept(current, t)
    <3>1. cmd = Current(key, t)
      BY <2>2
    <3>2. Tail(proc[i].pipe) = <<Rotation(t)>>
      BY <2>2
    <3> QED
      BY <2>2, <3>1, <3>2
  <2>3. CASE proc[i].pipe = <<Rotation(t)>> /\ (proc[i].failed \/ Promised(t))
    BY <2>3
  <2> QED
    BY <1>0, <2>1, <2>2, <2>3 DEF Rotates
<1>6. CASE Done(TRUE) /\ UNCHANGED <<redis, history>>
  <2>1. current' = current /\ previous' = previous
    BY <1>6 DEF redis, history
  <2>2. proc'[i].pipe = Tail(proc[i].pipe) /\ proc'[i].failed
    BY <1>3, <1>6
  <2>3. Rotates(i, key, t)'
    BY <1>5, <2>1, <2>2 DEF Rotates, Old, Current, Rotation
  <2> QED
    BY <1>2, <1>4, <2>1, <2>3
<1>7. CASE /\ Done(FALSE) /\ cmd = Old(current, t) /\ current \in Key \ {key}
           /\ Tail(proc[i].pipe) = <<Current(key, t), Rotation(t)>>
           /\ SetOld(cmd) /\ UNCHANGED <<current, rotation, history>>
  <2>1. /\ current' = current /\ previous' = previous
        /\ old' = [key |-> current, until |-> now + Grace]
    BY <1>7 DEF history, SetOld, Old
  <2>2. old' # Nothing /\ old'.key = current /\ old'.until >= t + Grace
    BY <1>0, <1>2, <1>7, <2>1, APIKeyAssumption
  <2>3. Kept(current, t)'
    BY <2>1, <2>2 DEF Kept
  <2>4. proc'[i].pipe = <<Current(key, t), Rotation(t)>>
    BY <1>3, <1>7
  <2>5. Rotates(i, key, t)'
    BY <1>7, <2>1, <2>3, <2>4 DEF Rotates, Current, Rotation
  <2> QED
    BY <1>2, <1>4, <2>1, <2>5
<1>8. CASE /\ Done(FALSE) /\ cmd = Current(key, t) /\ Tail(proc[i].pipe) = <<Rotation(t)>>
           /\ \/ current = Nothing
              \/ proc[i].failed
              \/ current # key /\ Kept(current, t)
           /\ SetCurrent(cmd) /\ UNCHANGED <<old, rotation>>
  <2>1. /\ current' = key /\ old' = old
        /\ IF current \in {key, Nothing}
           THEN UNCHANGED <<previous, retired>>
           ELSE /\ previous' = current
                /\ retired' = [retired EXCEPT ![key] = Nothing,
                                              ![current] = [built |-> t, done |-> now]]
    BY <1>8 DEF SetCurrent, Current
  <2>2. proc'[i].pipe = <<Rotation(t)>> /\ (proc'[i].failed = proc[i].failed)
    BY <1>1, <1>3, <1>8
  <2>3. proc[i].failed \/ Promised(t)'
    <3>1. CASE current = Nothing
      BY <1>2, <2>1, <3>1 DEF Promised
    <3>2. CASE current # Nothing /\ current # key /\ Kept(current, t)
      <4>1. /\ previous' = current
            /\ retired' = [retired EXCEPT ![key] = Nothing,
                                          ![current] = [built |-> t, done |-> now]]
            /\ retired \in [Key -> [built : Nat, done : Nat] \cup {Nothing}]
        BY <2>1, <3>2 DEF IInv, TypeOK
      <4>2. /\ retired'[current] = [built |-> t, done |-> now]
            /\ [built |-> t, done |-> now] # Nothing
        BY <1>2, <3>2, <4>1, APIKeyAssumption
      <4> QED
        BY <1>2, <2>1, <3>2, <4>1, <4>2 DEF Promised, Kept
    <3> QED
      BY <1>8, <3>1, <3>2
  <2>4. Rotates(i, key, t)'
    BY <2>2, <2>3 DEF Rotates, Rotation
  <2>5. current' # Nothing
    BY <2>1, APIKeyAssumption
  <2> QED
    BY <1>4, <2>4, <2>5
<1>9. CASE /\ Done(FALSE) /\ cmd = Rotation(t) /\ Tail(proc[i].pipe) = <<>>
           /\ proc[i].failed \/ Promised(t)
           /\ SetRotation(cmd) /\ UNCHANGED <<current, old, history>>
  <2>1. /\ current' = current /\ old' = old
        /\ previous' = previous /\ retired' = retired
        /\ rotation' = t - (t % Second)
    BY <1>9 DEF history, SetRotation, Rotation
  <2>2. proc'[i].pipe = <<>> /\ (proc'[i].failed = proc[i].failed)
    BY <1>1, <1>3, <1>9
  <2>3. Timed(t)' /\ (Promised(t) => Promised(t)')
    BY <1>2, <2>1 DEF Timed, Promised, Kept
  <2>4. Rotates(i, key, t)'
    BY <1>9, <2>2, <2>3 DEF Rotates
  <2> QED
    BY <1>2, <1>4, <2>1, <2>4
<1>10. /\ Old(current, t).set = "old" /\ Current(key, t).set = "current"
       /\ Rotation(t).set = "rotation"
  BY DEF Old, Current, Rotation
<1>11. \/ Done(TRUE) /\ UNCHANGED <<redis, history>>
       \/ /\ Done(FALSE)
          /\ \/ cmd.set = "old" /\ SetOld(cmd) /\ UNCHANGED <<current, rotation, history>>
             \/ cmd.set = "current" /\ SetCurrent(cmd) /\ UNCHANGED <<old, rotation>>
             \/ cmd.set = "rotation" /\ SetRotation(cmd) /\ UNCHANGED <<current, old, history>>
  BY DEF RunCommand
<1> QED
  BY <1>5, <1>6, <1>7, <1>8, <1>9, <1>10, <1>11

\* Exec returns without an error only if every command did its part.
LEMMA GraceEndSync ==
  ASSUME IInv, GraceInv, Single, NEW i \in Instance, EndSync(i)
  PROVE  GraceInv'
<1>0. /\ proc[i].pc = "sync" /\ proc[i].pipe = <<>>
      /\ current' = current /\ old' = old /\ rotation' = rotation /\ now' = now
      /\ previous' = previous /\ retired' = retired
      /\ proc' = [proc EXCEPT ![i] = IF proc[i].failed THEN Down ELSE Up]
      /\ whole' = ~proc[i].failed
      /\ proc \in [Instance -> Process]
  BY DEF EndSync, redis, IInv, TypeOK
<1>1. proc[i].failed \/ \E t \in Nat : Promised(t) /\ Timed(t)
  <2>1. PICK key \in Key, t \in Nat : Rotates(i, key, t)
    BY <1>0 DEF GraceInv
  <2> QED
    BY <1>0, <2>1 DEF Rotates
<1>2. \A j \in Instance : proc'[j].pc # "sync"
  BY <1>0 DEF Single
<1> QED
  BY <1>0, <1>1, <1>2 DEF GraceInv, Promised, Kept, Timed

LEMMA GraceNext ==
  ASSUME IInv, GraceInv, Single, [Next]_vars
  PROVE  GraceInv'
<1>1. CASE \/ Deploy \/ UNCHANGED vars
           \/ \E r \in Request : GetCurrent(r) \/ GetOld(r) \/ GetRotation(r)
  <2>1. /\ current' = current /\ old' = old /\ rotation' = rotation /\ now' = now
        /\ previous' = previous /\ retired' = retired /\ proc' = proc /\ whole' = whole
    BY <1>1 DEF Deploy, vars, redis, history, GetCurrent, GetOld, GetRotation, Decide, Become
  <2> QED
    BY <2>1 DEF GraceInv, Rotates, Promised, Kept, Timed
<1>2. ASSUME NEW i \in Instance, Stop(i)
      PROVE  GraceInv'
  <2>1. /\ current' = current /\ old' = old /\ rotation' = rotation /\ now' = now
        /\ previous' = previous /\ retired' = retired /\ whole' = whole
        /\ proc' = [proc EXCEPT ![i] = Down] /\ proc \in [Instance -> Process]
    BY <1>2 DEF Stop, redis, IInv, TypeOK
  <2> QED
    BY <2>1 DEF Single, GraceInv, Promised, Kept, Timed
<1> QED
  BY <1>1, <1>2, GraceTick, GraceStart, GraceRunCommand, GraceEndSync DEF Next

LEMMA GraceInvariant ==
  ASSUME Single
  PROVE  Spec => []GraceInv
<1>1. Init => GraceInv
  BY DEF Init, GraceInv
<1>2. Single /\ IInv /\ GraceInv /\ [Next]_vars => GraceInv'
  BY GraceNext
<1> QED
  BY <1>1, <1>2, Invariant, PTL DEF Spec

\* A validation that ends with "refused" has not found its key in apikey:old, or a
\* rotation time that is too old for it; the key of the last whole rotation is in
\* both until its time is over.
LEMMA RefusedLate ==
  ASSUME IInv, GraceInv, [Next]_vars, NEW r \in Request,
         Gets(r, "refused"), check[r].key = previous, whole
  PROVE  now > retired[previous].built - (Second - 1) + Grace
<1>1. /\ previous \in Key /\ previous # Nothing /\ now \in Nat /\ Grace \in Nat
      /\ Second \in Nat \ {0} /\ check \in [Request -> Check]
  BY CheckFields, APIKeyAssumption DEF Gets, IInv, TypeOK
<1>2. PICK t \in Nat : Promised(t) /\ Timed(t)
  BY <1>1 DEF GraceInv
<1>3. /\ retired[previous].built = t /\ Kept(previous, t)
      /\ t - (t % Second) <= t /\ t - (t % Second) >= t - (Second - 1)
  <2>1. t % Second \in 0..(Second - 1)
    BY <1>1
  <2> QED
    BY <1>1, <1>2, <2>1 DEF Promised
<1>4. CASE ~IsOld(check[r].key)
  BY <1>1, <1>3, <1>4 DEF IsOld, Kept
<1>5. CASE GetRotation(r)
  <2>1. ~InGrace
    BY <1>1, <1>5 DEF GetRotation, Decide, Become, Gets
  <2> QED
    BY <1>1, <1>2, <1>3, <2>1 DEF InGrace, Timed
<1> QED
  BY <1>4, <1>5, Decides

\* IsValidAPIKey: for 24 hours, up to the second the rotation time is truncated to,
\* the key that was replaced is not refused, if the rotation ran to its end.
THEOREM GraceKept ==
  ASSUME Single
  PROVE  Spec => GraceHeld
<1>1. IInv /\ GraceInv /\ [Next]_vars =>
        [\A r \in Request : Gets(r, "refused") /\ check[r].key = previous /\ whole =>
           now > retired[previous].built - (Second - 1) + Grace]_vars
  BY RefusedLate
<1> QED
  BY <1>1, Invariant, GraceInvariant, PTL DEF GraceHeld, Spec
=============================================================================
