-------------------------- MODULE WakeWordLifecycle --------------------------
(***************************************************************************)
(* The wake-word engine of AudioService and the lease gate in front of it. *)
(*                                                                         *)
(* Every task that touches the engine takes a lease of the controller      *)
(* (TryAcquire), works, and gives it back (ReleaseLease).  The audio input *)
(* task feeds the engine through a raw pointer and without the control     *)
(* mutex; the others (enable, disable, the readers) hold the mutex.  The   *)
(* task that provisions the Wi-Fi, in WifiProvisioning, closes the gate    *)
(* and destroys the engine.                                                *)
(*                                                                         *)
(* One action is one access to something another task can see: an atomic,  *)
(* the event bits, a critical section.  The memory order is sequentially   *)
(* consistent.  active_leases_ is represented by the set of tasks counted  *)
(* in it: no task is ever counted twice.                                   *)
(***************************************************************************)
EXTENDS Naturals

CONSTANTS
    Clients,   \* the tasks that call EnableWakeWordDetection and the readers
    Input,     \* the audio input task
    NoTask,
    MaxCalls   \* bound: how many calls the clients make

ASSUME TasksAssumption ==
    /\ Input \notin Clients
    /\ NoTask \notin Clients \union {Input}

ASSUME CallsAssumption == MaxCalls \in Nat

Tasks == Clients \union {Input}

VARIABLES
    generation, flags,   \* state_: the packed generation and flags
    counted,             \* active_leases_
    sleeping,            \* the provisioning task sleeps on idle_cv_
    pc, job, lease,      \* per task: where it is, in which call, its lease
    mutex,               \* the owner of wake_word_control_mutex_
    engine,              \* wake_word_: absent, created, or also initialised
    detecting, shut,     \* inside the engine: it runs; its shutdown was asked
    target,              \* wake_word_feed_target_ is the engine
    wakeBit,             \* AS_EVENT_WAKE_WORD_RUNNING
    workers,             \* the audio worker tasks and their stop request
    calls                \* calls made so far

controllerVars == <<generation, flags, counted, sleeping>>
taskVars == <<pc, job, lease, mutex, calls>>
engineVars == <<engine, detecting, shut, target>>
lifecycleVars == <<controllerVars, taskVars, engineVars, wakeBit, workers>>

LifecycleInit ==
    /\ generation = 1 /\ flags = {} /\ counted = {} /\ sleeping = FALSE
    /\ pc = [t \in Tasks |-> "idle"]
    /\ job = [t \in Tasks |-> "read"]
    /\ lease = [t \in Tasks |-> 0]
    /\ mutex = NoTask
    /\ engine = "none" /\ detecting = FALSE /\ shut = FALSE /\ target = FALSE
    /\ wakeBit = FALSE
    /\ calls = 0

-----------------------------------------------------------------------------
(* The controller. *)

Provisioning == flags \intersect {"provisioning", "quiescing"} # {}

\* Mutant: only the quiescing phase is refused.
AllowedAfterReset(j) == "quiescing" \notin flags /\ (j = "feed" => "running" \in flags)

Allowed(j) == ~Provisioning /\ (j = "feed" => "running" \in flags)

CanSetRunning(t) == ~Provisioning /\ generation = lease[t]

Goto(t, place) == pc' = [pc EXCEPT ![t] = place]

\* TryAcquire counts the caller before it looks at the state.
Acquire(t, j) ==
    /\ pc[t] = IF t = Input THEN "heard" ELSE "idle"
    /\ counted' = counted \union {t}
    /\ job' = [job EXCEPT ![t] = j]
    /\ Goto(t, "check")

Admit(t) ==
    /\ pc[t] = "check" /\ Allowed(job[t])
    /\ lease' = [lease EXCEPT ![t] = generation]
    /\ Goto(t, IF job[t] = "feed" THEN "load" ELSE "lock")
    /\ UNCHANGED <<controllerVars, job, mutex, calls, engineVars, wakeBit, workers>>

Deny(t) ==
    /\ pc[t] = "check" /\ ~Allowed(job[t])
    /\ Goto(t, "release")
    /\ UNCHANGED <<controllerVars, job, lease, mutex, calls, engineVars, wakeBit, workers>>

\* Mutant: a refused caller wakes nobody.
ReleaseSilently(t) ==
    /\ pc[t] = "release"
    /\ counted' = counted \ {t}
    /\ lease' = [lease EXCEPT ![t] = 0]
    /\ Goto(t, IF counted = {t} /\ lease[t] # 0 THEN "notify" ELSE "idle")
    /\ UNCHANGED <<generation, flags, sleeping, job, mutex, calls, engineVars,
                   wakeBit, workers>>

Release(t) ==
    /\ pc[t] = "release"
    /\ counted' = counted \ {t}
    /\ lease' = [lease EXCEPT ![t] = 0]
    /\ Goto(t, IF counted = {t} THEN "notify" ELSE "idle")
    /\ UNCHANGED <<generation, flags, sleeping, job, mutex, calls, engineVars,
                   wakeBit, workers>>

Notify(t) ==
    /\ pc[t] = "notify"
    /\ sleeping' = FALSE
    /\ Goto(t, "idle")
    /\ UNCHANGED <<generation, flags, counted, job, lease, mutex, calls, engineVars,
                   wakeBit, workers>>

-----------------------------------------------------------------------------
(* The audio input task: it waits for the wake-word bit, reads the codec and *)
(* feeds the engine behind the pointer it loads.                             *)

InputWakes ==
    /\ pc[Input] = "idle" /\ wakeBit /\ workers = "on"
    /\ Goto(Input, "heard")
    /\ UNCHANGED <<controllerVars, job, lease, mutex, calls, engineVars, wakeBit, workers>>

FeedWakeWord ==
    /\ Acquire(Input, "feed")
    /\ UNCHANGED <<generation, flags, sleeping, lease, mutex, calls, engineVars,
                   wakeBit, workers>>

LoadTarget ==
    /\ pc[Input] = "load"
    /\ Goto(Input, IF target THEN "feed" ELSE "release")
    /\ UNCHANGED <<controllerVars, job, lease, mutex, calls, engineVars, wakeBit, workers>>

Feed ==
    /\ pc[Input] = "feed"
    /\ Goto(Input, "release")
    /\ UNCHANGED <<controllerVars, job, lease, mutex, calls, engineVars, wakeBit, workers>>

\* It leaves once it finds the service stopped.  Stop sets every bit it may
\* wait for.  The other workers leave with it.
WorkersExit ==
    /\ workers = "stopping" /\ pc[Input] = "idle"
    /\ workers' = "off"
    /\ UNCHANGED <<controllerVars, taskVars, engineVars, wakeBit>>

-----------------------------------------------------------------------------
(* The calls made under the control mutex. *)

Call(t) ==
    /\ t \in Clients /\ calls < MaxCalls
    /\ calls' = calls + 1
    /\ \E j \in {"enable", "disable", "read"} : Acquire(t, j)
    /\ UNCHANGED <<generation, flags, sleeping, lease, mutex, engineVars, wakeBit, workers>>

Lock(t) ==
    /\ pc[t] = "lock" /\ mutex = NoTask
    /\ mutex' = t
    /\ Goto(t, job[t])
    /\ UNCHANGED <<controllerVars, job, lease, calls, engineVars, wakeBit, workers>>

\* The mutex is unlocked before the lease goes back.
Return(t) ==
    /\ mutex' = NoTask
    /\ Goto(t, "release")
    /\ UNCHANGED <<controllerVars, job, lease, calls>>

Proceed(t, place) ==
    /\ Goto(t, place)
    /\ UNCHANGED <<job, lease, mutex, calls>>

Read(t) ==
    /\ pc[t] = "read"
    /\ Return(t)
    /\ UNCHANGED <<engineVars, wakeBit, workers>>

\* Already running, no engine for this board, or it does not initialise.
EnableReturns(t) ==
    /\ pc[t] = "enable"
    /\ \/ wakeBit /\ UNCHANGED engine
       \/ ~wakeBit /\ engine = "none" /\ engine' \in {"none", "created"}
       \/ ~wakeBit /\ engine = "created" /\ UNCHANGED engine
    /\ Return(t)
    /\ UNCHANGED <<detecting, shut, target, wakeBit, workers>>

EnableBuilds(t) ==
    /\ pc[t] = "enable" /\ ~wakeBit
    /\ engine' = "ready"
    /\ Proceed(t, "start")
    /\ UNCHANGED <<controllerVars, detecting, shut, target, wakeBit, workers>>

Start(t) ==
    /\ pc[t] = "start"
    /\ detecting' = (detecting \/ ~shut)
    /\ Proceed(t, "publish")
    /\ UNCHANGED <<controllerVars, engine, shut, target, wakeBit, workers>>

\* SetRunning(true): refused once a provisioning has raised the generation.
Publish(t) ==
    /\ pc[t] = "publish"
    /\ IF CanSetRunning(t)
       THEN flags' = flags \union {"running"} /\ Proceed(t, "target")
       ELSE UNCHANGED flags /\ Proceed(t, "untarget")
    /\ UNCHANGED <<generation, counted, sleeping, engineVars, wakeBit, workers>>

StoreTarget(t) ==
    /\ pc[t] = "target"
    /\ target' = TRUE
    /\ Proceed(t, "bit")
    /\ UNCHANGED <<controllerVars, engine, detecting, shut, wakeBit, workers>>

SetBit(t) ==
    /\ pc[t] = "bit"
    /\ wakeBit' = TRUE
    /\ Return(t)
    /\ UNCHANGED <<engineVars, workers>>

DisableBegins(t) ==
    /\ pc[t] = "disable"
    /\ IF engine = "none"
       THEN Return(t)
       ELSE Proceed(t, "untarget") /\ UNCHANGED controllerVars
    /\ UNCHANGED <<engineVars, wakeBit, workers>>

\* Both a disable and an enable that came too late take the engine back.
ClearTarget(t) ==
    /\ pc[t] = "untarget"
    /\ target' = FALSE
    /\ Proceed(t, IF job[t] = "disable" THEN "unpublish" ELSE "unbit")
    /\ UNCHANGED <<controllerVars, engine, detecting, shut, wakeBit, workers>>

\* Mutant: a disable leaves the running flag set.
UnpublishForgotten(t) ==
    /\ pc[t] = "unpublish"
    /\ Proceed(t, "unbit")
    /\ UNCHANGED <<controllerVars, engineVars, wakeBit, workers>>

\* SetRunning(false): the result is ignored.
Unpublish(t) ==
    /\ pc[t] = "unpublish"
    /\ flags' = IF CanSetRunning(t) THEN flags \ {"running"} ELSE flags
    /\ Proceed(t, "unbit")
    /\ UNCHANGED <<generation, counted, sleeping, engineVars, wakeBit, workers>>

ClearBit(t) ==
    /\ pc[t] = "unbit"
    /\ wakeBit' = FALSE
    /\ Proceed(t, "stop")
    /\ UNCHANGED <<controllerVars, engineVars, workers>>

Stop(t) ==
    /\ pc[t] = "stop"
    /\ detecting' = FALSE
    /\ Return(t)
    /\ UNCHANGED <<engine, shut, target, wakeBit, workers>>

-----------------------------------------------------------------------------

\* What a task does with a lease in hand, up to giving it back.
Advance(t) ==
    \/ Admit(t) \/ Deny(t) \/ Release(t) \/ Notify(t)
    \/ Lock(t) \/ Read(t) \/ EnableReturns(t) \/ EnableBuilds(t) \/ Start(t)
    \/ Publish(t) \/ StoreTarget(t) \/ SetBit(t)
    \/ DisableBegins(t) \/ ClearTarget(t) \/ Unpublish(t) \/ ClearBit(t) \/ Stop(t)

InputStep == InputWakes \/ FeedWakeWord \/ LoadTarget \/ Feed \/ WorkersExit

LifecycleNext == InputStep \/ \E t \in Tasks : Call(t) \/ Advance(t)
=============================================================================
