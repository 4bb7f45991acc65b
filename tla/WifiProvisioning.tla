--------------------------- MODULE WifiProvisioning ---------------------------
(***************************************************************************)
(* Wi-Fi provisioning over Bluetooth: the event loop closes the lease gate *)
(* of WakeWordLifecycle, takes down the audio workers and the wake-word    *)
(* engine, binds the session token to BluFi and brings the Bluetooth stack *)
(* up; the session's end takes the stack down and gives the audio back.    *)
(*                                                                         *)
(* All of it runs on the event loop.  mpc is its place: "idle" is between  *)
(* two of its handlers, the others are the points inside BeginWifi-        *)
(* Provisioning, StartWifiConfigMode, the teardown and StartWorkers where  *)
(* another task can run.  The reservation and completion guards of the     *)
(* binding are held across one handler only, so nothing finds them taken.  *)
(***************************************************************************)
EXTENDS WakeWordLifecycle

CONSTANTS
    MaxGeneration,     \* bound: the generations a run reaches
    MaxStartFailures   \* bound: how often the workers fail to start or to stop again

ASSUME BoundsAssumption == MaxGeneration \in Nat /\ MaxStartFailures \in Nat

VARIABLES
    claimed,          \* the device has an owner: its audio runs from boot
    mpc, origin,      \* the event loop's place; who began the provisioning
    active, restart,  \* ProvisioningAudioWorkerState: generation, and its flag
    claim,            \* the token a teardown works for
    attempt,          \* of starting the workers
    token,            \* the token BluFi is bound to
    ble, inited, teardownFailed,   \* the Bluetooth stack
    armed, timedOut,  \* the setup timeout
    failures          \* failed starts and rollbacks so far

ledgerVars == <<active, restart>>
bleVars == <<ble, inited, teardownFailed, armed, timedOut>>
sessionVars == <<origin, ledgerVars, claim, attempt, token, bleVars, failures>>
vars == <<lifecycleVars, claimed, mpc, sessionVars>>

Init ==
    /\ LifecycleInit
    /\ claimed \in BOOLEAN
    /\ workers = IF claimed THEN "on" ELSE "off"
    /\ mpc = "idle" /\ origin = "config"
    /\ active = 0 /\ restart = FALSE /\ claim = 0 /\ attempt = 1 /\ token = 0
    /\ ble = "off" /\ inited = FALSE /\ teardownFailed = FALSE
    /\ armed = FALSE /\ timedOut = FALSE /\ failures = 0

At(place) == mpc = place /\ UNCHANGED claimed
To(place) == mpc' = place
Audio == <<taskVars, engineVars, wakeBit, workers>>

-----------------------------------------------------------------------------
(* BeginWifiProvisioning. *)

\* GetBleState() = kOff
BleOff == ~timedOut /\ (ble = "off" \/ ~inited)

Begin(o) ==
    /\ At("idle") /\ generation + 2 <= MaxGeneration
    /\ o = "standby" => ~claimed /\ token = 0 /\ BleOff
    /\ target' = FALSE
    /\ origin' = o
    /\ To("raise")
    /\ UNCHANGED <<controllerVars, taskVars, engine, detecting, shut, wakeBit, workers,
                   ledgerVars, claim, attempt, token, bleVars, failures>>

RaiseGate ==
    /\ At("raise")
    /\ generation' = generation + 1
    /\ flags' = {"provisioning", "quiescing"}
    /\ To("hint")
    /\ UNCHANGED <<counted, sleeping, Audio, sessionVars>>

ClearHint ==
    /\ At("hint")
    /\ wakeBit' = FALSE
    /\ To("shutdown")
    /\ UNCHANGED <<controllerVars, taskVars, engineVars, workers, sessionVars>>

\* Shutdown(0) under the control mutex: it only asks.
RequestShutdown ==
    /\ At("shutdown") /\ mutex = NoTask
    /\ target' = FALSE
    /\ IF engine # "none"
       THEN shut' = TRUE /\ detecting' = FALSE
       ELSE UNCHANGED <<shut, detecting>>
    /\ To("wait")
    /\ UNCHANGED <<controllerVars, taskVars, engine, wakeBit, workers, sessionVars>>

\* Mutant: the wait gives up.
LeasesGoneOrTimeout ==
    /\ At("wait") /\ ~sleeping
    /\ To("bind")
    /\ UNCHANGED <<controllerVars, Audio, sessionVars>>

\* The condition variable: the predicate is evaluated and the task put to
\* sleep under wait_mutex_, which a notifier also takes.
LeasesGone ==
    /\ At("wait") /\ ~sleeping /\ counted = {}
    /\ To("bind")
    /\ UNCHANGED <<controllerVars, Audio, sessionVars>>

\* Mutant: the wait without its loop: whatever wakes it lets it go on.
SleepOnce ==
    /\ At("wait") /\ ~sleeping /\ counted # {}
    /\ sleeping' = TRUE
    /\ To("bind")
    /\ UNCHANGED <<generation, flags, counted, Audio, sessionVars>>

Sleep ==
    /\ At("wait") /\ ~sleeping /\ counted # {}
    /\ sleeping' = TRUE
    /\ UNCHANGED <<generation, flags, counted, mpc, Audio, sessionVars>>

\* Mutant: the prior state is recorded after the stop.
BindAfterStop ==
    /\ At("bind")
    /\ IF active = 0
       THEN /\ active' = generation /\ restart' = FALSE
            /\ To(IF workers = "on" THEN "stop" ELSE "reset")
       ELSE UNCHANGED ledgerVars /\ To("idle")
    /\ UNCHANGED <<controllerVars, Audio, origin, claim, attempt, token, bleVars, failures>>

BindWorkers ==
    /\ At("bind")
    /\ IF active = 0
       THEN /\ active' = generation /\ restart' = (workers = "on")
            /\ To(IF workers = "on" THEN "stop" ELSE "reset")
       ELSE UNCHANGED ledgerVars /\ To("idle")
    /\ UNCHANGED <<controllerVars, Audio, origin, claim, attempt, token, bleVars, failures>>

StopWorkers ==
    /\ At("stop")
    /\ workers' = "stopping"
    /\ wakeBit' = TRUE
    /\ To("join")
    /\ UNCHANGED <<controllerVars, taskVars, engineVars, sessionVars>>

\* Mutant: the result of the wait is ignored.
JoinIgnored ==
    /\ At("join")
    /\ To("reset")
    /\ UNCHANGED <<controllerVars, Audio, sessionVars>>

\* The wait is bounded: on a timeout the provisioning fails and stays closed.
JoinWorkers ==
    /\ At("join")
    /\ To(IF workers = "off" THEN "reset" ELSE "idle")
    /\ UNCHANGED <<controllerVars, Audio, sessionVars>>

\* The last clearing of the hints, Shutdown(5000) and the end of the engine
\* under the control mutex, FinishProvisioningReset.
ResetEngine ==
    /\ At("reset") /\ mutex = NoTask
    /\ target' = FALSE /\ wakeBit' = FALSE
    /\ engine' = "none" /\ detecting' = FALSE /\ shut' = FALSE
    /\ flags' = {"provisioning"}
    /\ To("bound")
    /\ UNCHANGED <<generation, counted, sleeping, taskVars, workers, sessionVars>>

ShutdownTimesOut ==
    /\ At("reset") /\ mutex = NoTask /\ engine # "none"
    /\ target' = FALSE /\ wakeBit' = FALSE
    /\ detecting' = FALSE /\ shut' = TRUE
    /\ To("idle")
    /\ UNCHANGED <<controllerVars, taskVars, engine, workers, sessionVars>>

-----------------------------------------------------------------------------
(* The Bluetooth stack.  "residue": some layer of it could not be removed.  *)

\* DeinitWithLifecycleOwned: a host that stays leaves everything as it was, a
\* controller that stays is remembered as a failed teardown.
DeinitDone == ble' = "off" /\ inited' = FALSE /\ teardownFailed' = FALSE

DeinitFails ==
    /\ ble # "off"
    /\ \/ UNCHANGED <<ble, inited, teardownFailed>>
       \/ ble' = "residue" /\ teardownFailed' = TRUE /\ UNCHANGED inited

InitDone ==
    /\ ble = "off" /\ ~teardownFailed
    /\ ble' = "on" /\ inited' = TRUE /\ timedOut' = FALSE
    /\ UNCHANGED teardownFailed

\* It is refused over a failed teardown or a residue; its own cleanup may fail.
InitFails ==
    \/ (ble # "off" \/ teardownFailed) /\ UNCHANGED <<ble, inited, teardownFailed, timedOut>>
    \/ /\ ble = "off" /\ ~teardownFailed
       /\ ble' \in {"off", "residue"} /\ inited' = FALSE /\ timedOut' = FALSE
       /\ UNCHANGED teardownFailed

-----------------------------------------------------------------------------
(* What the callers of BeginWifiProvisioning do with a token. *)

\* The rest of StartWifiConfigMode: bind, RestartForSetup, publish.  Any
\* failure after the restart aborts the session it has just bound.
Session == <<ledgerVars, attempt, failures>>

RestartForSetup ==
    /\ At("bound") /\ origin = "config"
    /\ token' = generation
    /\ \/ teardownFailed /\ UNCHANGED <<bleVars, claim>> /\ To("restarted")
       \/ /\ ~teardownFailed /\ ~BleOff /\ armed' = FALSE
          /\ \/ DeinitDone /\ UNCHANGED timedOut /\ To("init")
             \/ DeinitFails /\ UNCHANGED timedOut /\ To("restarted")
          /\ UNCHANGED claim
       \/ /\ ~teardownFailed /\ BleOff /\ armed' = FALSE
          /\ UNCHANGED <<ble, inited, teardownFailed, timedOut, claim>>
          /\ To("init")
    /\ UNCHANGED <<controllerVars, Audio, origin, Session>>

InitForSetup ==
    /\ At("init")
    /\ \/ InitDone /\ To("publish")
       \/ InitFails /\ To("restarted")
    /\ UNCHANGED <<controllerVars, Audio, origin, claim, token, armed, Session>>

\* The station may have come back, its teardown or the publication may fail.
PublishConfig ==
    /\ At("publish")
    /\ \/ armed' = TRUE /\ timedOut' = FALSE /\ To("idle")
       \/ UNCHANGED <<armed, timedOut>> /\ To("restarted")
    /\ UNCHANGED <<controllerVars, Audio, origin, claim, token, ble, inited, teardownFailed,
                   Session>>

\* EnsureBleAdvertisingForStandby: with a fresh token, with one still bound,
\* or over a stack that is up already.
InitStandby ==
    /\ \/ At("bound") /\ origin = "standby" /\ token' = generation
       \/ At("idle") /\ ~claimed /\ BleOff /\ token # 0 /\ UNCHANGED token
    /\ \/ InitDone /\ armed' = TRUE /\ To("idle")
       \/ InitFails /\ UNCHANGED armed /\ To("restarted")
    /\ UNCHANGED <<controllerVars, Audio, origin, claim, Session>>

RenewStandby ==
    /\ At("idle") /\ ~claimed /\ ~BleOff
    /\ armed' = TRUE /\ timedOut' = FALSE
    /\ UNCHANGED <<controllerVars, mpc, Audio, origin, claim, token, ble, inited,
                   teardownFailed, Session>>

StopBle ==
    /\ At("idle")
    /\ armed' = FALSE
    /\ IF BleOff
       THEN UNCHANGED <<ble, inited, teardownFailed>>
       ELSE DeinitDone \/ DeinitFails
    /\ UNCHANGED <<controllerVars, mpc, Audio, origin, claim, token, timedOut, Session>>

\* Neither of these two gives the token back.
SetupTimeout ==
    /\ At("idle") /\ armed
    /\ armed' = FALSE /\ timedOut' = TRUE
    /\ DeinitDone \/ DeinitFails
    /\ UNCHANGED <<controllerVars, mpc, Audio, origin, claim, token, Session>>

-----------------------------------------------------------------------------
(* CompleteSuccessfulProvisioningTeardown, scheduled with a token that was *)
(* captured earlier, or called to abort the session just bound.            *)

Teardown(t) ==
    /\ At("idle") \/ At("restarted")
    /\ t = token
    /\ claim' = t
    /\ armed' = FALSE
    /\ \/ DeinitDone /\ To("end")
       \/ DeinitFails /\ To("idle")
    /\ UNCHANGED <<controllerVars, Audio, origin, token, timedOut, Session>>

\* EndWifiProvisioningAndRearm up to the ledger.
EndProvisioning ==
    /\ At("end")
    /\ IF generation = claim /\ "provisioning" \in flags
       THEN /\ generation' = generation + 1 /\ flags' = {}
            /\ IF active = claim
               THEN /\ active' = 0 /\ restart' = FALSE
                    /\ attempt' = 1
                    /\ To(IF restart THEN "start" ELSE "consume")
               ELSE UNCHANGED <<ledgerVars, attempt>> /\ To("idle")
       ELSE UNCHANGED <<generation, flags, ledgerVars, attempt>> /\ To("idle")
    /\ UNCHANGED <<counted, sleeping, Audio, origin, claim, token, bleVars, failures>>

\* The next attempt, or the end of the last one: the token stays bound.
NextAttempt ==
    IF attempt = 1
    THEN attempt' = 2 /\ To("start")
    ELSE UNCHANGED attempt /\ To("idle")

\* StartWorkers clears all bits before it creates the tasks.
StartWorkers ==
    /\ At("start")
    /\ IF workers = "stopping"
       THEN NextAttempt /\ UNCHANGED wakeBit
       ELSE wakeBit' = FALSE /\ To("create") /\ UNCHANGED attempt
    /\ UNCHANGED <<controllerVars, taskVars, engineVars, workers, origin, ledgerVars, claim,
                   token, bleVars, failures>>

\* The last task may fail to start while the first ones run already.
CreateWorkers ==
    /\ At("create")
    /\ \/ workers' = "on" /\ UNCHANGED failures /\ To("created")
       \/ /\ failures < MaxStartFailures
          /\ workers' \in {"off", "on"} /\ failures' = failures + 1
          /\ To("rollback")
    /\ UNCHANGED <<controllerVars, taskVars, engineVars, wakeBit, origin, ledgerVars, claim,
                   attempt, token, bleVars>>

RollbackWorkerStart ==
    /\ At("rollback")
    /\ workers' = IF workers = "on" THEN "stopping" ELSE workers
    /\ wakeBit' = TRUE
    /\ To("rejoin")
    /\ UNCHANGED <<controllerVars, taskVars, engineVars, sessionVars>>

\* It waits, but goes on after a timeout too.
RejoinWorkers ==
    /\ At("rejoin")
    /\ \/ workers = "off" /\ UNCHANGED failures
       \/ /\ workers = "stopping" /\ failures < MaxStartFailures
          /\ failures' = failures + 1
    /\ NextAttempt
    /\ UNCHANGED <<controllerVars, Audio, origin, ledgerVars, claim, token, bleVars>>

Consume ==
    /\ mpc \in {"created", "consume"} /\ UNCHANGED claimed
    /\ token' = IF token = claim THEN 0 ELSE token
    /\ To("idle")
    /\ UNCHANGED <<controllerVars, Audio, origin, claim, bleVars, Session>>

-----------------------------------------------------------------------------

\* The handlers that other parts of the firmware set off.
Request ==
    \/ \E o \in {"config", "standby"} : Begin(o)
    \/ At("idle") /\ (InitStandby \/ RenewStandby \/ StopBle \/ SetupTimeout)
    \/ At("idle") /\ \E t \in 1 .. generation : Teardown(t)

\* The rest of a handler that has begun.
Continue ==
    \/ RaiseGate \/ ClearHint \/ RequestShutdown \/ Sleep
    \/ BindWorkers \/ StopWorkers \/ JoinWorkers \/ ResetEngine \/ ShutdownTimesOut
    \/ RestartForSetup \/ InitForSetup \/ PublishConfig
    \/ At("bound") /\ InitStandby
    \/ At("restarted") /\ Teardown(token)
    \/ EndProvisioning \/ StartWorkers \/ CreateWorkers \/ RollbackWorkerStart
    \/ RejoinWorkers \/ Consume

MainNext == Request \/ Continue \/ LeasesGone

TaskNext == LifecycleNext /\ UNCHANGED <<claimed, mpc, sessionVars>>

Next == MainNext \/ TaskNext

Spec == Init /\ [][Next]_vars

-----------------------------------------------------------------------------
(* Properties. *)

Places == {"idle", "heard", "check", "load", "feed", "lock", "read", "enable", "disable",
           "start", "publish", "target", "bit", "untarget", "unpublish", "unbit", "stop",
           "release", "notify"}

MainPlaces == {"idle", "raise", "hint", "shutdown", "wait", "bind", "stop", "join", "reset",
               "bound", "init", "publish", "restarted", "end", "start", "create", "created",
               "rollback", "rejoin", "consume"}

TasksOK ==
    /\ counted \subseteq Tasks /\ mutex \in Tasks \union {NoTask}
    /\ pc \in [Tasks -> Places] /\ job \in [Tasks -> {"feed", "enable", "disable", "read"}]
    /\ lease \in [Tasks -> Nat] /\ calls \in Nat

EngineOK ==
    /\ generation \in Nat \ {0} /\ flags \subseteq {"provisioning", "quiescing", "running"}
    /\ sleeping \in BOOLEAN /\ engine \in {"none", "created", "ready"}
    /\ detecting \in BOOLEAN /\ shut \in BOOLEAN /\ target \in BOOLEAN
    /\ wakeBit \in BOOLEAN /\ workers \in {"on", "stopping", "off"}

SessionOK ==
    /\ claimed \in BOOLEAN /\ mpc \in MainPlaces /\ origin \in {"config", "standby"}
    /\ active \in Nat /\ restart \in BOOLEAN /\ claim \in Nat /\ attempt \in {1, 2}
    /\ token \in Nat /\ failures \in Nat

BleOK ==
    /\ ble \in {"off", "on", "residue"} /\ inited \in BOOLEAN
    /\ teardownFailed \in BOOLEAN /\ armed \in BOOLEAN /\ timedOut \in BOOLEAN

\* Every variable is in its range, and only the event loop sleeps on the
\* condition variable, inside its wait.
TypeOK == TasksOK /\ EngineOK /\ SessionOK /\ BleOK /\ (sleeping => mpc = "wait")

\* The engine outlives its users (audio_service.cc:1156): a task that holds
\* a pointer to it and is about to use it finds it alive.  The input task has no
\* mutex, only its lease, and may have loaded the pointer long before.
Using == {"feed", "start", "publish", "target", "bit", "untarget", "unpublish", "unbit", "stop"}

EngineOutlivesUse == engine = "none" => \A t \in Tasks : pc[t] \notin Using

\* Bluetooth has the memory to itself (the reason of BeginWifiProvisioning):
\* while any layer of the stack is there, no engine exists, nothing points to
\* one, the gate lets nobody in, and the workers are off: all their handles
\* were seen cleared, unless an earlier start could not even be rolled back.
QuietUnderBle ==
    ble # "off" => /\ engine = "none" /\ ~target /\ Provisioning
                   /\ workers = "off" \/ (workers = "stopping" /\ failures >= 2)

\* The running flag, the feed pointer and the engine agree whenever the gate
\* is open and nobody is inside EnableWakeWordDetection: an enable that lost
\* against a provisioning leaves nothing behind for the next session.
\* (BeginWifiProvisioning takes the pointer away just before it raises the gate.)
PublishedTogether ==
    ~Provisioning /\ mutex = NoTask /\ mpc # "raise" =>
        /\ target <=> "running" \in flags
        /\ detecting <=> "running" \in flags

\* What provisioning stopped is running again once its token is gone and the
\* gate is open, whatever failed, was repeated or came late in between; and
\* what was not running stays off.  Two failures exhaust the retry of
\* AudioWorkerStartTransaction.
PriorAudioRestored ==
    mpc = "idle" /\ token = 0 /\ ~Provisioning /\ failures < 2 => workers = IF claimed THEN "on" ELSE "off"

\* A session bound to BluFi can give the audio back: its token is the one the
\* gate was closed with.
BoundSessionCanRestore ==
    mpc = "idle" /\ token # 0 => generation = token /\ "provisioning" \in flags

\* The controller implements the gate: no user comes in while it is
\* closing and none is inside while it is closed.
Gate == INSTANCE QuiesceGate WITH
    Users <- Tasks,
    inside <- {t \in Tasks : lease[t] # 0},
    gate <- IF ~Provisioning THEN "open"
            ELSE IF mpc \in {"hint", "shutdown", "wait"} THEN "closing" ELSE "closed"

GateRefined == Gate!Spec

\* No wake-up is lost: while the event loop sleeps on the condition variable,
\* some task is still counted, or has just given up the last count and is on its
\* way to the notification; so must be one that was refused (ReleaseLease).
SleeperIsOwedAWakeup == sleeping => \E t \in Tasks : t \in counted \/ pc[t] = "notify"
=============================================================================
