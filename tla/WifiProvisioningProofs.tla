------------------------ MODULE WifiProvisioningProofs ------------------------
(***************************************************************************)
(* Proofs about WifiProvisioning, for any set of tasks, any number of      *)
(* calls, sessions and failures.  IInv is inductive; its parts say         *)
(*   Counted, Leased, Held   what a task has at each of its places,        *)
(*   Alive                   who may hold a pointer to the engine,         *)
(*   Closed                  nobody is inside once the wait is over,       *)
(*   Phases, Ledger          what holds at each place of the event loop,   *)
(*   SessionQuiet            what a session that may run Bluetooth needs,  *)
(*   Agree                   how flag, pointer and engine differ while the *)
(*                           holder of the mutex changes them,             *)
(*   Restored                why stopped workers are still off.            *)
(***************************************************************************)
EXTENDS WifiProvisioning, TLAPS

Locked == {"read", "enable", "disable", "start", "publish", "target", "bit", "untarget",
           "unpublish", "unbit", "stop"}

Working == Locked \union {"load", "feed", "lock"}

Running == "running" \in flags

Counted == \A t \in Tasks : t \in counted <=> pc[t] \notin {"idle", "heard", "notify"}

Leased == \A t \in Tasks :
    /\ pc[t] \in Working => lease[t] # 0
    /\ lease[t] # 0 => pc[t] \in Working \union {"release"}
    /\ lease[t] # 0 /\ ~Provisioning => lease[t] = generation

Held == \A t \in Tasks :
    /\ pc[t] \in Locked <=> mutex = t
    /\ pc[t] = "lock" => job[t] # "feed"
    /\ pc[t] \in {"read", "enable", "disable"} => job[t] = pc[t]

Alive == EngineOutlivesUse /\ (target \/ shut => engine # "none")

NobodyInside == \A t \in Tasks : lease[t] = 0

Closed == Provisioning /\ mpc \notin {"hint", "shutdown", "wait"} => NobodyInside

Ending == {"start", "create", "created", "rollback", "rejoin", "consume"}

Phases ==
    /\ mpc \in {"hint", "shutdown", "wait", "bind", "stop", "join", "reset", "bound"} => Provisioning
    /\ mpc \in Ending => ~Provisioning
    /\ mpc \in Ending \union {"end"} => ble = "off" /\ claim = token
    /\ ~Provisioning => ~shut
    /\ mpc = "stop" => workers = "on"
    /\ mpc \in {"rollback", "rejoin"} => failures > 0

Ledger ==
    /\ token <= generation
    /\ mpc \in {"stop", "join", "reset", "bound"} => active = generation
    /\ token # 0 /\ token = generation /\ Provisioning => active = token
    /\ (workers # "off" \/ restart \/ mpc \in Ending \ {"consume"}) => claimed

\* The workers are off, or stuck since a start that could not be rolled back.
WorkersQuiet == workers = "off" \/ (workers = "stopping" /\ failures >= 2)

Quiesced == engine = "none" /\ ~target /\ ~detecting /\ WorkersQuiet

InSession ==
    \/ ble # "off"
    \/ mpc \in {"bound", "init", "publish"}
    \/ token # 0 /\ ~claimed /\ mpc \notin Ending
    \/ token # 0 /\ token = generation /\ Provisioning

SessionQuiet ==
    /\ InSession => Provisioning /\ NobodyInside /\ Quiesced
    /\ mpc = "reset" => WorkersQuiet
    /\ workers = "stopping" => failures >= 2 \/ active # 0 \/ mpc = "rejoin"

Midway == {"publish", "target", "bit", "unpublish", "unbit", "stop"}

Agree ==
    ~Provisioning =>
        /\ \A t \in Tasks : pc[t] \in {"untarget", "unpublish", "unbit", "stop"} => job[t] = "disable"
        /\ mpc # "raise" =>
             /\ (\A t \in Tasks : pc[t] \notin Midway) =>
                   (target <=> Running) /\ (detecting <=> Running)
             /\ \A t \in Tasks :
                  /\ pc[t] = "publish" => detecting /\ (target <=> Running)
                  /\ pc[t] = "target" => detecting /\ Running
                  /\ pc[t] = "bit" => detecting /\ Running /\ target
                  /\ pc[t] = "unpublish" => ~target /\ (detecting <=> Running)
                  /\ pc[t] \in {"unbit", "stop"} => ~target /\ ~Running

\* Workers that were stopped are recorded, being restarted, or failed twice.
Restored ==
    /\ active # 0 => Provisioning
    /\ restart => active # 0
    /\ mpc = "stop" => restart
    /\ claimed /\ failures < 2 /\ workers # "on" =>
          restart \/ mpc \in {"start", "create", "rollback", "rejoin"}
    /\ attempt = 2 /\ mpc \in {"start", "create"} => failures >= 1
    /\ attempt = 2 /\ mpc \in {"rollback", "rejoin"} => failures >= 2

IInv ==
    /\ TypeOK /\ Counted /\ Leased /\ Held /\ Alive /\ Closed
    /\ Phases /\ Ledger /\ SessionQuiet /\ Agree /\ Restored
-----------------------------------------------------------------------------
(* A step of a task. *)

\* An admitted caller holds a lease of the current generation; the gate is open.
LEMMA AdmitStep ==
    ASSUME IInv, NEW t \in Tasks, Admit(t), UNCHANGED <<claimed, mpc, sessionVars>>
    PROVE  IInv'
BY DEF IInv, Admit, Allowed, Goto, controllerVars, engineVars, sessionVars, ledgerVars, bleVars,
   Tasks, TasksOK, Places, EngineOK, SessionOK, MainPlaces, BleOK, Counted, Leased, Held, Alive,
   EngineOutlivesUse, Using, Closed, Phases, Ending, Ledger, SessionQuiet, Quiesced,
   WorkersQuiet, InSession, Agree, Midway, Running, TypeOK, Working, Locked, NobodyInside,
   Provisioning, Restored

\* A refused caller stays counted and holds no lease.
LEMMA DenyStep ==
    ASSUME IInv, NEW t \in Tasks, Deny(t), UNCHANGED <<claimed, mpc, sessionVars>>
    PROVE  IInv'
BY DEF IInv, Deny, Goto, controllerVars, engineVars, sessionVars, ledgerVars, bleVars, Tasks,
   TasksOK, Places, EngineOK, SessionOK, MainPlaces, BleOK, Counted, Leased, Held, Alive,
   EngineOutlivesUse, Using, Closed, Phases, Ending, Ledger, SessionQuiet, Quiesced,
   WorkersQuiet, InSession, Agree, Midway, Running, TypeOK, Working, Locked, NobodyInside,
   Provisioning, Restored

\* The count and the lease go together.
LEMMA ReleaseStep ==
    ASSUME IInv, NEW t \in Tasks, Release(t), UNCHANGED <<claimed, mpc, sessionVars>>
    PROVE  IInv'
BY DEF IInv, Release, Goto, engineVars, sessionVars, ledgerVars, bleVars, Tasks, TasksOK,
   Places, EngineOK, SessionOK, MainPlaces, BleOK, Counted, Leased, Held, Alive,
   EngineOutlivesUse, Using, Closed, Phases, Ending, Ledger, SessionQuiet, Quiesced,
   WorkersQuiet, InSession, Agree, Midway, Running, TypeOK, Working, Locked, NobodyInside,
   Provisioning, Restored

\* Waking the event loop changes nothing it relies on.
LEMMA NotifyStep ==
    ASSUME IInv, NEW t \in Tasks, Notify(t), UNCHANGED <<claimed, mpc, sessionVars>>
    PROVE  IInv'
<1>1. (TasksOK /\ EngineOK)'
  BY DEF IInv, Notify, Goto, engineVars, sessionVars, ledgerVars, bleVars, TypeOK, TasksOK,
     EngineOK, Places, Tasks
<1>2. (SessionOK /\ BleOK)'
  BY DEF IInv, Notify, Goto, engineVars, sessionVars, ledgerVars, bleVars, TypeOK, EngineOK,
     SessionOK, BleOK, MainPlaces
<1>3. sleeping' => mpc' = "wait"
  BY DEF IInv, Notify, Goto, engineVars, sessionVars, ledgerVars, bleVars, TypeOK, EngineOK,
     SessionOK
<1>4. (Counted /\ Leased /\ Held)'
  BY DEF IInv, Notify, Goto, engineVars, sessionVars, ledgerVars, bleVars, Counted, Leased,
     Held, Working, Locked, Provisioning
<1>5. (Alive /\ Closed)'
  BY DEF IInv, Notify, Goto, engineVars, sessionVars, ledgerVars, bleVars, Alive,
     EngineOutlivesUse, Using, Closed, NobodyInside, Provisioning
<1>6. (Phases /\ Ledger)'
  BY DEF IInv, Notify, Goto, engineVars, sessionVars, ledgerVars, bleVars, Phases, Ledger,
     Ending, Provisioning
<1>7. SessionQuiet'
  BY DEF IInv, Notify, Goto, engineVars, sessionVars, ledgerVars, bleVars, SessionQuiet,
     InSession, NobodyInside, Quiesced, WorkersQuiet, Ending, Provisioning
<1>8. Agree'
  BY DEF IInv, Notify, Goto, engineVars, sessionVars, ledgerVars, bleVars, Agree, Midway,
     Running, Provisioning
<1>9. Restored'
  BY DEF IInv, Notify, Goto, engineVars, sessionVars, ledgerVars, bleVars, Restored,
     Provisioning, TypeOK, SessionOK, EngineOK, Phases, Ledger, Ending, SessionQuiet
<1>10. QED
  BY <1>1, <1>2, <1>3, <1>4, <1>5, <1>6, <1>7, <1>8, <1>9 DEF IInv, TypeOK

\* A client comes in counted.
LEMMA CallStep ==
    ASSUME IInv, NEW t \in Tasks, Call(t), UNCHANGED <<claimed, mpc, sessionVars>>
    PROVE  IInv'
BY DEF IInv, Call, Acquire, Goto, engineVars, sessionVars, ledgerVars, bleVars, Tasks, TasksOK,
   Places, EngineOK, SessionOK, MainPlaces, BleOK, Counted, Leased, Held, Alive,
   EngineOutlivesUse, Using, Closed, Phases, Ending, Ledger, SessionQuiet, Quiesced,
   WorkersQuiet, InSession, Agree, Midway, Running, TypeOK, Working, Locked, NobodyInside,
   Provisioning, Restored

\* The mutex has one owner, at the place its call names.
LEMMA LockStep ==
    ASSUME IInv, NEW t \in Tasks, Lock(t), UNCHANGED <<claimed, mpc, sessionVars>>
    PROVE  IInv'
<1>1. TypeOK'
  BY DEF IInv, Lock, Goto, controllerVars, engineVars, sessionVars, ledgerVars, bleVars, TypeOK,
     TasksOK, EngineOK, SessionOK, BleOK, Places, MainPlaces, Tasks
<1>2. (Counted /\ Leased /\ Held)'
  BY TasksAssumption DEF IInv, Lock, Goto, controllerVars, engineVars, sessionVars, ledgerVars,
     bleVars, Counted, Leased, Held, Working, Locked, Provisioning, TypeOK, TasksOK, EngineOK,
     SessionOK, Tasks, Closed, NobodyInside, Phases, Ending
<1>3. (Alive /\ Closed)'
  BY DEF IInv, Lock, Goto, controllerVars, engineVars, sessionVars, ledgerVars, bleVars, Alive,
     EngineOutlivesUse, Using, Closed, NobodyInside, Provisioning, TypeOK, TasksOK, EngineOK,
     SessionOK, Tasks, Counted, Leased, Held, Working, Locked, Phases
<1>4. (Phases /\ Ledger)'
  BY DEF IInv, Lock, Goto, controllerVars, engineVars, sessionVars, ledgerVars, bleVars, Phases,
     Ledger, Ending, Provisioning
<1>5. SessionQuiet'
  BY DEF IInv, Lock, Goto, controllerVars, engineVars, sessionVars, ledgerVars, bleVars,
     SessionQuiet, InSession, NobodyInside, Quiesced, WorkersQuiet, Ending, Provisioning
<1>6. Agree'
  BY DEF IInv, Lock, Goto, controllerVars, engineVars, sessionVars, ledgerVars, bleVars, Agree,
     Midway, Running, Provisioning, TypeOK, TasksOK, EngineOK, SessionOK, Tasks, Held, Locked,
     Leased, Working, Phases, Ending, Closed, NobodyInside, SessionQuiet, InSession, Quiesced
<1>7. Restored'
  BY DEF IInv, Lock, Goto, controllerVars, engineVars, sessionVars, ledgerVars, bleVars,
     Restored, Provisioning, TypeOK, SessionOK, EngineOK, Phases, Ledger, Ending, SessionQuiet
<1>8. QED
  BY <1>1, <1>2, <1>3, <1>4, <1>5, <1>6, <1>7 DEF IInv

\* A reader leaves the mutex with its lease.
LEMMA ReadStep ==
    ASSUME IInv, NEW t \in Tasks, Read(t), UNCHANGED <<claimed, mpc, sessionVars>>
    PROVE  IInv'
<1>1. TypeOK'
  BY DEF IInv, Read, Return, Goto, controllerVars, engineVars, sessionVars, ledgerVars, bleVars,
     TypeOK, TasksOK, EngineOK, SessionOK, BleOK, Places, MainPlaces, Tasks
<1>2. (Counted /\ Leased /\ Held)'
  BY TasksAssumption DEF IInv, Read, Return, Goto, controllerVars, engineVars, sessionVars,
     ledgerVars, bleVars, Counted, Leased, Held, Working, Locked, Provisioning, TypeOK, TasksOK,
     EngineOK, SessionOK, Tasks, Closed, NobodyInside, Phases, Ending
<1>3. (Alive /\ Closed)'
  BY DEF IInv, Read, Return, Goto, controllerVars, engineVars, sessionVars, ledgerVars, bleVars,
     Alive, EngineOutlivesUse, Using, Closed, NobodyInside, Provisioning
<1>4. (Phases /\ Ledger)'
  BY DEF IInv, Read, Return, Goto, controllerVars, engineVars, sessionVars, ledgerVars, bleVars,
     Phases, Ledger, Ending, Provisioning
<1>5. SessionQuiet'
  BY DEF IInv, Read, Return, Goto, controllerVars, engineVars, sessionVars, ledgerVars, bleVars,
     SessionQuiet, InSession, NobodyInside, Quiesced, WorkersQuiet, Ending, Provisioning
<1>6. Agree'
  BY DEF IInv, Read, Return, Goto, controllerVars, engineVars, sessionVars, ledgerVars, bleVars,
     Agree, Midway, Running, Provisioning
<1>7. Restored'
  BY DEF IInv, Read, Return, Goto, controllerVars, engineVars, sessionVars, ledgerVars, bleVars,
     Restored, Provisioning, TypeOK, SessionOK, EngineOK, Phases, Ledger, Ending, SessionQuiet
<1>8. QED
  BY <1>1, <1>2, <1>3, <1>4, <1>5, <1>6, <1>7 DEF IInv

\* An enable that finds it running, or builds no engine, publishes nothing.
LEMMA EnableReturnsStep ==
    ASSUME IInv, NEW t \in Tasks, EnableReturns(t), UNCHANGED <<claimed, mpc, sessionVars>>
    PROVE  IInv'
<1>1. TypeOK'
  BY DEF IInv, EnableReturns, Return, Goto, controllerVars, sessionVars, ledgerVars, bleVars,
     TypeOK, TasksOK, EngineOK, SessionOK, BleOK, Places, MainPlaces, Tasks
<1>2. (Counted /\ Leased /\ Held)'
  BY TasksAssumption DEF IInv, EnableReturns, Return, Goto, controllerVars, sessionVars,
     ledgerVars, bleVars, Counted, Leased, Held, Working, Locked, Provisioning, TypeOK, TasksOK,
     EngineOK, SessionOK, Tasks, Closed, NobodyInside, Phases, Ending
<1>3. (Alive /\ Closed)'
  BY DEF IInv, EnableReturns, Return, Goto, controllerVars, sessionVars, ledgerVars, bleVars,
     Alive, EngineOutlivesUse, Using, Closed, NobodyInside, Provisioning
<1>4. (Phases /\ Ledger)'
  BY DEF IInv, EnableReturns, Return, Goto, controllerVars, sessionVars, ledgerVars, bleVars,
     Phases, Ledger, Ending, Provisioning
<1>5. SessionQuiet'
  BY DEF IInv, EnableReturns, Return, Goto, controllerVars, sessionVars, ledgerVars, bleVars,
     SessionQuiet, InSession, NobodyInside, Quiesced, WorkersQuiet, Ending, Provisioning,
     TypeOK, TasksOK, EngineOK, SessionOK, BleOK, Closed, Phases, Ledger, Leased, Working,
     Locked, Held
<1>6. Agree'
  BY DEF IInv, EnableReturns, Return, Goto, controllerVars, sessionVars, ledgerVars, bleVars,
     Agree, Midway, Running, Provisioning
<1>7. Restored'
  BY DEF IInv, EnableReturns, Return, Goto, controllerVars, sessionVars, ledgerVars, bleVars,
     Restored, Provisioning, TypeOK, SessionOK, EngineOK, Phases, Ledger, Ending, SessionQuiet
<1>8. QED
  BY <1>1, <1>2, <1>3, <1>4, <1>5, <1>6, <1>7 DEF IInv

\* An engine is there before anybody uses it.
LEMMA EnableBuildsStep ==
    ASSUME IInv, NEW t \in Tasks, EnableBuilds(t), UNCHANGED <<claimed, mpc, sessionVars>>
    PROVE  IInv'
BY DEF IInv, EnableBuilds, Proceed, Goto, controllerVars, sessionVars, ledgerVars, bleVars,
   Tasks, TasksOK, Places, EngineOK, SessionOK, MainPlaces, BleOK, Counted, Leased, Held, Alive,
   EngineOutlivesUse, Using, Closed, Phases, Ending, Ledger, SessionQuiet, Quiesced,
   WorkersQuiet, InSession, Agree, Midway, Running, TypeOK, Working, Locked, NobodyInside,
   Provisioning, Restored

\* An open gate means no shutdown was asked for: the engine does start.
LEMMA StartStep ==
    ASSUME IInv, NEW t \in Tasks, Start(t), UNCHANGED <<claimed, mpc, sessionVars>>
    PROVE  IInv'
<1>1. TypeOK'
  BY DEF IInv, Start, Proceed, Goto, controllerVars, sessionVars, ledgerVars, bleVars, TypeOK,
     TasksOK, EngineOK, SessionOK, BleOK, Places, MainPlaces, Tasks
<1>2. (Counted /\ Leased /\ Held)'
  BY DEF IInv, Start, Proceed, Goto, controllerVars, sessionVars, ledgerVars, bleVars, Counted,
     Leased, Held, Working, Locked, Provisioning
<1>3. (Alive /\ Closed)'
  BY DEF IInv, Start, Proceed, Goto, controllerVars, sessionVars, ledgerVars, bleVars, Alive,
     EngineOutlivesUse, Using, Closed, NobodyInside, Provisioning
<1>4. (Phases /\ Ledger)'
  BY DEF IInv, Start, Proceed, Goto, controllerVars, sessionVars, ledgerVars, bleVars, Phases,
     Ledger, Ending, Provisioning
<1>5. SessionQuiet'
  BY DEF IInv, Start, Proceed, Goto, controllerVars, sessionVars, ledgerVars, bleVars,
     SessionQuiet, InSession, NobodyInside, Quiesced, WorkersQuiet, Ending, Provisioning,
     TypeOK, TasksOK, EngineOK, SessionOK, BleOK, Closed, Phases, Ledger, Leased, Working,
     Locked, Held
<1>6. Agree'
  <2>1. \A u \in Tasks : u # t => pc[u] \notin Midway /\ pc'[u] = pc[u]
    BY DEF IInv, TypeOK, TasksOK, Tasks, Held, Locked, Midway, Start, Proceed, Goto,
       controllerVars
  <2>2. pc[t] = "start" /\ pc'[t] = "publish"
    BY DEF IInv, Start, Proceed, Goto, controllerVars, TypeOK, TasksOK
  <2>3. ~Provisioning => detecting'
    BY DEF IInv, Start, Proceed, Goto, controllerVars, Phases
  <2>4. UNCHANGED <<flags, generation, target, mpc, job>>
    BY DEF IInv, Start, Proceed, Goto, controllerVars
  <2>5. QED
    BY <2>1, <2>2, <2>3, <2>4 DEF IInv, Start, Proceed, Goto, controllerVars, Agree, Midway,
       Running, Provisioning, TypeOK, TasksOK, Tasks, sessionVars, ledgerVars, bleVars
<1>7. Restored'
  BY DEF IInv, Start, Proceed, Goto, controllerVars, sessionVars, ledgerVars, bleVars, Restored,
     Provisioning, TypeOK, SessionOK, EngineOK, Phases, Ledger, Ending, SessionQuiet
<1>8. QED
  BY <1>1, <1>2, <1>3, <1>4, <1>5, <1>6, <1>7 DEF IInv

\* The running flag is set only under a lease of the current generation.
LEMMA PublishStep ==
    ASSUME IInv, NEW t \in Tasks, Publish(t), UNCHANGED <<claimed, mpc, sessionVars>>
    PROVE  IInv'
<1>1. (TasksOK /\ EngineOK)'
  <2>1. TasksOK'
    BY DEF IInv, Publish, CanSetRunning, Proceed, Goto, engineVars, TypeOK, TasksOK, EngineOK,
       Places, Tasks
  <2>2. EngineOK'
    <3>1. flags' \subseteq flags \union {"running"}
      BY DEF Publish
    <3>2. UNCHANGED <<generation, sleeping, engine, detecting, shut, target, wakeBit, workers>>
      BY DEF Publish, engineVars
    <3>3. QED
      BY <3>1, <3>2 DEF IInv, TypeOK, EngineOK
  <2>3. QED
    BY <2>1, <2>2
<1>2. (SessionOK /\ BleOK)'
  BY DEF IInv, Publish, CanSetRunning, Proceed, Goto, engineVars, sessionVars, ledgerVars,
     bleVars, TypeOK, EngineOK, SessionOK, BleOK, MainPlaces
<1>3. sleeping' => mpc' = "wait"
  BY DEF IInv, Publish, CanSetRunning, Proceed, Goto, engineVars, sessionVars, ledgerVars,
     bleVars, TypeOK, EngineOK, SessionOK
<1>4. (Counted /\ Leased /\ Held)'
  BY TasksAssumption DEF IInv, Publish, CanSetRunning, Proceed, Goto, engineVars, sessionVars,
     ledgerVars, bleVars, Counted, Leased, Held, Working, Locked, Provisioning, TypeOK, TasksOK,
     EngineOK, SessionOK, Tasks, Closed, NobodyInside, Phases, Ending
<1>5. (Alive /\ Closed)'
  BY DEF IInv, Publish, CanSetRunning, Proceed, Goto, engineVars, sessionVars, ledgerVars,
     bleVars, Alive, EngineOutlivesUse, Using, Closed, NobodyInside, Provisioning
<1>6. (Phases /\ Ledger)'
  BY DEF IInv, Publish, CanSetRunning, Proceed, Goto, engineVars, sessionVars, ledgerVars,
     bleVars, Phases, Ledger, Ending, Provisioning
<1>7. SessionQuiet'
  BY DEF IInv, Publish, CanSetRunning, Proceed, Goto, engineVars, sessionVars, ledgerVars,
     bleVars, SessionQuiet, InSession, NobodyInside, Quiesced, WorkersQuiet, Ending,
     Provisioning
<1>8. Agree'
  BY DEF IInv, Publish, CanSetRunning, Proceed, Goto, engineVars, sessionVars, ledgerVars,
     bleVars, Agree, Midway, Running, Provisioning, TypeOK, TasksOK, EngineOK, SessionOK, Tasks,
     Held, Locked, Leased, Working, Phases, Ending, Closed, NobodyInside, SessionQuiet,
     InSession, Quiesced
<1>9. Restored'
  BY DEF IInv, Publish, CanSetRunning, Proceed, Goto, engineVars, sessionVars, ledgerVars,
     bleVars, Restored, Provisioning, TypeOK, SessionOK, EngineOK, Phases, Ledger, Ending,
     SessionQuiet
<1>10. QED
  BY <1>1, <1>2, <1>3, <1>4, <1>5, <1>6, <1>7, <1>8, <1>9 DEF IInv, TypeOK

\* The pointer is published under an engine that the lease keeps alive.
LEMMA StoreTargetStep ==
    ASSUME IInv, NEW t \in Tasks, StoreTarget(t), UNCHANGED <<claimed, mpc, sessionVars>>
    PROVE  IInv'
BY DEF IInv, StoreTarget, Proceed, Goto, controllerVars, sessionVars, ledgerVars, bleVars,
   Tasks, TasksOK, Places, EngineOK, SessionOK, MainPlaces, BleOK, Counted, Leased, Held, Alive,
   EngineOutlivesUse, Using, Closed, Phases, Ending, Ledger, SessionQuiet, Quiesced,
   WorkersQuiet, InSession, Agree, Midway, Running, TypeOK, Working, Locked, NobodyInside,
   Provisioning, Restored

\* The enable that sets the bit has published flag and pointer.
LEMMA SetBitStep ==
    ASSUME IInv, NEW t \in Tasks, SetBit(t), UNCHANGED <<claimed, mpc, sessionVars>>
    PROVE  IInv'
<1>1. TypeOK'
  BY DEF IInv, SetBit, Return, Goto, controllerVars, engineVars, sessionVars, ledgerVars,
     bleVars, TypeOK, TasksOK, EngineOK, SessionOK, BleOK, Places, MainPlaces, Tasks
<1>2. (Counted /\ Leased /\ Held)'
  BY TasksAssumption DEF IInv, SetBit, Return, Goto, controllerVars, engineVars, sessionVars,
     ledgerVars, bleVars, Counted, Leased, Held, Working, Locked, Provisioning, TypeOK, TasksOK,
     EngineOK, SessionOK, Tasks, Closed, NobodyInside, Phases, Ending
<1>3. (Alive /\ Closed)'
  BY DEF IInv, SetBit, Return, Goto, controllerVars, engineVars, sessionVars, ledgerVars,
     bleVars, Alive, EngineOutlivesUse, Using, Closed, NobodyInside, Provisioning
<1>4. (Phases /\ Ledger)'
  BY DEF IInv, SetBit, Return, Goto, controllerVars, engineVars, sessionVars, ledgerVars,
     bleVars, Phases, Ledger, Ending, Provisioning
<1>5. SessionQuiet'
  BY DEF IInv, SetBit, Return, Goto, controllerVars, engineVars, sessionVars, ledgerVars,
     bleVars, SessionQuiet, InSession, NobodyInside, Quiesced, WorkersQuiet, Ending,
     Provisioning
<1>6. Agree'
  BY DEF IInv, SetBit, Return, Goto, controllerVars, engineVars, sessionVars, ledgerVars,
     bleVars, Agree, Midway, Running, Provisioning
<1>7. Restored'
  BY DEF IInv, SetBit, Return, Goto, controllerVars, engineVars, sessionVars, ledgerVars,
     bleVars, Restored, Provisioning, TypeOK, SessionOK, EngineOK, Phases, Ledger, Ending,
     SessionQuiet
<1>8. QED
  BY <1>1, <1>2, <1>3, <1>4, <1>5, <1>6, <1>7 DEF IInv

\* A disable starts from an engine that agrees with its flag.
LEMMA DisableBeginsStep ==
    ASSUME IInv, NEW t \in Tasks, DisableBegins(t), UNCHANGED <<claimed, mpc, sessionVars>>
    PROVE  IInv'
<1>1. (TasksOK /\ EngineOK)'
  BY DEF IInv, DisableBegins, Proceed, Return, Goto, controllerVars, engineVars, sessionVars,
     ledgerVars, bleVars, TypeOK, TasksOK, EngineOK, Places, Tasks
<1>2. (SessionOK /\ BleOK)'
  BY DEF IInv, DisableBegins, Proceed, Return, Goto, controllerVars, engineVars, sessionVars,
     ledgerVars, bleVars, TypeOK, EngineOK, SessionOK, BleOK, MainPlaces
<1>3. sleeping' => mpc' = "wait"
  BY DEF IInv, DisableBegins, Proceed, Return, Goto, controllerVars, engineVars, sessionVars,
     ledgerVars, bleVars, TypeOK, EngineOK, SessionOK
<1>4. (Counted /\ Leased /\ Held)'
  BY TasksAssumption DEF IInv, DisableBegins, Proceed, Return, Goto, controllerVars, engineVars,
     sessionVars, ledgerVars, bleVars, Counted, Leased, Held, Working, Locked, Provisioning,
     TypeOK, TasksOK, EngineOK, SessionOK, Tasks, Closed, NobodyInside, Phases, Ending
<1>5. (Alive /\ Closed)'
  BY DEF IInv, DisableBegins, Proceed, Return, Goto, controllerVars, engineVars, sessionVars,
     ledgerVars, bleVars, Alive, EngineOutlivesUse, Using, Closed, NobodyInside, Provisioning,
     TypeOK, TasksOK, EngineOK, SessionOK, Tasks, Counted, Leased, Held, Working, Locked, Phases
<1>6. (Phases /\ Ledger)'
  BY DEF IInv, DisableBegins, Proceed, Return, Goto, controllerVars, engineVars, sessionVars,
     ledgerVars, bleVars, Phases, Ledger, Ending, Provisioning
<1>7. SessionQuiet'
  BY DEF IInv, DisableBegins, Proceed, Return, Goto, controllerVars, engineVars, sessionVars,
     ledgerVars, bleVars, SessionQuiet, InSession, NobodyInside, Quiesced, WorkersQuiet, Ending,
     Provisioning
<1>8. Agree'
  <2>1. \A u \in Tasks : u # t => pc[u] \notin Midway /\ pc'[u] = pc[u]
    BY DEF IInv, TypeOK, TasksOK, Tasks, Held, Locked, Midway, DisableBegins, Proceed, Return,
       Goto, controllerVars, engineVars
  <2>2. pc[t] = "disable" /\ job[t] = "disable" /\ pc'[t] \in {"untarget", "release"}
    BY DEF IInv, DisableBegins, Proceed, Return, Goto, controllerVars, engineVars, TypeOK,
       TasksOK, Held, Locked
  <2>3. UNCHANGED <<flags, generation, target, detecting, mpc, job>>
    BY DEF IInv, DisableBegins, Proceed, Return, Goto, controllerVars, engineVars
  <2>4. QED
    BY <2>1, <2>2, <2>3 DEF IInv, DisableBegins, Proceed, Return, Goto, controllerVars,
       engineVars, Agree, Midway, Running, Provisioning, TypeOK, TasksOK, Tasks, sessionVars,
       ledgerVars, bleVars
<1>9. Restored'
  BY DEF IInv, DisableBegins, Proceed, Return, Goto, controllerVars, engineVars, sessionVars,
     ledgerVars, bleVars, Restored, Provisioning, TypeOK, SessionOK, EngineOK, Phases, Ledger,
     Ending, SessionQuiet
<1>10. QED
  BY <1>1, <1>2, <1>3, <1>4, <1>5, <1>6, <1>7, <1>8, <1>9 DEF IInv, TypeOK

\* The pointer goes before the flag.
LEMMA ClearTargetStep ==
    ASSUME IInv, NEW t \in Tasks, ClearTarget(t), UNCHANGED <<claimed, mpc, sessionVars>>
    PROVE  IInv'
<1>1. (TasksOK /\ EngineOK)'
  BY DEF IInv, ClearTarget, Proceed, Goto, controllerVars, sessionVars, ledgerVars, bleVars,
     TypeOK, TasksOK, EngineOK, Places, Tasks
<1>2. (SessionOK /\ BleOK)'
  BY DEF IInv, ClearTarget, Proceed, Goto, controllerVars, sessionVars, ledgerVars, bleVars,
     TypeOK, EngineOK, SessionOK, BleOK, MainPlaces
<1>3. sleeping' => mpc' = "wait"
  BY DEF IInv, ClearTarget, Proceed, Goto, controllerVars, sessionVars, ledgerVars, bleVars,
     TypeOK, EngineOK, SessionOK
<1>4. (Counted /\ Leased /\ Held)'
  BY DEF IInv, ClearTarget, Proceed, Goto, controllerVars, sessionVars, ledgerVars, bleVars,
     Counted, Leased, Held, Working, Locked, Provisioning
<1>5. (Alive /\ Closed)'
  BY DEF IInv, ClearTarget, Proceed, Goto, controllerVars, sessionVars, ledgerVars, bleVars,
     Alive, EngineOutlivesUse, Using, Closed, NobodyInside, Provisioning
<1>6. (Phases /\ Ledger)'
  BY DEF IInv, ClearTarget, Proceed, Goto, controllerVars, sessionVars, ledgerVars, bleVars,
     Phases, Ledger, Ending, Provisioning
<1>7. SessionQuiet'
  BY DEF IInv, ClearTarget, Proceed, Goto, controllerVars, sessionVars, ledgerVars, bleVars,
     SessionQuiet, InSession, NobodyInside, Quiesced, WorkersQuiet, Ending, Provisioning
<1>8. Agree'
  BY DEF IInv, ClearTarget, Proceed, Goto, controllerVars, sessionVars, ledgerVars, bleVars,
     Agree, Midway, Running, Provisioning, TypeOK, TasksOK, EngineOK, SessionOK, Tasks, Held,
     Locked, Leased, Working, Phases, Ending, Closed, NobodyInside, SessionQuiet, InSession,
     Quiesced
<1>9. Restored'
  BY DEF IInv, ClearTarget, Proceed, Goto, controllerVars, sessionVars, ledgerVars, bleVars,
     Restored, Provisioning, TypeOK, SessionOK, EngineOK, Phases, Ledger, Ending, SessionQuiet
<1>10. QED
  BY <1>1, <1>2, <1>3, <1>4, <1>5, <1>6, <1>7, <1>8, <1>9 DEF IInv, TypeOK

\* While the gate is open the lease is current, so the flag does go.
LEMMA UnpublishStep ==
    ASSUME IInv, NEW t \in Tasks, Unpublish(t), UNCHANGED <<claimed, mpc, sessionVars>>
    PROVE  IInv'
<1>1. TypeOK'
  BY DEF IInv, Unpublish, CanSetRunning, Proceed, Goto, engineVars, sessionVars, ledgerVars,
     bleVars, TypeOK, TasksOK, EngineOK, SessionOK, BleOK, Places, MainPlaces, Tasks
<1>2. (Counted /\ Leased /\ Held)'
  BY DEF IInv, Unpublish, CanSetRunning, Proceed, Goto, engineVars, sessionVars, ledgerVars,
     bleVars, Counted, Leased, Held, Working, Locked, Provisioning
<1>3. (Alive /\ Closed)'
  BY DEF IInv, Unpublish, CanSetRunning, Proceed, Goto, engineVars, sessionVars, ledgerVars,
     bleVars, Alive, EngineOutlivesUse, Using, Closed, NobodyInside, Provisioning
<1>4. (Phases /\ Ledger)'
  BY DEF IInv, Unpublish, CanSetRunning, Proceed, Goto, engineVars, sessionVars, ledgerVars,
     bleVars, Phases, Ledger, Ending, Provisioning
<1>5. SessionQuiet'
  BY DEF IInv, Unpublish, CanSetRunning, Proceed, Goto, engineVars, sessionVars, ledgerVars,
     bleVars, SessionQuiet, InSession, NobodyInside, Quiesced, WorkersQuiet, Ending,
     Provisioning
<1>6. Agree'
  <2>1. \A u \in Tasks : u # t => pc[u] \notin Midway /\ pc'[u] = pc[u]
    BY DEF IInv, TypeOK, TasksOK, Tasks, Held, Locked, Midway, Unpublish, CanSetRunning,
       Proceed, Goto, engineVars
  <2>2. pc[t] = "unpublish" /\ pc'[t] = "unbit"
    BY DEF IInv, Unpublish, CanSetRunning, Proceed, Goto, engineVars, TypeOK, TasksOK
  <2>3. Provisioning' <=> Provisioning
    BY DEF IInv, Unpublish, CanSetRunning, Proceed, Goto, engineVars, Provisioning
  <2>4. ~Provisioning => ~Running'
    BY DEF IInv, Unpublish, CanSetRunning, Proceed, Goto, engineVars, Leased, Working, Locked,
       Running, Provisioning
  <2>5. UNCHANGED <<generation, target, detecting, mpc, job>>
    BY DEF IInv, Unpublish, CanSetRunning, Proceed, Goto, engineVars
  <2>6. QED
    BY <2>1, <2>2, <2>3, <2>4, <2>5 DEF IInv, Unpublish, CanSetRunning, Proceed, Goto,
       engineVars, Agree, Midway, Running, Provisioning, TypeOK, TasksOK, Tasks, sessionVars,
       ledgerVars, bleVars
<1>7. Restored'
  BY DEF IInv, Unpublish, CanSetRunning, Proceed, Goto, engineVars, sessionVars, ledgerVars,
     bleVars, Restored, Provisioning, TypeOK, SessionOK, EngineOK, Phases, Ledger, Ending,
     SessionQuiet
<1>8. QED
  BY <1>1, <1>2, <1>3, <1>4, <1>5, <1>6, <1>7 DEF IInv

\* The bit is no part of the invariant.
LEMMA ClearBitStep ==
    ASSUME IInv, NEW t \in Tasks, ClearBit(t), UNCHANGED <<claimed, mpc, sessionVars>>
    PROVE  IInv'
<1>1. (TasksOK /\ EngineOK)'
  BY DEF IInv, ClearBit, Proceed, Goto, controllerVars, engineVars, sessionVars, ledgerVars,
     bleVars, TypeOK, TasksOK, EngineOK, Places, Tasks
<1>2. (SessionOK /\ BleOK)'
  BY DEF IInv, ClearBit, Proceed, Goto, controllerVars, engineVars, sessionVars, ledgerVars,
     bleVars, TypeOK, EngineOK, SessionOK, BleOK, MainPlaces
<1>3. sleeping' => mpc' = "wait"
  BY DEF IInv, ClearBit, Proceed, Goto, controllerVars, engineVars, sessionVars, ledgerVars,
     bleVars, TypeOK, EngineOK, SessionOK
<1>4. (Counted /\ Leased /\ Held)'
  BY DEF IInv, ClearBit, Proceed, Goto, controllerVars, engineVars, sessionVars, ledgerVars,
     bleVars, Counted, Leased, Held, Working, Locked, Provisioning
<1>5. (Alive /\ Closed)'
  BY DEF IInv, ClearBit, Proceed, Goto, controllerVars, engineVars, sessionVars, ledgerVars,
     bleVars, Alive, EngineOutlivesUse, Using, Closed, NobodyInside, Provisioning
<1>6. (Phases /\ Ledger)'
  BY DEF IInv, ClearBit, Proceed, Goto, controllerVars, engineVars, sessionVars, ledgerVars,
     bleVars, Phases, Ledger, Ending, Provisioning
<1>7. SessionQuiet'
  BY DEF IInv, ClearBit, Proceed, Goto, controllerVars, engineVars, sessionVars, ledgerVars,
     bleVars, SessionQuiet, InSession, NobodyInside, Quiesced, WorkersQuiet, Ending,
     Provisioning
<1>8. Agree'
  BY DEF IInv, ClearBit, Proceed, Goto, controllerVars, engineVars, sessionVars, ledgerVars,
     bleVars, Agree, Midway, Running, Provisioning
<1>9. Restored'
  BY DEF IInv, ClearBit, Proceed, Goto, controllerVars, engineVars, sessionVars, ledgerVars,
     bleVars, Restored, Provisioning, TypeOK, SessionOK, EngineOK, Phases, Ledger, Ending,
     SessionQuiet
<1>10. QED
  BY <1>1, <1>2, <1>3, <1>4, <1>5, <1>6, <1>7, <1>8, <1>9 DEF IInv, TypeOK

\* The engine stops last.
LEMMA StopStep ==
    ASSUME IInv, NEW t \in Tasks, Stop(t), UNCHANGED <<claimed, mpc, sessionVars>>
    PROVE  IInv'
<1>1. (TasksOK /\ EngineOK)'
  BY DEF IInv, Stop, Return, Goto, controllerVars, sessionVars, ledgerVars, bleVars, TypeOK,
     TasksOK, EngineOK, Places, Tasks
<1>2. (SessionOK /\ BleOK)'
  BY DEF IInv, Stop, Return, Goto, controllerVars, sessionVars, ledgerVars, bleVars, TypeOK,
     EngineOK, SessionOK, BleOK, MainPlaces
<1>3. sleeping' => mpc' = "wait"
  BY DEF IInv, Stop, Return, Goto, controllerVars, sessionVars, ledgerVars, bleVars, TypeOK,
     EngineOK, SessionOK
<1>4. (Counted /\ Leased /\ Held)'
  BY TasksAssumption DEF IInv, Stop, Return, Goto, controllerVars, sessionVars, ledgerVars,
     bleVars, Counted, Leased, Held, Working, Locked, Provisioning, TypeOK, TasksOK, EngineOK,
     SessionOK, Tasks, Closed, NobodyInside, Phases, Ending
<1>5. (Alive /\ Closed)'
  BY DEF IInv, Stop, Return, Goto, controllerVars, sessionVars, ledgerVars, bleVars, Alive,
     EngineOutlivesUse, Using, Closed, NobodyInside, Provisioning
<1>6. (Phases /\ Ledger)'
  BY DEF IInv, Stop, Return, Goto, controllerVars, sessionVars, ledgerVars, bleVars, Phases,
     Ledger, Ending, Provisioning
<1>7. SessionQuiet'
  BY DEF IInv, Stop, Return, Goto, controllerVars, sessionVars, ledgerVars, bleVars,
     SessionQuiet, InSession, NobodyInside, Quiesced, WorkersQuiet, Ending, Provisioning
<1>8. Agree'
  BY DEF IInv, Stop, Return, Goto, controllerVars, sessionVars, ledgerVars, bleVars, Agree,
     Midway, Running, Provisioning, TypeOK, TasksOK, EngineOK, SessionOK, Tasks, Held, Locked,
     Leased, Working, Phases, Ending, Closed, NobodyInside, SessionQuiet, InSession, Quiesced
<1>9. Restored'
  BY DEF IInv, Stop, Return, Goto, controllerVars, sessionVars, ledgerVars, bleVars, Restored,
     Provisioning, TypeOK, SessionOK, EngineOK, Phases, Ledger, Ending, SessionQuiet
<1>10. QED
  BY <1>1, <1>2, <1>3, <1>4, <1>5, <1>6, <1>7, <1>8, <1>9 DEF IInv, TypeOK

\* The input task wakes without a lease.
LEMMA InputWakesStep ==
    ASSUME IInv, InputWakes, UNCHANGED <<claimed, mpc, sessionVars>>
    PROVE  IInv'
BY DEF IInv, InputWakes, Goto, controllerVars, engineVars, sessionVars, ledgerVars, bleVars,
   Tasks, TasksOK, Places, EngineOK, SessionOK, MainPlaces, BleOK, Counted, Leased, Held, Alive,
   EngineOutlivesUse, Using, Closed, Phases, Ending, Ledger, SessionQuiet, Quiesced,
   WorkersQuiet, InSession, Agree, Midway, Running, TypeOK, Working, Locked, NobodyInside,
   Provisioning, Restored

\* The feed comes in counted.
LEMMA FeedWakeWordStep ==
    ASSUME IInv, FeedWakeWord, UNCHANGED <<claimed, mpc, sessionVars>>
    PROVE  IInv'
BY DEF IInv, FeedWakeWord, Acquire, Goto, engineVars, sessionVars, ledgerVars, bleVars, Tasks,
   TasksOK, Places, EngineOK, SessionOK, MainPlaces, BleOK, Counted, Leased, Held, Alive,
   EngineOutlivesUse, Using, Closed, Phases, Ending, Ledger, SessionQuiet, Quiesced,
   WorkersQuiet, InSession, Agree, Midway, Running, TypeOK, Working, Locked, NobodyInside,
   Provisioning, Restored

\* A pointer that is loaded is one to a live engine.
LEMMA LoadTargetStep ==
    ASSUME IInv, LoadTarget, UNCHANGED <<claimed, mpc, sessionVars>>
    PROVE  IInv'
BY DEF IInv, LoadTarget, Goto, controllerVars, engineVars, sessionVars, ledgerVars, bleVars,
   Tasks, TasksOK, Places, EngineOK, SessionOK, MainPlaces, BleOK, Counted, Leased, Held, Alive,
   EngineOutlivesUse, Using, Closed, Phases, Ending, Ledger, SessionQuiet, Quiesced,
   WorkersQuiet, InSession, Agree, Midway, Running, TypeOK, Working, Locked, NobodyInside,
   Provisioning, Restored

\* The feed gives its lease back.
LEMMA FeedStep ==
    ASSUME IInv, Feed, UNCHANGED <<claimed, mpc, sessionVars>>
    PROVE  IInv'
BY DEF IInv, Feed, Goto, controllerVars, engineVars, sessionVars, ledgerVars, bleVars, Tasks,
   TasksOK, Places, EngineOK, SessionOK, MainPlaces, BleOK, Counted, Leased, Held, Alive,
   EngineOutlivesUse, Using, Closed, Phases, Ending, Ledger, SessionQuiet, Quiesced,
   WorkersQuiet, InSession, Agree, Midway, Running, TypeOK, Working, Locked, NobodyInside,
   Provisioning, Restored

\* The workers only go off when they were asked to.
LEMMA WorkersExitStep ==
    ASSUME IInv, WorkersExit, UNCHANGED <<claimed, mpc, sessionVars>>
    PROVE  IInv'
BY DEF IInv, WorkersExit, controllerVars, taskVars, engineVars, sessionVars, ledgerVars,
   bleVars, Tasks, TasksOK, Places, EngineOK, SessionOK, MainPlaces, BleOK, Counted, Leased,
   Held, Alive, EngineOutlivesUse, Using, Closed, Phases, Ending, Ledger, SessionQuiet,
   Quiesced, WorkersQuiet, InSession, Agree, Midway, Running, TypeOK, Working, Locked,
   NobodyInside, Provisioning, Restored

-----------------------------------------------------------------------------
(* A step of the event loop. *)

\* The pointer goes before the gate is raised.
LEMMA BeginStep ==
    ASSUME IInv, NEW o \in {"config", "standby"}, Begin(o)
    PROVE  IInv'
<1>1. (TasksOK /\ EngineOK)'
  BY DEF IInv, Begin, At, To, controllerVars, taskVars, ledgerVars, bleVars, TypeOK, TasksOK,
     EngineOK, Places, Tasks
<1>2. (SessionOK /\ BleOK)'
  BY DEF IInv, Begin, At, To, controllerVars, taskVars, ledgerVars, bleVars, TypeOK, EngineOK,
     SessionOK, BleOK, MainPlaces
<1>3. sleeping' => mpc' = "wait"
  BY DEF IInv, Begin, At, To, controllerVars, taskVars, ledgerVars, bleVars, TypeOK, EngineOK,
     SessionOK
<1>4. (Counted /\ Leased /\ Held)'
  BY DEF IInv, Begin, At, To, controllerVars, taskVars, ledgerVars, bleVars, Counted, Leased,
     Held, Working, Locked, Provisioning
<1>5. (Alive /\ Closed)'
  BY DEF IInv, Begin, At, To, controllerVars, taskVars, ledgerVars, bleVars, Alive,
     EngineOutlivesUse, Using, Closed, NobodyInside, Provisioning
<1>6. (Phases /\ Ledger)'
  BY DEF IInv, Begin, At, To, controllerVars, taskVars, ledgerVars, bleVars, Phases, Ledger,
     Ending, Provisioning
<1>7. SessionQuiet'
  BY DEF IInv, Begin, At, To, controllerVars, taskVars, ledgerVars, bleVars, SessionQuiet,
     InSession, NobodyInside, Quiesced, WorkersQuiet, Ending, Provisioning
<1>8. Agree'
  BY DEF IInv, Begin, At, To, controllerVars, taskVars, ledgerVars, bleVars, Agree, Midway,
     Running, Provisioning
<1>9. Restored'
  BY DEF IInv, Begin, At, To, controllerVars, taskVars, ledgerVars, bleVars, Restored,
     Provisioning, TypeOK, SessionOK, EngineOK, Phases, Ledger, Ending, SessionQuiet
<1>10. QED
  BY <1>1, <1>2, <1>3, <1>4, <1>5, <1>6, <1>7, <1>8, <1>9 DEF IInv, TypeOK

\* A new generation outdates every lease and every bound token.
LEMMA RaiseGateStep ==
    ASSUME IInv, RaiseGate
    PROVE  IInv'
BY DEF IInv, RaiseGate, At, To, Audio, taskVars, engineVars, sessionVars, ledgerVars, bleVars,
   TasksOK, Places, Tasks, EngineOK, SessionOK, MainPlaces, BleOK, Counted, Leased, Held, Alive,
   EngineOutlivesUse, Using, Closed, Phases, Ending, Ledger, SessionQuiet, Quiesced,
   WorkersQuiet, InSession, Agree, Midway, Running, TypeOK, Working, Locked, NobodyInside,
   Provisioning, Restored

\* The bit is no part of the invariant.
LEMMA ClearHintStep ==
    ASSUME IInv, ClearHint
    PROVE  IInv'
<1>1. (TasksOK /\ EngineOK)'
  BY DEF IInv, ClearHint, At, To, controllerVars, taskVars, engineVars, sessionVars, ledgerVars,
     bleVars, TypeOK, TasksOK, EngineOK, Places, Tasks
<1>2. (SessionOK /\ BleOK)'
  BY DEF IInv, ClearHint, At, To, controllerVars, taskVars, engineVars, sessionVars, ledgerVars,
     bleVars, TypeOK, EngineOK, SessionOK, BleOK, MainPlaces
<1>3. sleeping' => mpc' = "wait"
  BY DEF IInv, ClearHint, At, To, controllerVars, taskVars, engineVars, sessionVars, ledgerVars,
     bleVars, TypeOK, EngineOK, SessionOK
<1>4. (Counted /\ Leased /\ Held)'
  BY DEF IInv, ClearHint, At, To, controllerVars, taskVars, engineVars, sessionVars, ledgerVars,
     bleVars, Counted, Leased, Held, Working, Locked, Provisioning
<1>5. (Alive /\ Closed)'
  BY DEF IInv, ClearHint, At, To, controllerVars, taskVars, engineVars, sessionVars, ledgerVars,
     bleVars, Alive, EngineOutlivesUse, Using, Closed, NobodyInside, Provisioning
<1>6. (Phases /\ Ledger)'
  BY DEF IInv, ClearHint, At, To, controllerVars, taskVars, engineVars, sessionVars, ledgerVars,
     bleVars, Phases, Ledger, Ending, Provisioning
<1>7. SessionQuiet'
  BY DEF IInv, ClearHint, At, To, controllerVars, taskVars, engineVars, sessionVars, ledgerVars,
     bleVars, SessionQuiet, InSession, NobodyInside, Quiesced, WorkersQuiet, Ending,
     Provisioning
<1>8. Agree'
  BY DEF IInv, ClearHint, At, To, controllerVars, taskVars, engineVars, sessionVars, ledgerVars,
     bleVars, Agree, Midway, Running, Provisioning
<1>9. Restored'
  BY DEF IInv, ClearHint, At, To, controllerVars, taskVars, engineVars, sessionVars, ledgerVars,
     bleVars, Restored, Provisioning, TypeOK, SessionOK, EngineOK, Phases, Ledger, Ending,
     SessionQuiet
<1>10. QED
  BY <1>1, <1>2, <1>3, <1>4, <1>5, <1>6, <1>7, <1>8, <1>9 DEF IInv, TypeOK

\* The gate is closed when the engine is asked to shut down.
LEMMA RequestShutdownStep ==
    ASSUME IInv, RequestShutdown
    PROVE  IInv'
<1>1. (TasksOK /\ EngineOK)'
  BY DEF IInv, RequestShutdown, At, To, controllerVars, taskVars, sessionVars, ledgerVars,
     bleVars, TypeOK, TasksOK, EngineOK, Places, Tasks
<1>2. (SessionOK /\ BleOK)'
  BY DEF IInv, RequestShutdown, At, To, controllerVars, taskVars, sessionVars, ledgerVars,
     bleVars, TypeOK, EngineOK, SessionOK, BleOK, MainPlaces
<1>3. sleeping' => mpc' = "wait"
  BY DEF IInv, RequestShutdown, At, To, controllerVars, taskVars, sessionVars, ledgerVars,
     bleVars, TypeOK, EngineOK, SessionOK
<1>4. (Counted /\ Leased /\ Held)'
  BY DEF IInv, RequestShutdown, At, To, controllerVars, taskVars, sessionVars, ledgerVars,
     bleVars, Counted, Leased, Held, Working, Locked, Provisioning
<1>5. (Alive /\ Closed)'
  BY DEF IInv, RequestShutdown, At, To, controllerVars, taskVars, sessionVars, ledgerVars,
     bleVars, Alive, EngineOutlivesUse, Using, Closed, NobodyInside, Provisioning
<1>6. (Phases /\ Ledger)'
  BY DEF IInv, RequestShutdown, At, To, controllerVars, taskVars, sessionVars, ledgerVars,
     bleVars, Phases, Ledger, Ending, Provisioning
<1>7. SessionQuiet'
  BY DEF IInv, RequestShutdown, At, To, controllerVars, taskVars, sessionVars, ledgerVars,
     bleVars, SessionQuiet, InSession, NobodyInside, Quiesced, WorkersQuiet, Ending,
     Provisioning
<1>8. Agree'
  BY DEF IInv, RequestShutdown, At, To, controllerVars, taskVars, sessionVars, ledgerVars,
     bleVars, Agree, Midway, Running, Provisioning, TypeOK, TasksOK, EngineOK, SessionOK, Tasks,
     Held, Locked, Leased, Working, Phases, Ending, Closed, NobodyInside, SessionQuiet,
     InSession, Quiesced
<1>9. Restored'
  BY DEF IInv, RequestShutdown, At, To, controllerVars, taskVars, sessionVars, ledgerVars,
     bleVars, Restored, Provisioning, TypeOK, SessionOK, EngineOK, Phases, Ledger, Ending,
     SessionQuiet
<1>10. QED
  BY <1>1, <1>2, <1>3, <1>4, <1>5, <1>6, <1>7, <1>8, <1>9 DEF IInv, TypeOK

\* A count of zero means that nobody is inside.
LEMMA LeasesGoneStep ==
    ASSUME IInv, LeasesGone
    PROVE  IInv'
BY DEF IInv, LeasesGone, At, To, controllerVars, Audio, taskVars, engineVars, sessionVars,
   ledgerVars, bleVars, TasksOK, Places, Tasks, EngineOK, SessionOK, MainPlaces, BleOK, Counted,
   Leased, Held, Alive, EngineOutlivesUse, Using, Closed, Phases, Ending, Ledger, SessionQuiet,
   Quiesced, WorkersQuiet, InSession, Agree, Midway, Running, TypeOK, Working, Locked,
   NobodyInside, Provisioning, Restored

\* The event loop sleeps inside its wait only.
LEMMA SleepStep ==
    ASSUME IInv, Sleep
    PROVE  IInv'
BY DEF IInv, Sleep, At, Audio, taskVars, engineVars, sessionVars, ledgerVars, bleVars, TasksOK,
   Places, Tasks, EngineOK, SessionOK, MainPlaces, BleOK, Counted, Leased, Held, Alive,
   EngineOutlivesUse, Using, Closed, Phases, Ending, Ledger, SessionQuiet, Quiesced,
   WorkersQuiet, InSession, Agree, Midway, Running, TypeOK, Working, Locked, NobodyInside,
   Provisioning, Restored

\* The ledger takes the new generation only if it is free.
LEMMA BindWorkersStep ==
    ASSUME IInv, BindWorkers
    PROVE  IInv'
BY DEF IInv, BindWorkers, At, To, controllerVars, Audio, taskVars, engineVars, ledgerVars,
   bleVars, TasksOK, Places, Tasks, EngineOK, SessionOK, MainPlaces, BleOK, Counted, Leased,
   Held, Alive, EngineOutlivesUse, Using, Closed, Phases, Ending, Ledger, SessionQuiet,
   Quiesced, WorkersQuiet, InSession, Agree, Midway, Running, TypeOK, Working, Locked,
   NobodyInside, Provisioning, Restored

\* Workers are stopped after they were recorded.
LEMMA StopWorkersStep ==
    ASSUME IInv, StopWorkers
    PROVE  IInv'
BY DEF IInv, StopWorkers, At, To, controllerVars, taskVars, engineVars, sessionVars, ledgerVars,
   bleVars, TasksOK, Places, Tasks, EngineOK, SessionOK, MainPlaces, BleOK, Counted, Leased,
   Held, Alive, EngineOutlivesUse, Using, Closed, Phases, Ending, Ledger, SessionQuiet,
   Quiesced, WorkersQuiet, InSession, Agree, Midway, Running, TypeOK, Working, Locked,
   NobodyInside, Provisioning, Restored

\* The engine is reset only once the workers are quiet.
LEMMA JoinWorkersStep ==
    ASSUME IInv, JoinWorkers
    PROVE  IInv'
BY DEF IInv, JoinWorkers, At, To, controllerVars, Audio, taskVars, engineVars, sessionVars,
   ledgerVars, bleVars, TasksOK, Places, Tasks, EngineOK, SessionOK, MainPlaces, BleOK, Counted,
   Leased, Held, Alive, EngineOutlivesUse, Using, Closed, Phases, Ending, Ledger, SessionQuiet,
   Quiesced, WorkersQuiet, InSession, Agree, Midway, Running, TypeOK, Working, Locked,
   NobodyInside, Provisioning, Restored

\* Nobody is inside when the engine goes.
LEMMA ResetEngineStep ==
    ASSUME IInv, ResetEngine
    PROVE  IInv'
<1>1. (TasksOK /\ EngineOK)'
  BY DEF IInv, ResetEngine, At, To, taskVars, sessionVars, ledgerVars, bleVars, TypeOK, TasksOK,
     EngineOK, Places, Tasks
<1>2. (SessionOK /\ BleOK)'
  BY DEF IInv, ResetEngine, At, To, taskVars, sessionVars, ledgerVars, bleVars, TypeOK,
     EngineOK, SessionOK, BleOK, MainPlaces
<1>3. sleeping' => mpc' = "wait"
  BY DEF IInv, ResetEngine, At, To, taskVars, sessionVars, ledgerVars, bleVars, TypeOK,
     EngineOK, SessionOK
<1>4. (Counted /\ Leased /\ Held)'
  BY DEF IInv, ResetEngine, At, To, taskVars, sessionVars, ledgerVars, bleVars, Counted, Leased,
     Held, Working, Locked, Provisioning
<1>5. (Alive /\ Closed)'
  BY DEF IInv, ResetEngine, At, To, taskVars, sessionVars, ledgerVars, bleVars, Alive,
     EngineOutlivesUse, Using, Closed, NobodyInside, Provisioning, TypeOK, TasksOK, EngineOK,
     SessionOK, Tasks, Counted, Leased, Held, Working, Locked, Phases
<1>6. (Phases /\ Ledger)'
  BY DEF IInv, ResetEngine, At, To, taskVars, sessionVars, ledgerVars, bleVars, Phases, Ledger,
     Ending, Provisioning
<1>7. SessionQuiet'
  BY DEF IInv, ResetEngine, At, To, taskVars, sessionVars, ledgerVars, bleVars, SessionQuiet,
     InSession, NobodyInside, Quiesced, WorkersQuiet, Ending, Provisioning, TypeOK, TasksOK,
     EngineOK, SessionOK, BleOK, Closed, Phases, Ledger, Leased, Working, Locked, Held
<1>8. Agree'
  BY DEF IInv, ResetEngine, At, To, taskVars, sessionVars, ledgerVars, bleVars, Agree, Midway,
     Running, Provisioning
<1>9. Restored'
  BY DEF IInv, ResetEngine, At, To, taskVars, sessionVars, ledgerVars, bleVars, Restored,
     Provisioning, TypeOK, SessionOK, EngineOK, Phases, Ledger, Ending, SessionQuiet
<1>10. QED
  BY <1>1, <1>2, <1>3, <1>4, <1>5, <1>6, <1>7, <1>8, <1>9 DEF IInv, TypeOK

\* An engine that does not shut down stays, stopped.
LEMMA ShutdownTimesOutStep ==
    ASSUME IInv, ShutdownTimesOut
    PROVE  IInv'
<1>1. (TasksOK /\ EngineOK)'
  BY DEF IInv, ShutdownTimesOut, At, To, controllerVars, taskVars, sessionVars, ledgerVars,
     bleVars, TypeOK, TasksOK, EngineOK, Places, Tasks
<1>2. (SessionOK /\ BleOK)'
  BY DEF IInv, ShutdownTimesOut, At, To, controllerVars, taskVars, sessionVars, ledgerVars,
     bleVars, TypeOK, EngineOK, SessionOK, BleOK, MainPlaces
<1>3. sleeping' => mpc' = "wait"
  BY DEF IInv, ShutdownTimesOut, At, To, controllerVars, taskVars, sessionVars, ledgerVars,
     bleVars, TypeOK, EngineOK, SessionOK
<1>4. (Counted /\ Leased /\ Held)'
  BY DEF IInv, ShutdownTimesOut, At, To, controllerVars, taskVars, sessionVars, ledgerVars,
     bleVars, Counted, Leased, Held, Working, Locked, Provisioning
<1>5. (Alive /\ Closed)'
  BY DEF IInv, ShutdownTimesOut, At, To, controllerVars, taskVars, sessionVars, ledgerVars,
     bleVars, Alive, EngineOutlivesUse, Using, Closed, NobodyInside, Provisioning
<1>6. (Phases /\ Ledger)'
  BY DEF IInv, ShutdownTimesOut, At, To, controllerVars, taskVars, sessionVars, ledgerVars,
     bleVars, Phases, Ledger, Ending, Provisioning
<1>7. SessionQuiet'
  BY DEF IInv, ShutdownTimesOut, At, To, controllerVars, taskVars, sessionVars, ledgerVars,
     bleVars, SessionQuiet, InSession, NobodyInside, Quiesced, WorkersQuiet, Ending,
     Provisioning
<1>8. Agree'
  BY DEF IInv, ShutdownTimesOut, At, To, controllerVars, taskVars, sessionVars, ledgerVars,
     bleVars, Agree, Midway, Running, Provisioning, TypeOK, TasksOK, EngineOK, SessionOK, Tasks,
     Held, Locked, Leased, Working, Phases, Ending, Closed, NobodyInside, SessionQuiet,
     InSession, Quiesced
<1>9. Restored'
  BY DEF IInv, ShutdownTimesOut, At, To, controllerVars, taskVars, sessionVars, ledgerVars,
     bleVars, Restored, Provisioning, TypeOK, SessionOK, EngineOK, Phases, Ledger, Ending,
     SessionQuiet
<1>10. QED
  BY <1>1, <1>2, <1>3, <1>4, <1>5, <1>6, <1>7, <1>8, <1>9 DEF IInv, TypeOK

\* The token is bound to a session that is quiet.
LEMMA RestartForSetupStep ==
    ASSUME IInv, RestartForSetup
    PROVE  IInv'
<1>1. (TasksOK /\ EngineOK)'
  BY DEF IInv, RestartForSetup, DeinitDone, DeinitFails, At, To, Session, controllerVars, Audio,
     taskVars, engineVars, ledgerVars, bleVars, TypeOK, TasksOK, EngineOK, Places, Tasks
<1>2. (SessionOK /\ BleOK)'
  BY DEF IInv, RestartForSetup, DeinitDone, DeinitFails, At, To, Session, controllerVars, Audio,
     taskVars, engineVars, ledgerVars, bleVars, TypeOK, EngineOK, SessionOK, BleOK, MainPlaces
<1>3. sleeping' => mpc' = "wait"
  BY DEF IInv, RestartForSetup, DeinitDone, DeinitFails, At, To, Session, controllerVars, Audio,
     taskVars, engineVars, ledgerVars, bleVars, TypeOK, EngineOK, SessionOK
<1>4. (Counted /\ Leased /\ Held)'
  BY DEF IInv, RestartForSetup, DeinitDone, DeinitFails, At, To, Session, controllerVars, Audio,
     taskVars, engineVars, ledgerVars, bleVars, Counted, Leased, Held, Working, Locked,
     Provisioning
<1>5. (Alive /\ Closed)'
  BY DEF IInv, RestartForSetup, DeinitDone, DeinitFails, At, To, Session, controllerVars, Audio,
     taskVars, engineVars, ledgerVars, bleVars, Alive, EngineOutlivesUse, Using, Closed,
     NobodyInside, Provisioning
<1>6. (Phases /\ Ledger)'
  BY DEF IInv, RestartForSetup, DeinitDone, DeinitFails, At, To, Session, controllerVars, Audio,
     taskVars, engineVars, ledgerVars, bleVars, Phases, Ledger, Ending, Provisioning, TypeOK,
     EngineOK, SessionOK, BleOK, SessionQuiet, InSession, NobodyInside, Quiesced, WorkersQuiet
<1>7. SessionQuiet'
  BY DEF IInv, RestartForSetup, DeinitDone, DeinitFails, At, To, Session, controllerVars, Audio,
     taskVars, engineVars, ledgerVars, bleVars, SessionQuiet, InSession, NobodyInside, Quiesced,
     WorkersQuiet, Ending, Provisioning
<1>8. Agree'
  BY DEF IInv, RestartForSetup, DeinitDone, DeinitFails, At, To, Session, controllerVars, Audio,
     taskVars, engineVars, ledgerVars, bleVars, Agree, Midway, Running, Provisioning
<1>9. Restored'
  BY DEF IInv, RestartForSetup, DeinitDone, DeinitFails, At, To, Session, controllerVars, Audio,
     taskVars, engineVars, ledgerVars, bleVars, Restored, Provisioning, TypeOK, SessionOK,
     EngineOK, Phases, Ledger, Ending, SessionQuiet
<1>10. QED
  BY <1>1, <1>2, <1>3, <1>4, <1>5, <1>6, <1>7, <1>8, <1>9 DEF IInv, TypeOK

\* Bluetooth comes up in a quiet session.
LEMMA InitForSetupStep ==
    ASSUME IInv, InitForSetup
    PROVE  IInv'
<1>1. (TasksOK /\ EngineOK)'
  BY DEF IInv, InitForSetup, InitDone, InitFails, At, To, Session, controllerVars, Audio,
     taskVars, engineVars, ledgerVars, TypeOK, TasksOK, EngineOK, Places, Tasks
<1>2. (SessionOK /\ BleOK)'
  BY DEF IInv, InitForSetup, InitDone, InitFails, At, To, Session, controllerVars, Audio,
     taskVars, engineVars, ledgerVars, TypeOK, EngineOK, SessionOK, BleOK, MainPlaces
<1>3. sleeping' => mpc' = "wait"
  BY DEF IInv, InitForSetup, InitDone, InitFails, At, To, Session, controllerVars, Audio,
     taskVars, engineVars, ledgerVars, TypeOK, EngineOK, SessionOK
<1>4. (Counted /\ Leased /\ Held)'
  BY DEF IInv, InitForSetup, InitDone, InitFails, At, To, Session, controllerVars, Audio,
     taskVars, engineVars, ledgerVars, Counted, Leased, Held, Working, Locked, Provisioning
<1>5. (Alive /\ Closed)'
  BY DEF IInv, InitForSetup, InitDone, InitFails, At, To, Session, controllerVars, Audio,
     taskVars, engineVars, ledgerVars, Alive, EngineOutlivesUse, Using, Closed, NobodyInside,
     Provisioning
<1>6. (Phases /\ Ledger)'
  BY DEF IInv, InitForSetup, InitDone, InitFails, At, To, Session, controllerVars, Audio,
     taskVars, engineVars, ledgerVars, Phases, Ledger, Ending, Provisioning
<1>7. SessionQuiet'
  BY DEF IInv, InitForSetup, InitDone, InitFails, At, To, Session, controllerVars, Audio,
     taskVars, engineVars, ledgerVars, SessionQuiet, InSession, NobodyInside, Quiesced,
     WorkersQuiet, Ending, Provisioning
<1>8. Agree'
  BY DEF IInv, InitForSetup, InitDone, InitFails, At, To, Session, controllerVars, Audio,
     taskVars, engineVars, ledgerVars, Agree, Midway, Running, Provisioning
<1>9. Restored'
  BY DEF IInv, InitForSetup, InitDone, InitFails, At, To, Session, controllerVars, Audio,
     taskVars, engineVars, ledgerVars, Restored, Provisioning, TypeOK, SessionOK, EngineOK,
     Phases, Ledger, Ending, SessionQuiet
<1>10. QED
  BY <1>1, <1>2, <1>3, <1>4, <1>5, <1>6, <1>7, <1>8, <1>9 DEF IInv, TypeOK

\* The publication touches only the setup timeout.
LEMMA PublishConfigStep ==
    ASSUME IInv, PublishConfig
    PROVE  IInv'
<1>1. (TasksOK /\ EngineOK)'
  BY DEF IInv, PublishConfig, At, To, Session, controllerVars, Audio, taskVars, engineVars,
     ledgerVars, TypeOK, TasksOK, EngineOK, Places, Tasks
<1>2. (SessionOK /\ BleOK)'
  BY DEF IInv, PublishConfig, At, To, Session, controllerVars, Audio, taskVars, engineVars,
     ledgerVars, TypeOK, EngineOK, SessionOK, BleOK, MainPlaces
<1>3. sleeping' => mpc' = "wait"
  BY DEF IInv, PublishConfig, At, To, Session, controllerVars, Audio, taskVars, engineVars,
     ledgerVars, TypeOK, EngineOK, SessionOK
<1>4. (Counted /\ Leased /\ Held)'
  BY DEF IInv, PublishConfig, At, To, Session, controllerVars, Audio, taskVars, engineVars,
     ledgerVars, Counted, Leased, Held, Working, Locked, Provisioning
<1>5. (Alive /\ Closed)'
  BY DEF IInv, PublishConfig, At, To, Session, controllerVars, Audio, taskVars, engineVars,
     ledgerVars, Alive, EngineOutlivesUse, Using, Closed, NobodyInside, Provisioning
<1>6. (Phases /\ Ledger)'
  BY DEF IInv, PublishConfig, At, To, Session, controllerVars, Audio, taskVars, engineVars,
     ledgerVars, Phases, Ledger, Ending, Provisioning
<1>7. SessionQuiet'
  BY DEF IInv, PublishConfig, At, To, Session, controllerVars, Audio, taskVars, engineVars,
     ledgerVars, SessionQuiet, InSession, NobodyInside, Quiesced, WorkersQuiet, Ending,
     Provisioning
<1>8. Agree'
  BY DEF IInv, PublishConfig, At, To, Session, controllerVars, Audio, taskVars, engineVars,
     ledgerVars, Agree, Midway, Running, Provisioning
<1>9. Restored'
  BY DEF IInv, PublishConfig, At, To, Session, controllerVars, Audio, taskVars, engineVars,
     ledgerVars, Restored, Provisioning, TypeOK, SessionOK, EngineOK, Phases, Ledger, Ending,
     SessionQuiet
<1>10. QED
  BY <1>1, <1>2, <1>3, <1>4, <1>5, <1>6, <1>7, <1>8, <1>9 DEF IInv, TypeOK

\* Bluetooth comes up in a quiet session, with a fresh token or the bound one.
LEMMA InitStandbyStep ==
    ASSUME IInv, InitStandby
    PROVE  IInv'
<1>1. (TasksOK /\ EngineOK)'
  BY DEF IInv, InitStandby, InitDone, InitFails, At, To, Session, controllerVars, Audio,
     taskVars, engineVars, ledgerVars, TypeOK, TasksOK, EngineOK, Places, Tasks
<1>2. (SessionOK /\ BleOK)'
  BY DEF IInv, InitStandby, InitDone, InitFails, At, To, Session, controllerVars, Audio,
     taskVars, engineVars, ledgerVars, TypeOK, EngineOK, SessionOK, BleOK, MainPlaces
<1>3. sleeping' => mpc' = "wait"
  BY DEF IInv, InitStandby, InitDone, InitFails, At, To, Session, controllerVars, Audio,
     taskVars, engineVars, ledgerVars, TypeOK, EngineOK, SessionOK
<1>4. (Counted /\ Leased /\ Held)'
  BY DEF IInv, InitStandby, InitDone, InitFails, At, To, Session, controllerVars, Audio,
     taskVars, engineVars, ledgerVars, Counted, Leased, Held, Working, Locked, Provisioning
<1>5. (Alive /\ Closed)'
  BY DEF IInv, InitStandby, InitDone, InitFails, At, To, Session, controllerVars, Audio,
     taskVars, engineVars, ledgerVars, Alive, EngineOutlivesUse, Using, Closed, NobodyInside,
     Provisioning
<1>6. (Phases /\ Ledger)'
  BY DEF IInv, InitStandby, InitDone, InitFails, At, To, Session, controllerVars, Audio,
     taskVars, engineVars, ledgerVars, Phases, Ledger, Ending, Provisioning, TypeOK, EngineOK,
     SessionOK, BleOK, SessionQuiet, InSession, NobodyInside, Quiesced, WorkersQuiet
<1>7. SessionQuiet'
  BY DEF IInv, InitStandby, InitDone, InitFails, At, To, Session, controllerVars, Audio,
     taskVars, engineVars, ledgerVars, SessionQuiet, InSession, NobodyInside, Quiesced,
     WorkersQuiet, Ending, Provisioning
<1>8. Agree'
  BY DEF IInv, InitStandby, InitDone, InitFails, At, To, Session, controllerVars, Audio,
     taskVars, engineVars, ledgerVars, Agree, Midway, Running, Provisioning
<1>9. Restored'
  BY DEF IInv, InitStandby, InitDone, InitFails, At, To, Session, controllerVars, Audio,
     taskVars, engineVars, ledgerVars, Restored, Provisioning, TypeOK, SessionOK, EngineOK,
     Phases, Ledger, Ending, SessionQuiet
<1>10. QED
  BY <1>1, <1>2, <1>3, <1>4, <1>5, <1>6, <1>7, <1>8, <1>9 DEF IInv, TypeOK

\* The renewal touches only the setup timeout.
LEMMA RenewStandbyStep ==
    ASSUME IInv, RenewStandby
    PROVE  IInv'
<1>1. (TasksOK /\ EngineOK)'
  BY DEF IInv, RenewStandby, At, Session, controllerVars, Audio, taskVars, engineVars,
     ledgerVars, TypeOK, TasksOK, EngineOK, Places, Tasks
<1>2. (SessionOK /\ BleOK)'
  BY DEF IInv, RenewStandby, At, Session, controllerVars, Audio, taskVars, engineVars,
     ledgerVars, TypeOK, EngineOK, SessionOK, BleOK, MainPlaces
<1>3. sleeping' => mpc' = "wait"
  BY DEF IInv, RenewStandby, At, Session, controllerVars, Audio, taskVars, engineVars,
     ledgerVars, TypeOK, EngineOK, SessionOK
<1>4. (Counted /\ Leased /\ Held)'
  BY DEF IInv, RenewStandby, At, Session, controllerVars, Audio, taskVars, engineVars,
     ledgerVars, Counted, Leased, Held, Working, Locked, Provisioning
<1>5. (Alive /\ Closed)'
  BY DEF IInv, RenewStandby, At, Session, controllerVars, Audio, taskVars, engineVars,
     ledgerVars, Alive, EngineOutlivesUse, Using, Closed, NobodyInside, Provisioning
<1>6. (Phases /\ Ledger)'
  BY DEF IInv, RenewStandby, At, Session, controllerVars, Audio, taskVars, engineVars,
     ledgerVars, Phases, Ledger, Ending, Provisioning
<1>7. SessionQuiet'
  BY DEF IInv, RenewStandby, At, Session, controllerVars, Audio, taskVars, engineVars,
     ledgerVars, SessionQuiet, InSession, NobodyInside, Quiesced, WorkersQuiet, Ending,
     Provisioning
<1>8. Agree'
  BY DEF IInv, RenewStandby, At, Session, controllerVars, Audio, taskVars, engineVars,
     ledgerVars, Agree, Midway, Running, Provisioning
<1>9. Restored'
  BY DEF IInv, RenewStandby, At, Session, controllerVars, Audio, taskVars, engineVars,
     ledgerVars, Restored, Provisioning, TypeOK, SessionOK, EngineOK, Phases, Ledger, Ending,
     SessionQuiet
<1>10. QED
  BY <1>1, <1>2, <1>3, <1>4, <1>5, <1>6, <1>7, <1>8, <1>9 DEF IInv, TypeOK

\* A stack that goes, or stays in part, changes no token.
LEMMA StopBleStep ==
    ASSUME IInv, StopBle
    PROVE  IInv'
<1>1. (TasksOK /\ EngineOK)'
  BY DEF IInv, StopBle, DeinitDone, DeinitFails, At, Session, controllerVars, Audio, taskVars,
     engineVars, ledgerVars, TypeOK, TasksOK, EngineOK, Places, Tasks
<1>2. (SessionOK /\ BleOK)'
  BY DEF IInv, StopBle, DeinitDone, DeinitFails, At, Session, controllerVars, Audio, taskVars,
     engineVars, ledgerVars, TypeOK, EngineOK, SessionOK, BleOK, MainPlaces
<1>3. sleeping' => mpc' = "wait"
  BY DEF IInv, StopBle, DeinitDone, DeinitFails, At, Session, controllerVars, Audio, taskVars,
     engineVars, ledgerVars, TypeOK, EngineOK, SessionOK
<1>4. (Counted /\ Leased /\ Held)'
  BY DEF IInv, StopBle, DeinitDone, DeinitFails, At, Session, controllerVars, Audio, taskVars,
     engineVars, ledgerVars, Counted, Leased, Held, Working, Locked, Provisioning
<1>5. (Alive /\ Closed)'
  BY DEF IInv, StopBle, DeinitDone, DeinitFails, At, Session, controllerVars, Audio, taskVars,
     engineVars, ledgerVars, Alive, EngineOutlivesUse, Using, Closed, NobodyInside, Provisioning
<1>6. (Phases /\ Ledger)'
  BY DEF IInv, StopBle, DeinitDone, DeinitFails, At, Session, controllerVars, Audio, taskVars,
     engineVars, ledgerVars, Phases, Ledger, Ending, Provisioning
<1>7. SessionQuiet'
  BY DEF IInv, StopBle, DeinitDone, DeinitFails, At, Session, controllerVars, Audio, taskVars,
     engineVars, ledgerVars, SessionQuiet, InSession, NobodyInside, Quiesced, WorkersQuiet,
     Ending, Provisioning
<1>8. Agree'
  BY DEF IInv, StopBle, DeinitDone, DeinitFails, At, Session, controllerVars, Audio, taskVars,
     engineVars, ledgerVars, Agree, Midway, Running, Provisioning
<1>9. Restored'
  BY DEF IInv, StopBle, DeinitDone, DeinitFails, At, Session, controllerVars, Audio, taskVars,
     engineVars, ledgerVars, Restored, Provisioning, TypeOK, SessionOK, EngineOK, Phases,
     Ledger, Ending, SessionQuiet
<1>10. QED
  BY <1>1, <1>2, <1>3, <1>4, <1>5, <1>6, <1>7, <1>8, <1>9 DEF IInv, TypeOK

\* A stack that goes, or stays in part, changes no token.
LEMMA SetupTimeoutStep ==
    ASSUME IInv, SetupTimeout
    PROVE  IInv'
<1>1. (TasksOK /\ EngineOK)'
  BY DEF IInv, SetupTimeout, DeinitDone, DeinitFails, At, Session, controllerVars, Audio,
     taskVars, engineVars, ledgerVars, TypeOK, TasksOK, EngineOK, Places, Tasks
<1>2. (SessionOK /\ BleOK)'
  BY DEF IInv, SetupTimeout, DeinitDone, DeinitFails, At, Session, controllerVars, Audio,
     taskVars, engineVars, ledgerVars, TypeOK, EngineOK, SessionOK, BleOK, MainPlaces
<1>3. sleeping' => mpc' = "wait"
  BY DEF IInv, SetupTimeout, DeinitDone, DeinitFails, At, Session, controllerVars, Audio,
     taskVars, engineVars, ledgerVars, TypeOK, EngineOK, SessionOK
<1>4. (Counted /\ Leased /\ Held)'
  BY DEF IInv, SetupTimeout, DeinitDone, DeinitFails, At, Session, controllerVars, Audio,
     taskVars, engineVars, ledgerVars, Counted, Leased, Held, Working, Locked, Provisioning
<1>5. (Alive /\ Closed)'
  BY DEF IInv, SetupTimeout, DeinitDone, DeinitFails, At, Session, controllerVars, Audio,
     taskVars, engineVars, ledgerVars, Alive, EngineOutlivesUse, Using, Closed, NobodyInside,
     Provisioning
<1>6. (Phases /\ Ledger)'
  BY DEF IInv, SetupTimeout, DeinitDone, DeinitFails, At, Session, controllerVars, Audio,
     taskVars, engineVars, ledgerVars, Phases, Ledger, Ending, Provisioning
<1>7. SessionQuiet'
  BY DEF IInv, SetupTimeout, DeinitDone, DeinitFails, At, Session, controllerVars, Audio,
     taskVars, engineVars, ledgerVars, SessionQuiet, InSession, NobodyInside, Quiesced,
     WorkersQuiet, Ending, Provisioning
<1>8. Agree'
  BY DEF IInv, SetupTimeout, DeinitDone, DeinitFails, At, Session, controllerVars, Audio,
     taskVars, engineVars, ledgerVars, Agree, Midway, Running, Provisioning
<1>9. Restored'
  BY DEF IInv, SetupTimeout, DeinitDone, DeinitFails, At, Session, controllerVars, Audio,
     taskVars, engineVars, ledgerVars, Restored, Provisioning, TypeOK, SessionOK, EngineOK,
     Phases, Ledger, Ending, SessionQuiet
<1>10. QED
  BY <1>1, <1>2, <1>3, <1>4, <1>5, <1>6, <1>7, <1>8, <1>9 DEF IInv, TypeOK

\* Only the bound token goes on to the end of the session, with the stack gone.
LEMMA TeardownStep ==
    ASSUME IInv, NEW t \in Nat, Teardown(t)
    PROVE  IInv'
<1>1. (TasksOK /\ EngineOK)'
  BY DEF IInv, Teardown, DeinitDone, DeinitFails, At, To, Session, controllerVars, Audio,
     taskVars, engineVars, ledgerVars, TypeOK, TasksOK, EngineOK, Places, Tasks
<1>2. (SessionOK /\ BleOK)'
  BY DEF IInv, Teardown, DeinitDone, DeinitFails, At, To, Session, controllerVars, Audio,
     taskVars, engineVars, ledgerVars, TypeOK, EngineOK, SessionOK, BleOK, MainPlaces
<1>3. sleeping' => mpc' = "wait"
  BY DEF IInv, Teardown, DeinitDone, DeinitFails, At, To, Session, controllerVars, Audio,
     taskVars, engineVars, ledgerVars, TypeOK, EngineOK, SessionOK
<1>4. (Counted /\ Leased /\ Held)'
  BY DEF IInv, Teardown, DeinitDone, DeinitFails, At, To, Session, controllerVars, Audio,
     taskVars, engineVars, ledgerVars, Counted, Leased, Held, Working, Locked, Provisioning
<1>5. (Alive /\ Closed)'
  BY DEF IInv, Teardown, DeinitDone, DeinitFails, At, To, Session, controllerVars, Audio,
     taskVars, engineVars, ledgerVars, Alive, EngineOutlivesUse, Using, Closed, NobodyInside,
     Provisioning
<1>6. (Phases /\ Ledger)'
  BY DEF IInv, Teardown, DeinitDone, DeinitFails, At, To, Session, controllerVars, Audio,
     taskVars, engineVars, ledgerVars, Phases, Ledger, Ending, Provisioning
<1>7. SessionQuiet'
  BY DEF IInv, Teardown, DeinitDone, DeinitFails, At, To, Session, controllerVars, Audio,
     taskVars, engineVars, ledgerVars, SessionQuiet, InSession, NobodyInside, Quiesced,
     WorkersQuiet, Ending, Provisioning
<1>8. Agree'
  BY DEF IInv, Teardown, DeinitDone, DeinitFails, At, To, Session, controllerVars, Audio,
     taskVars, engineVars, ledgerVars, Agree, Midway, Running, Provisioning
<1>9. Restored'
  BY DEF IInv, Teardown, DeinitDone, DeinitFails, At, To, Session, controllerVars, Audio,
     taskVars, engineVars, ledgerVars, Restored, Provisioning, TypeOK, SessionOK, EngineOK,
     Phases, Ledger, Ending, SessionQuiet
<1>10. QED
  BY <1>1, <1>2, <1>3, <1>4, <1>5, <1>6, <1>7, <1>8, <1>9 DEF IInv, TypeOK

\* The gate opens for the token it was closed with, and the ledger with it.
LEMMA EndProvisioningStep ==
    ASSUME IInv, EndProvisioning
    PROVE  IInv'
<1>1. (TasksOK /\ EngineOK)'
  <2>1. CASE ~(generation = claim /\ "provisioning" \in flags)
    BY <2>1 DEF IInv, EndProvisioning, At, To, Audio, taskVars, engineVars, ledgerVars, bleVars,
       TypeOK, TasksOK, EngineOK, Places, Tasks
  <2>2. CASE generation = claim /\ "provisioning" \in flags /\ active # claim
    BY <2>2 DEF IInv, EndProvisioning, At, To, Audio, taskVars, engineVars, ledgerVars, bleVars,
       TypeOK, TasksOK, EngineOK, Places, Tasks
  <2>3. CASE generation = claim /\ "provisioning" \in flags /\ active = claim /\ restart
    BY <2>3 DEF IInv, EndProvisioning, At, To, Audio, taskVars, engineVars, ledgerVars, bleVars,
       TypeOK, TasksOK, EngineOK, Places, Tasks
  <2>4. CASE generation = claim /\ "provisioning" \in flags /\ active = claim /\ ~restart
    BY <2>4 DEF IInv, EndProvisioning, At, To, Audio, taskVars, engineVars, ledgerVars, bleVars,
       TypeOK, TasksOK, EngineOK, Places, Tasks
  <2>5. QED
    BY <2>1, <2>2, <2>3, <2>4
<1>2. (SessionOK /\ BleOK)'
  <2>1. CASE ~(generation = claim /\ "provisioning" \in flags)
    BY <2>1 DEF IInv, EndProvisioning, At, To, Audio, taskVars, engineVars, ledgerVars, bleVars,
       TypeOK, EngineOK, SessionOK, MainPlaces, BleOK
  <2>2. CASE generation = claim /\ "provisioning" \in flags /\ active # claim
    BY <2>2 DEF IInv, EndProvisioning, At, To, Audio, taskVars, engineVars, ledgerVars, bleVars,
       TypeOK, EngineOK, SessionOK, MainPlaces, BleOK
  <2>3. CASE generation = claim /\ "provisioning" \in flags /\ active = claim /\ restart
    <3>1. /\ active' = 0 /\ restart' = FALSE /\ attempt' = 1 /\ mpc' = "start"
          /\ UNCHANGED <<claimed, origin, claim, token, ble, inited, teardownFailed, armed,
                         timedOut, failures>>
      BY <2>3 DEF EndProvisioning, At, To, bleVars
    <3>2. QED
      BY <3>1 DEF IInv, TypeOK, SessionOK, MainPlaces, BleOK
  <2>4. CASE generation = claim /\ "provisioning" \in flags /\ active = claim /\ ~restart
    <3>1. /\ active' = 0 /\ restart' = FALSE /\ attempt' = 1 /\ mpc' = "consume"
          /\ UNCHANGED <<claimed, origin, claim, token, ble, inited, teardownFailed, armed,
                         timedOut, failures>>
      BY <2>4 DEF EndProvisioning, At, To, bleVars
    <3>2. QED
      BY <3>1 DEF IInv, TypeOK, SessionOK, MainPlaces, BleOK
  <2>5. QED
    BY <2>1, <2>2, <2>3, <2>4
<1>3. sleeping' => mpc' = "wait"
  BY DEF IInv, EndProvisioning, At, To, Audio, taskVars, engineVars, ledgerVars, bleVars,
     TypeOK, EngineOK, SessionOK
<1>4. (Counted /\ Leased /\ Held)'
  BY TasksAssumption DEF IInv, EndProvisioning, At, To, Audio, taskVars, engineVars, ledgerVars,
     bleVars, Counted, Leased, Held, Working, Locked, Provisioning, TypeOK, TasksOK, EngineOK,
     SessionOK, Tasks, Closed, NobodyInside, Phases, Ending
<1>5. (Alive /\ Closed)'
  BY DEF IInv, EndProvisioning, At, To, Audio, taskVars, engineVars, ledgerVars, bleVars, Alive,
     EngineOutlivesUse, Using, Closed, NobodyInside, Provisioning
<1>6. (Phases /\ Ledger)'
  <2>1. CASE ~(generation = claim /\ "provisioning" \in flags)
    BY <2>1 DEF IInv, EndProvisioning, At, To, Audio, taskVars, engineVars, ledgerVars, bleVars,
       Phases, Ledger, Ending, Provisioning, TypeOK, EngineOK, SessionOK, BleOK, SessionQuiet,
       InSession, NobodyInside, Quiesced, WorkersQuiet, Alive, EngineOutlivesUse, Using
  <2>2. CASE generation = claim /\ "provisioning" \in flags /\ active # claim
    BY <2>2 DEF IInv, EndProvisioning, At, To, Audio, taskVars, engineVars, ledgerVars, bleVars,
       Phases, Ledger, Ending, Provisioning, TypeOK, EngineOK, SessionOK, BleOK, SessionQuiet,
       InSession, NobodyInside, Quiesced, WorkersQuiet, Alive, EngineOutlivesUse, Using
  <2>3. CASE generation = claim /\ "provisioning" \in flags /\ active = claim /\ restart
    BY <2>3 DEF IInv, EndProvisioning, At, To, Audio, taskVars, engineVars, ledgerVars, bleVars,
       Phases, Ledger, Ending, Provisioning, TypeOK, EngineOK, SessionOK, BleOK, SessionQuiet,
       InSession, NobodyInside, Quiesced, WorkersQuiet, Alive, EngineOutlivesUse, Using
  <2>4. CASE generation = claim /\ "provisioning" \in flags /\ active = claim /\ ~restart
    BY <2>4 DEF IInv, EndProvisioning, At, To, Audio, taskVars, engineVars, ledgerVars, bleVars,
       Phases, Ledger, Ending, Provisioning, TypeOK, EngineOK, SessionOK, BleOK, SessionQuiet,
       InSession, NobodyInside, Quiesced, WorkersQuiet, Alive, EngineOutlivesUse, Using
  <2>5. QED
    BY <2>1, <2>2, <2>3, <2>4
<1>7. SessionQuiet'
  BY DEF IInv, EndProvisioning, At, To, Audio, taskVars, engineVars, ledgerVars, bleVars,
     SessionQuiet, InSession, NobodyInside, Quiesced, WorkersQuiet, Ending, Provisioning,
     TypeOK, TasksOK, EngineOK, SessionOK, BleOK, Closed, Phases, Ledger, Leased, Working,
     Locked, Held
<1>8. Agree'
  BY DEF IInv, EndProvisioning, At, To, Audio, taskVars, engineVars, ledgerVars, bleVars, Agree,
     Midway, Running, Provisioning, TypeOK, TasksOK, EngineOK, SessionOK, Tasks, Held, Locked,
     Leased, Working, Phases, Ending, Closed, NobodyInside, SessionQuiet, InSession, Quiesced
<1>9. Restored'
  BY DEF IInv, EndProvisioning, At, To, Audio, taskVars, engineVars, ledgerVars, bleVars,
     Restored, Provisioning, TypeOK, SessionOK, EngineOK, Phases, Ledger, Ending, SessionQuiet
<1>10. QED
  BY <1>1, <1>2, <1>3, <1>4, <1>5, <1>6, <1>7, <1>8, <1>9 DEF IInv, TypeOK

\* A start finds the workers off or fails.
LEMMA StartWorkersStep ==
    ASSUME IInv, StartWorkers
    PROVE  IInv'
<1>1. (TasksOK /\ EngineOK)'
  BY DEF IInv, StartWorkers, NextAttempt, At, To, controllerVars, taskVars, engineVars,
     ledgerVars, bleVars, TypeOK, TasksOK, EngineOK, Places, Tasks
<1>2. (SessionOK /\ BleOK)'
  BY DEF IInv, StartWorkers, NextAttempt, At, To, controllerVars, taskVars, engineVars,
     ledgerVars, bleVars, TypeOK, EngineOK, SessionOK, BleOK, MainPlaces
<1>3. sleeping' => mpc' = "wait"
  BY DEF IInv, StartWorkers, NextAttempt, At, To, controllerVars, taskVars, engineVars,
     ledgerVars, bleVars, TypeOK, EngineOK, SessionOK
<1>4. (Counted /\ Leased /\ Held)'
  BY DEF IInv, StartWorkers, NextAttempt, At, To, controllerVars, taskVars, engineVars,
     ledgerVars, bleVars, Counted, Leased, Held, Working, Locked, Provisioning
<1>5. (Alive /\ Closed)'
  BY DEF IInv, StartWorkers, NextAttempt, At, To, controllerVars, taskVars, engineVars,
     ledgerVars, bleVars, Alive, EngineOutlivesUse, Using, Closed, NobodyInside, Provisioning
<1>6. (Phases /\ Ledger)'
  BY DEF IInv, StartWorkers, NextAttempt, At, To, controllerVars, taskVars, engineVars,
     ledgerVars, bleVars, Phases, Ledger, Ending, Provisioning
<1>7. SessionQuiet'
  BY DEF IInv, StartWorkers, NextAttempt, At, To, controllerVars, taskVars, engineVars,
     ledgerVars, bleVars, SessionQuiet, InSession, NobodyInside, Quiesced, WorkersQuiet, Ending,
     Provisioning, TypeOK, TasksOK, EngineOK, SessionOK, BleOK, Closed, Phases, Ledger, Leased,
     Working, Locked, Held
<1>8. Agree'
  BY DEF IInv, StartWorkers, NextAttempt, At, To, controllerVars, taskVars, engineVars,
     ledgerVars, bleVars, Agree, Midway, Running, Provisioning
<1>9. Restored'
  BY DEF IInv, StartWorkers, NextAttempt, At, To, controllerVars, taskVars, engineVars,
     ledgerVars, bleVars, Restored, Provisioning, TypeOK, SessionOK, EngineOK, Phases, Ledger,
     Ending, SessionQuiet
<1>10. QED
  BY <1>1, <1>2, <1>3, <1>4, <1>5, <1>6, <1>7, <1>8, <1>9 DEF IInv, TypeOK

\* A failed start is counted.
LEMMA CreateWorkersStep ==
    ASSUME IInv, CreateWorkers
    PROVE  IInv'
BY DEF IInv, CreateWorkers, At, To, controllerVars, taskVars, engineVars, ledgerVars, bleVars,
   TasksOK, Places, Tasks, EngineOK, SessionOK, MainPlaces, BleOK, Counted, Leased, Held, Alive,
   EngineOutlivesUse, Using, Closed, Phases, Ending, Ledger, SessionQuiet, Quiesced,
   WorkersQuiet, InSession, Agree, Midway, Running, TypeOK, Working, Locked, NobodyInside,
   Provisioning, Restored

\* What a failed start left running is stopped.
LEMMA RollbackWorkerStartStep ==
    ASSUME IInv, RollbackWorkerStart
    PROVE  IInv'
BY DEF IInv, RollbackWorkerStart, At, To, controllerVars, taskVars, engineVars, sessionVars,
   ledgerVars, bleVars, TasksOK, Places, Tasks, EngineOK, SessionOK, MainPlaces, BleOK, Counted,
   Leased, Held, Alive, EngineOutlivesUse, Using, Closed, Phases, Ending, Ledger, SessionQuiet,
   Quiesced, WorkersQuiet, InSession, Agree, Midway, Running, TypeOK, Working, Locked,
   NobodyInside, Provisioning, Restored

\* A second failure is counted before the restart is given up.
LEMMA RejoinWorkersStep ==
    ASSUME IInv, RejoinWorkers
    PROVE  IInv'
BY DEF IInv, RejoinWorkers, NextAttempt, At, To, controllerVars, Audio, taskVars, engineVars,
   ledgerVars, bleVars, TasksOK, Places, Tasks, EngineOK, SessionOK, MainPlaces, BleOK, Counted,
   Leased, Held, Alive, EngineOutlivesUse, Using, Closed, Phases, Ending, Ledger, SessionQuiet,
   Quiesced, WorkersQuiet, InSession, Agree, Midway, Running, TypeOK, Working, Locked,
   NobodyInside, Provisioning, Restored

\* The token goes when the audio is back.
LEMMA ConsumeStep ==
    ASSUME IInv, Consume
    PROVE  IInv'
BY DEF IInv, Consume, To, Session, controllerVars, Audio, taskVars, engineVars, ledgerVars,
   bleVars, TasksOK, Places, Tasks, EngineOK, SessionOK, MainPlaces, BleOK, Counted, Leased,
   Held, Alive, EngineOutlivesUse, Using, Closed, Phases, Ending, Ledger, SessionQuiet,
   Quiesced, WorkersQuiet, InSession, Agree, Midway, Running, TypeOK, Working, Locked,
   NobodyInside, Provisioning, Restored

-----------------------------------------------------------------------------
(* The invariant. *)

\* The initial states: the gate is open and nobody is in.
LEMMA InitIInv ==
    ASSUME Init
    PROVE  IInv
<1>1. ~Provisioning
  BY DEF Init, LifecycleInit, Provisioning
<1>2. TypeOK
  <2>1. TasksOK /\ ~sleeping
    BY DEF Init, LifecycleInit, TasksOK, Places
  <2>2. EngineOK
    <3>1. workers \in {"on", "stopping", "off"}
      BY DEF Init
    <3>2. /\ generation = 1 /\ flags = {} /\ ~sleeping /\ engine = "none"
          /\ ~detecting /\ ~shut /\ ~target /\ ~wakeBit
          /\ {sleeping, detecting, shut, target, wakeBit} \subseteq BOOLEAN
      BY DEF Init, LifecycleInit
    <3>3. QED
      BY <3>1, <3>2 DEF EngineOK
  <2>3. SessionOK
    BY DEF Init, SessionOK, MainPlaces
  <2>4. BleOK
    BY DEF Init, BleOK
  <2>5. QED
    BY <2>1, <2>2, <2>3, <2>4 DEF TypeOK
<1>3. Counted /\ Leased /\ Held
  BY <1>1, TasksAssumption DEF Init, LifecycleInit, Counted, Leased, Held, Working, Locked, Tasks
<1>4. Alive /\ Closed
  BY <1>1 DEF Init, LifecycleInit, Alive, EngineOutlivesUse, Using, Closed
<1>5. Phases /\ Ledger /\ Restored
  BY <1>1 DEF Init, LifecycleInit, Phases, Ending, Ledger, Restored
<1>6. SessionQuiet
  BY <1>1 DEF Init, LifecycleInit, SessionQuiet, InSession, Ending
<1>7. Agree
  BY DEF Init, LifecycleInit, Agree, Midway, Running
<1>8. QED
  BY <1>2, <1>3, <1>4, <1>5, <1>6, <1>7 DEF IInv

\* A step that changes nothing.
LEMMA StutterIInv ==
    ASSUME IInv, UNCHANGED vars
    PROVE  IInv'
  BY DEF vars, lifecycleVars, controllerVars, taskVars, engineVars, sessionVars, ledgerVars,
     bleVars, IInv, TypeOK, TasksOK, EngineOK, SessionOK, BleOK, Counted, Leased, Held, Alive,
     EngineOutlivesUse, Closed, NobodyInside, Phases, Ledger, SessionQuiet, InSession, Quiesced,
     WorkersQuiet, Agree, Running, Restored, Provisioning

\* Every step of the event loop keeps the invariant.
LEMMA MainStep ==
    ASSUME IInv, MainNext
    PROVE  IInv'
<1>1. CASE \E o \in {"config", "standby"} : Begin(o)
  BY <1>1, BeginStep
<1>2. CASE (\E t \in 1 .. generation : Teardown(t)) \/ Teardown(token)
  <2>1. token \in Nat /\ 1 .. generation \subseteq Nat
    BY DEF IInv, TypeOK, EngineOK, SessionOK
  <2>2. QED
    BY <1>2, <2>1, TeardownStep
<1>3. CASE \/ RaiseGate \/ ClearHint \/ RequestShutdown \/ Sleep \/ LeasesGone \/ BindWorkers
           \/ StopWorkers \/ JoinWorkers \/ ResetEngine \/ ShutdownTimesOut
  BY <1>3, RaiseGateStep, ClearHintStep, RequestShutdownStep, SleepStep, LeasesGoneStep,
     BindWorkersStep, StopWorkersStep, JoinWorkersStep, ResetEngineStep, ShutdownTimesOutStep
<1>4. CASE \/ RestartForSetup \/ InitForSetup \/ PublishConfig \/ InitStandby \/ RenewStandby
           \/ StopBle \/ SetupTimeout
  BY <1>4, RestartForSetupStep, InitForSetupStep, PublishConfigStep, InitStandbyStep,
     RenewStandbyStep, StopBleStep, SetupTimeoutStep
<1>5. CASE \/ EndProvisioning \/ StartWorkers \/ CreateWorkers \/ RollbackWorkerStart
           \/ RejoinWorkers \/ Consume
  BY <1>5, EndProvisioningStep, StartWorkersStep, CreateWorkersStep, RollbackWorkerStartStep,
     RejoinWorkersStep, ConsumeStep
<1>6. QED
  BY <1>1, <1>2, <1>3, <1>4, <1>5 DEF MainNext, Request, Continue

\* Every step of a task keeps the invariant.
LEMMA TaskStep ==
    ASSUME IInv, TaskNext
    PROVE  IInv'
<1>1. UNCHANGED <<claimed, mpc, sessionVars>>
  BY DEF TaskNext
<1>2. CASE InputStep
  BY <1>1, <1>2, InputWakesStep, FeedWakeWordStep, LoadTargetStep, FeedStep, WorkersExitStep
     DEF InputStep
<1>3. ASSUME NEW t \in Tasks, Call(t)  PROVE IInv'
  BY <1>1, <1>3, CallStep
<1>4. ASSUME NEW t \in Tasks, Advance(t)  PROVE IInv'
  <2>1. CASE Admit(t) \/ Deny(t) \/ Release(t) \/ Notify(t) \/ Lock(t) \/ Read(t)
    BY <1>1, <2>1, AdmitStep, DenyStep, ReleaseStep, NotifyStep, LockStep, ReadStep
  <2>2. CASE \/ EnableReturns(t) \/ EnableBuilds(t) \/ Start(t) \/ Publish(t)
             \/ StoreTarget(t) \/ SetBit(t)
    BY <1>1, <2>2, EnableReturnsStep, EnableBuildsStep, StartStep, PublishStep,
       StoreTargetStep, SetBitStep
  <2>3. CASE DisableBegins(t) \/ ClearTarget(t) \/ Unpublish(t) \/ ClearBit(t) \/ Stop(t)
    BY <1>1, <2>3, DisableBeginsStep, ClearTargetStep, UnpublishStep, ClearBitStep, StopStep
  <2>4. QED
    BY <1>4, <2>1, <2>2, <2>3 DEF Advance
<1>5. QED
  BY <1>2, <1>3, <1>4 DEF TaskNext, LifecycleNext

\* IInv holds in every state that the tasks and the event loop can reach.
THEOREM Inductive == Spec => []IInv
<1>1. Init => IInv
  BY InitIInv
<1>2. IInv /\ [Next]_vars => IInv'
  BY MainStep, TaskStep, StutterIInv DEF Next
<1>3. QED
  BY <1>1, <1>2, PTL DEF Spec

-----------------------------------------------------------------------------
(* What follows from it. *)

\* Every variable stays in its range, and the event loop sleeps only inside
\* its wait for the leases.
THEOREM TypeCorrect == Spec => []TypeOK
<1>1. IInv => TypeOK
  BY DEF IInv
<1>2. QED
  BY <1>1, Inductive, PTL

\* BeginWifiProvisioning destroys the engine only after every task that may
\* hold a pointer to it, the lock-free feed included, has given it up.
THEOREM EngineAlive == Spec => []EngineOutlivesUse
<1>1. IInv => EngineOutlivesUse
  BY DEF IInv, Alive
<1>2. QED
  BY <1>1, Inductive, PTL

\* The Bluetooth stack is up only while the audio is down and the gate is
\* closed, in the first session and in any later one.
THEOREM BluetoothQuiet == Spec => []QuietUnderBle
<1>1. IInv => QuietUnderBle
  BY DEF IInv, QuietUnderBle, SessionQuiet, InSession, Quiesced, WorkersQuiet
<1>2. QED
  BY <1>1, Inductive, PTL

\* The running flag, the feed pointer and the engine agree when nobody is
\* inside EnableWakeWordDetection.
THEOREM Published == Spec => []PublishedTogether
<1>1. IInv => PublishedTogether
  <2>1. SUFFICES ASSUME IInv, ~Provisioning, mutex = NoTask, mpc # "raise"
                 PROVE  (target <=> Running) /\ (detecting <=> Running)
    BY DEF PublishedTogether, Running
  <2>2. \A t \in Tasks : pc[t] \notin Midway
    BY <2>1, TasksAssumption DEF IInv, Held, Locked, Midway, Tasks
  <2>3. QED
    BY <2>1, <2>2 DEF IInv, Agree
<1>2. QED
  BY <1>1, Inductive, PTL

\* What provisioning stopped is running again once the token is gone, unless
\* the restart failed twice; what was off stays off.
THEOREM AudioRestored == Spec => []PriorAudioRestored
<1>1. IInv => PriorAudioRestored
  <2>1. SUFFICES ASSUME IInv, mpc = "idle", ~Provisioning, failures < 2
                 PROVE  workers = IF claimed THEN "on" ELSE "off"
    BY DEF PriorAudioRestored
  <2>2. CASE claimed
    BY <2>1, <2>2 DEF IInv, Restored
  <2>3. CASE ~claimed
    BY <2>1, <2>3 DEF IInv, Ledger
  <2>4. QED
    BY <2>2, <2>3
<1>2. QED
  BY <1>1, Inductive, PTL

-----------------------------------------------------------------------------
(* The wake-up of the sleeper. *)

Busy(t) == pc[t] \notin {"idle", "heard"}

Owed == sleeping => \E t \in Tasks : Busy(t)

\* A task that gives up the last count goes on to notify; one that gives up
\* another count leaves a counted task behind.
LEMMA OwedAfterRelease ==
    ASSUME IInv, Owed, NEW t \in Tasks, Release(t) \/ Notify(t)
    PROVE  Owed'
<1>1. SUFFICES ASSUME sleeping'  PROVE \E u \in Tasks : Busy(u)'
  BY DEF Owed
<1>2. Release(t) /\ pc \in [Tasks -> Places]
  BY <1>1 DEF Notify, IInv, TypeOK, TasksOK
<1>3. CASE counted = {t}
  <2>1. pc'[t] = "notify"
    BY <1>2, <1>3 DEF Release, Goto
  <2>2. QED
    BY <2>1 DEF Busy
<1>4. CASE counted # {t}
  <2>1. t \in counted /\ counted \subseteq Tasks
    BY <1>2 DEF Release, IInv, Counted, TypeOK, TasksOK
  <2>2. PICK u \in Tasks : u # t /\ u \in counted
    BY <1>4, <2>1
  <2>3. pc'[u] = pc[u] /\ pc[u] \notin {"idle", "heard"}
    BY <1>2, <2>2 DEF Release, Goto, IInv, Counted
  <2>4. QED
    BY <2>2, <2>3 DEF Busy
<1>5. QED
  BY <1>3, <1>4

\* The event loop goes to sleep only while somebody is counted.
LEMMA OwedAfterMain ==
    ASSUME IInv, Owed, MainNext
    PROVE  Owed'
<1>1. CASE Sleep
  <2>1. UNCHANGED pc /\ \E t \in Tasks : t \in counted
    BY <1>1 DEF Sleep, Audio, taskVars, IInv, TypeOK, TasksOK
  <2>2. QED
    BY <2>1 DEF Owed, Busy, IInv, Counted
<1>2. CASE ~Sleep
  <2>1. UNCHANGED <<sleeping, pc>>
    BY <1>2 DEF MainNext, Request, Continue, Begin, InitStandby, RenewStandby, StopBle,
       SetupTimeout, Teardown, RaiseGate, ClearHint, RequestShutdown, BindWorkers, StopWorkers,
       JoinWorkers, ResetEngine, ShutdownTimesOut, RestartForSetup, InitForSetup, PublishConfig,
       EndProvisioning, StartWorkers, CreateWorkers, RollbackWorkerStart, RejoinWorkers, Consume,
       LeasesGone, Audio, controllerVars, taskVars
  <2>2. QED
    BY <2>1 DEF Owed, Busy
<1>3. QED
  BY <1>1, <1>2

\* Every other step of a task leaves it, and the others, where they are owed for.
LEMMA OwedAfterTask ==
    ASSUME IInv, Owed, TaskNext
    PROVE  Owed'
<1>1. ASSUME NEW t \in Tasks, NEW place \in Places, pc' = [pc EXCEPT ![t] = place],
             UNCHANGED sleeping, Busy(t) => place \notin {"idle", "heard"}
      PROVE  Owed'
  BY <1>1 DEF Owed, Busy, IInv, TypeOK, TasksOK
<1>2. Input \in Tasks
  BY DEF Tasks
<1>3. CASE WorkersExit
  BY <1>3 DEF WorkersExit, taskVars, controllerVars, Owed, Busy
<1>4. CASE InputStep /\ ~WorkersExit
  <2>1. UNCHANGED sleeping
    BY <1>4 DEF InputStep, InputWakes, FeedWakeWord, LoadTarget, Feed, controllerVars
  <2>2. \E place \in Places :
           pc' = [pc EXCEPT ![Input] = place] /\ (Busy(Input) => place \notin {"idle", "heard"})
    BY <1>4 DEF InputStep, InputWakes, FeedWakeWord, Acquire, LoadTarget, Feed, Goto, Places, Busy
  <2>3. QED
    BY <1>1, <1>2, <2>1, <2>2
<1>5. ASSUME NEW t \in Tasks, Call(t)  PROVE Owed'
  BY <1>1, <1>5 DEF Call, Acquire, Goto, Places
<1>6. ASSUME NEW t \in Tasks, Advance(t), ~Release(t), ~Notify(t)  PROVE Owed'
  <2>1. UNCHANGED sleeping
    BY <1>6 DEF Advance, Admit, Deny, Lock, Read, EnableReturns, EnableBuilds, Start, Publish,
       StoreTarget, SetBit, DisableBegins, ClearTarget, Unpublish, ClearBit, Stop, Return,
       controllerVars
  <2>2. \E place \in Places \ {"idle", "heard"} : pc' = [pc EXCEPT ![t] = place]
    <3>1. CASE Admit(t) \/ Deny(t)
      BY <3>1 DEF Admit, Deny, Goto, Places
    <3>2. CASE Lock(t)
      <4>1. job[t] \in {"enable", "disable", "read"}
        BY <3>2 DEF Lock, IInv, Held, TypeOK, TasksOK
      <4>2. QED
        BY <3>2, <4>1 DEF Lock, Goto, Places
    <3>3. CASE ~(Admit(t) \/ Deny(t)) /\ ~Lock(t)
      BY <1>6, <3>3 DEF Advance, Read, EnableReturns, EnableBuilds, Start, Publish, StoreTarget,
         SetBit, DisableBegins, ClearTarget, Unpublish, ClearBit, Stop, Return, Proceed, Goto,
         Places
    <3>4. QED
      BY <3>1, <3>2, <3>3
  <2>3. QED
    BY <1>1, <2>1, <2>2
<1>7. QED
  BY <1>3, <1>4, <1>5, <1>6, OwedAfterRelease DEF TaskNext, LifecycleNext

\* BeginWifiProvisioning is not left asleep: whoever makes the count zero, a
\* caller that was refused included, is on its way to wake it.
THEOREM WakeupOwed == Spec => []SleeperIsOwedAWakeup
<1>1. Init => Owed
  BY DEF Init, LifecycleInit, Owed
<1>2. IInv /\ Owed /\ [Next]_vars => Owed'
  <2>1. ASSUME IInv, Owed, UNCHANGED vars  PROVE Owed'
    BY <2>1 DEF vars, lifecycleVars, controllerVars, taskVars, Owed, Busy
  <2>2. QED
    BY <2>1, OwedAfterMain, OwedAfterTask DEF Next
<1>3. IInv /\ Owed => SleeperIsOwedAWakeup
  BY DEF Owed, Busy, SleeperIsOwedAWakeup, IInv, Counted
<1>4. QED
  BY <1>1, <1>2, <1>3, Inductive, PTL DEF Spec

-----------------------------------------------------------------------------
(* The refinement of QuiesceGate. *)

Inside == {t \in Tasks : lease[t] # 0}

Closing == {"hint", "shutdown", "wait"}

GateState ==
    IF ~Provisioning THEN "open"
    ELSE IF mpc \in Closing THEN "closing" ELSE "closed"

SameGate == UNCHANGED <<Inside, GateState>>

\* Only an admission, a release, the raising of the gate, the end of the wait
\* and the end of the session are steps of the gate.
LEMMA TaskGate ==
    ASSUME IInv, TaskNext
    PROVE  SameGate \/ \E t \in Tasks : Gate!Enter(t) \/ Gate!Leave(t)
<1>1. UNCHANGED mpc
  BY DEF TaskNext
<1>2. ASSUME NEW t \in Tasks, Admit(t)  PROVE Gate!Enter(t)
  <2>1. ~Provisioning /\ UNCHANGED flags
    BY <1>2 DEF Admit, Allowed, controllerVars
  <2>2. lease' = [lease EXCEPT ![t] = generation] /\ generation # 0
    BY <1>2 DEF Admit, IInv, TypeOK, EngineOK
  <2>3. Inside' = Inside \union {t}
    BY <2>2 DEF Inside, IInv, TypeOK, TasksOK
  <2>4. QED
    BY <2>1, <2>3 DEF Gate!Enter, Inside, Provisioning
<1>3. ASSUME NEW t \in Tasks, Release(t)  PROVE SameGate \/ Gate!Leave(t)
  <2>1. lease' = [lease EXCEPT ![t] = 0] /\ UNCHANGED flags
    BY <1>3 DEF Release
  <2>2. Inside' = Inside \ {t}
    BY <2>1 DEF Inside, IInv, TypeOK, TasksOK
  <2>3. UNCHANGED GateState
    BY <1>1, <2>1 DEF GateState, Closing, Provisioning
  <2>4. CASE t \in Inside
    BY <2>2, <2>3, <2>4 DEF Gate!Leave, Inside, GateState, Closing
  <2>5. CASE t \notin Inside
    BY <2>2, <2>3, <2>5 DEF SameGate
  <2>6. QED
    BY <2>4, <2>5
<1>4. ASSUME UNCHANGED <<lease, Provisioning>>  PROVE SameGate
  BY <1>1, <1>4 DEF SameGate, Inside, GateState
<1>5. CASE InputStep
  <2>1. UNCHANGED <<lease, flags>>
    BY <1>5 DEF InputStep, InputWakes, Goto, controllerVars, engineVars, FeedWakeWord, Acquire,
       LoadTarget, Feed, WorkersExit, taskVars
  <2>2. QED
    BY <1>4, <2>1 DEF Provisioning
<1>6. ASSUME NEW t \in Tasks, Call(t)  PROVE SameGate
  BY <1>4, <1>6 DEF Call, Provisioning
<1>7. ASSUME NEW t \in Tasks, Advance(t), ~Admit(t), ~Release(t)  PROVE SameGate
  <2>1. CASE Publish(t) \/ Unpublish(t)
    BY <1>4, <2>1 DEF Publish, Unpublish, Proceed, Provisioning
  <2>2. CASE ~Publish(t) /\ ~Unpublish(t)
    <3>1. UNCHANGED <<lease, flags>>
      BY <1>7, <2>2 DEF Advance, Deny, Goto, controllerVars, engineVars, Notify, Lock, Read,
         Return, EnableReturns, EnableBuilds, Proceed, Start, StoreTarget, SetBit,
         DisableBegins, ClearTarget, ClearBit, Stop
    <3>2. QED
      BY <1>4, <3>1 DEF Provisioning
  <2>3. QED
    BY <2>1, <2>2
<1>8. QED
  BY <1>2, <1>3, <1>5, <1>6, <1>7 DEF TaskNext, LifecycleNext

\* The event loop closes the gate, finds it empty, and opens it.
LEMMA MainGate ==
    ASSUME IInv, IInv', MainNext
    PROVE  SameGate \/ Gate!Close \/ Gate!Closed \/ Gate!Open
<1>1. UNCHANGED lease
  BY DEF MainNext, Request, Continue, Begin, At, controllerVars, taskVars, RaiseGate, Audio,
     engineVars, ClearHint, RequestShutdown, LeasesGone, Sleep, BindWorkers, StopWorkers,
     JoinWorkers, ResetEngine, ShutdownTimesOut, RestartForSetup, InitForSetup, PublishConfig,
     InitStandby, RenewStandby, StopBle, SetupTimeout, Teardown, EndProvisioning, StartWorkers,
     CreateWorkers, RollbackWorkerStart, RejoinWorkers, Consume
<1>2. UNCHANGED Inside
  BY <1>1 DEF Inside
<1>3. CASE RaiseGate
  <2>1. mpc' = "hint" /\ Provisioning'
    BY <1>3 DEF RaiseGate, To, Provisioning
  <2>2. QED
    BY <1>2, <2>1 DEF Gate!Close, Inside
<1>4. CASE LeasesGone
  <2>1. mpc = "wait" /\ mpc' = "bind" /\ Provisioning /\ Provisioning'
    BY <1>4 DEF LeasesGone, At, To, IInv, Phases, controllerVars, Provisioning
  <2>2. Inside = {}
    BY <1>4 DEF LeasesGone, IInv, Counted, Leased, Inside, Working, Locked
  <2>3. QED
    BY <1>2, <2>1, <2>2 DEF Gate!Closed, Inside, Closing
<1>5. CASE EndProvisioning
  <2>1. CASE generation = claim /\ "provisioning" \in flags
    <3>1. Provisioning /\ ~Provisioning' /\ mpc = "end"
      BY <1>5, <2>1 DEF EndProvisioning, At, Provisioning
    <3>2. QED
      BY <1>2, <3>1 DEF Gate!Open, Inside
  <2>2. CASE ~(generation = claim /\ "provisioning" \in flags)
    <3>1. mpc = "end" /\ mpc' = "idle" /\ UNCHANGED flags
      BY <1>5, <2>2 DEF EndProvisioning, At, To
    <3>2. QED
      BY <1>2, <3>1 DEF SameGate, GateState, Closing, Provisioning
  <2>3. QED
    BY <2>1, <2>2
<1>6. CASE ~RaiseGate /\ ~LeasesGone /\ ~EndProvisioning
  <2>1. UNCHANGED Provisioning /\ (mpc \in Closing <=> mpc' \in Closing)
    BY <1>6 DEF MainNext, Request, Continue, Begin, At, To, controllerVars, taskVars, ClearHint,
       engineVars, RequestShutdown, Sleep, Audio, BindWorkers, StopWorkers, JoinWorkers,
       ResetEngine, ShutdownTimesOut, RestartForSetup, InitForSetup, PublishConfig, InitStandby,
       RenewStandby, StopBle, SetupTimeout, Teardown, StartWorkers, NextAttempt, CreateWorkers,
       RollbackWorkerStart, RejoinWorkers, Consume, Provisioning, Closing, IInv, Phases
  <2>2. QED
    BY <1>2, <2>1 DEF SameGate, GateState, Closing
<1>7. QED
  BY <1>3, <1>4, <1>5, <1>6

\* The controller and the event loop implement the gate: once it is being
\* closed nobody comes in, and it is closed only when nobody is inside.
THEOREM GateImplements == Spec => GateRefined
<1>1. Init => Gate!Init
  BY DEF Init, LifecycleInit, Gate!Init, Provisioning
<1>2. IInv /\ IInv' /\ Next => [Gate!Next]_<<Inside, GateState>>
  BY TaskGate, MainGate DEF Next, Gate!Next, SameGate
<1>3. UNCHANGED vars => SameGate
  BY DEF vars, lifecycleVars, controllerVars, taskVars, SameGate, Inside, GateState, Closing, Provisioning
<1>4. IInv /\ IInv' /\ [Next]_vars => [Gate!Next]_<<Inside, GateState>>
  BY <1>2, <1>3 DEF SameGate
<1>5. QED
  BY <1>1, <1>4, Inductive, PTL DEF Spec, GateRefined, Gate!Spec, Inside, GateState, Closing
=============================================================================
