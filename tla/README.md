# TBOT firmware: a TLA+ model of its concurrent core

The firmware of the TBOT robot (ESP32, FreeRTOS) holds conversations over a
WebSocket, plays lessons from an SD card and is provisioned over Bluetooth and
sound. About 48 000 lines under `src/main` are its own; the rest of the
repository is board support, vendored components, data and documents.

Four parts of it are hard to get right and hard to test, and are modelled here:

* the *conversation*. Outbound, texts, control messages and captured audio leave the device
  while turns start, are interrupted and fail, connections are lost, closed and opened again,
  and the protocol object itself changes hands between three tasks without a common lock.
  Inbound, the server's START and STOP cross from the receive task to the event loop in
  words without a lock, while audio is pushed to the decoder between them;
* *provisioning*: the device has too little memory for audio and Bluetooth together, so the
  event loop takes the wake-word engine and the audio workers down under the tasks that use
  them, and gives them back;
* the *lesson transport*: any task may declare the transport of a lesson lost, and one worker
  must end that lesson and let go of its files, whatever it is doing;
* the *lesson packs*: a pack of assets is downloaded, activated and its predecessor deleted on
  an SD card, one file operation at a time, and power may fail between any two.

Each is model-checked with TLC. Every safety property the passing runs check, the refinements of the three abstract
specifications included, is proved with TLAPS for all values of the constants. Liveness is only model-checked.

## 1. Inventory

Tasks that matter here: the application's event loop (`Application::Run`), the
persistent `chat_outbound` task, the network worker that opens and closes the protocol,
the transport's own receive task, the audio tasks, and timers.

| Component (under `src/main`) | State | Operations | Correct when |
|---|---|---|---|
| Outbound mailbox, `chat_outbound_mailbox.h` | two-slot queue, active job, completion, atomic generation | submit, collect, take, complete, idle test: each under `try_lock`; advance generation: no lock | a job is in one place; revocation is immediate and final |
| Outbound worker, `chat_outbound_worker.*` | `state_`, `activation_`, active job and result, held packet, two flags | publish, `RunOnce`, collect, take retired | every activation comes back; no use of the protocol afterwards; audio stays behind controls |
| Connection gate, `protocols/connection_inbound_gate.h` | epoch, health, mutex | begin mutation, fail, acquire, try-acquire, healthy epoch | nothing changes the connection under a lease |
| Protocol signals, `chat_protocol_signals.h` | selected source, opened and fault marks | publish and take opened and fault, enable, disable | a signal of an old connection is never taken for the current one |
| Application, outbound half, `application_chat_outbound.cc` | reservation, generation, epoch, request identities, fault | activate, submit, retire, poll, control requests | a submission is accounted for until its completion or its retirement |
| Connection texts, `chat_connection_messages.h` | ring of records with owner, deadline, attempt | add, deliver, observe retirement, pop | written at most once, answered once, in order |
| Control intents, `chat_control_intents.h` | ring of intents | push, pop, supersede | superseded work is never begun |
| Protocol lifetime, `protocol_work_lifetime.h` | reservations, pending action | reserve, release, request, take ready | no user while the object is handed over |
| Turn handling, `application_audio_dialog.cc`, `application_chat_receiver_poll.cc`, `application_voice.cc`, `application_chat_recovery.cc` | response identity, stamp, recovery flag, obsolete reservation | START, STOP, interrupt, recover, poll playout | a turn waits for the work it superseded and then goes on |
| Open and close, `application_channel.cc`, `application_protocol_ops.cc`, `application_audio_cleanup.cc` | connect generation, open job, `chat_protocol_state_` | open, close, hand over, return, escalate | a close is served; an overtaken open has no effect |
| Playout intake and START handoff, `chat_playout_intake.h`, `chat_start_handoff.h`, `audio/conversation_playout_*` | seqlock, stamps, serials | establish, publish stop, admit, confirm, expire | a terminal is never lost and never applied to another turn |
| Rearm, `application_voice_rearm.cc`, `audio/chat_uplink_authorization.h` | rearm phase, uplink token | prepare, acknowledge, arm, revoke | no audio of a revoked listener |
| Wake word, `audio/wake_word_lifecycle_controller.h`, `audio/audio_service.cc` | packed generation and flags, lease count, engine, feed pointer, event bit | acquire, release, enable, disable, read, feed, provision, finish, rearm | no engine access while provisioning resets it; flag, pointer and engine agree |
| Provisioning session, `audio/provisioning_*.h`, `audio/audio_worker_start_transaction.h` | worker ledger, bound token, reservation and completion guards | bind, consume, reserve, commit, claim, restart | every session ends once and restores what it stopped |
| Configuration mode and BluFi, `boards/common/wifi_board.cc`, `blufi.cpp`, `application_provisioning.cc` | Bluetooth layers, setup timeout | start, restart, publish, standby, stop, time out, tear down | Bluetooth is up only while the audio is down |
| Audio queues, `audio/audio_service.cc`, `audio/audio_*.h` | encode, decode, send and playback queues | capture, push, pop, reset | a reset drops exactly what is older |
| Device state, `device_state_machine.cc` | one atomic state | transition, notify | only legal transitions |
| Reconnect, heartbeat, `application_reconnect.cc`, ... | timers, backoff | schedule, fire, cancel | one connect in flight |
| Claim, `application_claim*.cc`, `provisioning/` | claim state, workers | poll, confirm, report, unpair | a result of an old claim is ignored |
| Lesson storage, `lesson_asset_storage_coordinator.cc`, `sd_fat_session_guard.cc` | mutation, session and read leases, the SD reservation | begin, release in two steps, retain, end, force end | no mutation under a session or an open handle |
| Lesson transport, `lesson_transport_hardening.h`, `lesson_transport_epoch_gate.h`, `application_lesson.cc`, `lesson_handler.cc` | epochs, frame queue and admission, the session's reservation | publish, enqueue, drain, prepare, stop, abandon | a lesson whose transport is lost ends, with its files closed |
| Pack activation, `lesson_asset_pack_activation.cc` | pointer, temporary and backup files | recover, activate, evict the previous pack | one pointer to a whole pack after any power loss |
| Download, cache, selection, `lesson_asset_*.cc`, `mcp_server.cc` | stored assets, retained selection, the sync slot | request, store, evict, retain | what is retained or pointed to is not deleted |
| Lesson media, renderers | scene, media, display ownership | load, play, end | |
| Wi-Fi, `components/esp-wifi-connect` | scan lease, recovery gate, barrier | claim, complete, recover | one owner of the radio |
| OTA, MCP, settings, displays, robot UART, boards | | | |

Interaction. The event loop submits jobs to the mailbox and notifies the worker; the worker sends
through `WebsocketProtocol` under a lease of the gate and notifies the loop. A
START from the server, a listen, a close or a fault advances the mailbox's
generation, which revokes everything at once, and the loop then waits for the
worker to hand its reservation back. Only when all reservations are back does
the protocol object move to the network worker for a close, and come back.
A START is published to the loop, which gives the reply a generation and a reset token and admits it; the
receive task confirms and only then lets audio through. A STOP ends exactly the response it was captured
for. A lost lesson transport is published as an epoch to the lesson worker, which alone ends the lesson and
gives its reservation of the files back; the sync worker and the event loop's tools need a mutation
lease of the same coordinator. `PROJECT.json` lists every component with what is modelled of it, and the hazards.

## 2. Modules

| Module | Models |
|---|---|
| `ChatMailbox` | `ChatOutboundMailbox`: each operator is one critical section |
| `ChatConnection` | the gate, the socket, and the identity by which the application knows a connection |
| `ChatOutboundWorker` | `RunOnce` and the conditional sends, one action per shared access; extends the two above |
| `ChatOutbound` | the event loop's half and the network worker, and the composition: `Init`, `Next`, `Spec`, the fairness and all properties |
| `TextDelivery` | what `RequestChatConnectionText` promises: the abstract specification |
| `ChatOutboundProofs`, `ChatDeliveryProofs` | the theorems about `ChatOutbound`: tasks, connection and audio; then the intents it submits and the refinement of `TextDelivery` |
| `MCChatOutbound` | the root module of the runs |
| `WakeWordLifecycle` | the lease controller, the wake-word engine and the tasks that use it, one action per shared access |
| `WifiProvisioning` | extends it by the event loop's provisioning: begin, Bluetooth, end; `Init`, `Next`, `Spec`, fairness and all properties |
| `QuiesceGate` | what the lease gate promises: the abstract specification |
| `WifiProvisioningProofs` | the theorems about `WifiProvisioning` |
| `MCWifiProvisioning` | the root module of its runs |
| `ChatReceiver`, `MCChatReceiver` | the receive side: START handoff, playout intake, decode queue, and the loop's handling of a reply |
| `ChatReceiverProofs` | the theorems about `ChatReceiver` |
| `SequenceFilter`, `SequenceFilterProofs` | the elements of a queue that stay, in their order, and what is proved of them |
| `LessonStorage` | the storage coordinator and the SD guard; extended by the two below |
| `LessonTransport`, `MCLessonTransport` | the terminal epochs, the frame queue, the lesson worker and the handles of a renderer |
| `LessonPacks`, `MCLessonPacks` | sync, activation, eviction and selection on the card, with losses of power |
| `PackPointer` | what an activation promises to a lesson: the abstract specification |
| `LessonStorageProofs`, `LessonTransportProofs`, `LessonPacksProofs` | the theorems about these three |

**The loop.** `PollChatOutboundEvents` is one handler, but the worker, the network
and the transport run between any two of its calls. `apc` walks through it in the code's order:
source open, protocol signals, START, outbound (directly or from `PollChatPlayout`),
delivery, retirement, the rest of the turn, controls, connection texts with the submission
as a step of its own, cleanup. Only at `"idle"` can another handler of the event loop run
(a request, a listen, a close, an open, the epilogue of the open worker).
A step boundary is put wherever another task's step can change what the next
line of the loop reads: around each critical section of the mailbox, around the publication of
the activation, after collecting.

**The worker.** `pc` is the place in `RunOnce`: a step for each load of the
generation, each critical section, the lease, the second authorization, the write, the two halves of
`FinishControl`, the retiring store. `"sleep"` is the notification wait;
`tick` says that it asked for a bounded retry.

**The network.** `OpenBegins`, `OpenPublishes` and `OpenFails` are the three places where
`OpenAudioChannel` takes the gate; `RunChatProtocolCleanup` is the close.
`SocketDown` and `SocketDisconnected` are the transport: unusable first, told later.

**Identities.** A reservation token is named by the generation of its activation
(one activation, one token). A connection is named by its gate epoch. A text or a control is a number `ref`
in order of admission; payloads do not exist. History variables: `wire`
(what was written and where), `told` (how texts were reported), `ahead` (jobs pending when the packet
was popped). Nothing in the model reads them.

Abstractions, each an over-approximation unless it says otherwise:

* A failed `try_lock` may happen at any access, up to `MaxContentions` in a run.
* A deadline is membership in `expired`; time may pass at any moment.
* The playout controller, the STOP intake and the reset clock are a nondeterministic
  recovery or interruption of a live turn; `ChatReceiver` has that side, and takes this one as a choice.
* A failed ping, or a failed text that carries an authorization flag, faults the connection:
  a choice when a text is popped. The flag itself is not modelled, so a text is not cancelled through it.
* A text the mailbox refuses with `Busy` gives up its identity, a control keeps it, as in the code.
* `TryIdle` compacts the queue in the code. Every reader compacts first, so the model
  does it lazily.
* Only the close of the protocol is modelled: reset, reinitialise and reboot, a
  failed hand-over and the lesson readers are left out, and with them the `protocol_generation`
  that a reset advances.
* The jobs of the rearm (`ListenStart`, `DrainAck`) and the wake text of a control
  are not modelled.

### Provisioning

**The tasks.** A client (any task that calls `EnableWakeWordDetection` or a reader) and the audio input
task take a lease in two steps, the count first and then the look at the state
(`Acquire`, `Admit` or `Deny`), and give it back in two, the count and then the
notification under `wait_mutex_` (`Release`, `Notify`). In between, `pc` walks through the
call: the mutex, the engine, `SetRunning`, the feed pointer, the event bit, each a step.
`lease[t]` is the generation of the lease, 0 for none; `counted` is who is in `active_leases_`.

**The event loop.** `mpc` walks through one handler: `Begin` to `"bound"` is
`BeginWifiProvisioning`; from there `StartWifiConfigMode` (bind, restart BluFi, publish) or the
standby advertising of an unclaimed device; `"end"` to `"consume"` is
`EndWifiProvisioningAndRearm` with the two attempts of `AudioWorkerStartTransaction`. A failure leaves the handler where the
code returns. Between handlers (`"idle"`) come requests: either kind of begin, a renewed or stopped advertising, the setup
timeout, and a teardown with any token handed out so far, which may be late. `restart` and `active` are the ledger, `token` the binding;
`ble = "residue"` is a stack some layer of which could not be removed.

Abstractions:

* `active_leases_` is a set: a task is counted once at a time. Accesses are sequentially consistent; the
  model does not question the memory orders of the controller.
* Creating and initialising the engine may fail or not, for no reason; how the AFE
  detects a word, and the acknowledgement of its stop, are inside one step. The engine is the AFE's.
* The three workers are one: input stands for all, and the other two leave when it does.
* Whether the device is claimed is fixed in a behaviour. A claim activated later and the OTA's own
  stop and start of the workers are not modelled, nor are the station's recovery timer, the
  setup generation and SSID transaction, the credentials, and the reserved network headroom.
* A reader that is refused takes the mutex all the same in the code and finds no lease; here it goes away.
* The reservation and completion guards are taken and given back within one handler of the
  one task that uses them, so they are never found taken.
* A deinitialisation, initialisation, worker stop or worker start may fail at will, the last two at most
  `MaxStartFailures` times.

### Receiver

**The receive task.** `rx.at` is its place: waiting for the admission of a START it has published (`HearStart`,
`SampleClock`, `Confirm` or `Await`), or inside `PublishStop` between its marker, its `try_lock` and its write (`HearStop`,
`LockStop`, `WriteStop`). Audio is pushed only between these. A step boundary stands wherever
the loop can see or change what the next line reads.

**The loop.** `app.at` walks through a round: `PollChatStart` with `Admit` and the second look `ReviewAdmission`, then
`PollChatPlayout` with `TryCollect` in two steps (`LockIntake`, `CollectStop`). Between two rounds come the listen, the abort, the stop of a
listen and the end of a reply; `"quiet"` is the point between the mark for the receiver (`CompleteListener`) and
the device state.

Abstractions:

* A source stands for the whole identity the code compares (source, epoch, protocol and connect generation). Snapshots that
  detect tearing by a second read of their serial are one step.
* A failure of the outbound side or of the audio worker, a deadline of the drain and the controller's verdict are choices
  (`RefuseReply`, `ReplyFails`, `MayEnd`), as is the delivery of a listen request (`ArmListener`). The intake look of `AdvanceChatRearm` is one more
  `PollPlayout`.
* Words of the handoff that belong to an earlier serial match nothing any more and stand as 0.
* Decoding a packet is one step, from the queue to its last claim. Packets without a reset token (the legacy path) and lesson
  audio are not modelled, nor the listen stop without a response, nor a START in a device state other than idle, listening and speaking.
* `speech`, `owner` and `ended` are history: which START a packet was heard after, which START owns the generation, and
  the first STOP heard of a response. Nothing else reads them.

### Lesson transport

`asked[r]` is a task in `RequestLessonStorageAbandonment`: the epoch, the latest, the pending flag and the wake-up are steps of their own
(`PublishStep`). `wpc` is the lesson worker: `DrainTerminal`, then a frame from the queue, which it prepares, stops or drops; an abandonment
walks through discarding the session, ending its reservation and, after `MaxAttempts`, the forced end. `FinishWorkerDrain` is four steps, because
another publication may fall between any two of them. The renderer keeps one handle (`"clip"`), its
timer takes a second one for a tick (`"frame"`).

Abstractions: a frame is a prepare or a stop of a session under an epoch; the steps of a lesson, its acknowledgements and completions are
not modelled. A failing prepare ends its own session at once; the code ignores the result of that call, and the
forced end is its backstop. The prepare and stop are those of protocol versions 3 to 5.

### Lesson packs

`job.phase` walks through the sync worker: storing the assets, recovering an interrupted replacement, deciding, the four file
operations of `WriteActivePointerAtomically`, and the eviction of the previous pack after the lease is gone. `tool` is the event loop in the eviction or the
selection tool. `pointer` and `stored` are the card, `selection` the NVS record; `LosePower` keeps these and forgets everything else. A
pointer that is being written when the power goes is `Torn`.

Abstractions:

* A file operation is atomic and durable when it returns; a rename never replaces a file (FatFS). Replacing an asset that exists already, which the code does over
  a backup of its own, is one step, and an asset is on the card only once verified. `RestorePointer` is a rename and a removal in one.
* One lesson; one selection per request identity; the legacy pointer files are absent. A refusal to make the
  device quiet for a sync leaves the request where it is.
* The hardware fixtures and the overload of the activation without a lease, which has no production caller, are left out.

In `LessonStorage` a lease of a mutation is given back in two steps, the SD reservation before the flag, as in the code. The blocking
`Acquire` of the SD guard, which the board uses to mount the card, is not modelled.

## 3. What the properties say

Safety of the composition:

* `ProtocolUnderOneOwner`: while the network worker owns the protocol object, no open is running and
  the outbound worker has returned its reservation and is between two rounds.
* `LeaseKeepsConnection`: while a send holds the gate, the socket it looked up stays the
  healthy one of its epoch.
* `SubmittedAccounted`: a text marked submitted has its attempt in the mailbox or in the loop's hands, or its
  reservation is retiring and will free it. No text is stuck as submitted.
* `CompletionClaimed`: every collected completion belongs to a text or to the front control; the
  turn never fails because of somebody else's completion.
* `NoSupersededWrite`: no write is begun for a control after a START has superseded it.
* `AudioNeverOvertakes`: a packet captured after a submission does not go out before that job is finished.
* `TypeOK`: in particular the generation saturates.

Refinement. `DeliveredOnce` and `EveryTextAnswered` are `TextDelivery` under the mapping
`accepted <- textCount`, `log <-` the texts in `wire`, `told <- told`: each text
reaches the wire at most once and in order, over any number of connections, is reported exactly once, as Sent only
if it was written, and nothing is written for a text already reported; with fairness, each is reported.

Liveness of the conversation: `RetirementCompletes` (a retired activation comes back), `CloseServed`,
`AudioDrains`, `ControlsSettle`.

Provisioning:

* `EngineOutlivesUse`: no task stands before a use of the engine after it was destroyed. The feed has no mutex, only its lease.
* `QuietUnderBle`: while any layer of Bluetooth is there, no engine, no pointer, a closed gate, and no workers (except those a failed start
  could not roll back).
* `PublishedTogether`: with the gate open and nobody inside, flag, pointer and engine agree; a late enable leaves nothing behind.
* `PriorAudioRestored`: with the token gone and the gate open, the workers run if and only if they did, unless the restart failed twice.
* `GateRefined`: `QuiesceGate` under the mapping `inside <-` the holders of leases, `gate <-` open, closing or closed by flags and place: nobody comes in
  while it is closing and nobody is inside while it is closed.
* `SleeperIsOwedAWakeup`: while the event loop sleeps on the condition variable some task is still counted, or has given up the
  last count and is on its way to the notification. The count goes down outside the mutex, so this is where a wake-up could be lost.

Receiver:

* `PlayedAudioBelongs`: what the decoder can still play was heard after the START whose reply owns the generation and the
  token, and before its STOP.
* `StopEndsItsOwnReply`: a drain that has begun, a listen that goes on after an interrupt, and a recovery blamed on a STOP are all for a STOP
  heard of this very response, by the clock of the first.
* `StartSettles`: the START of a connection that stays ends in the application's effects or in its recovery; neither the 250 ms nor
  a confirmation falls between the two tasks.
* `StopAnswered`: a STOP heard of the reply being played begins its drain or ends it, however the two tasks meet at the lock.

Lesson transport:

* `AdmissionConserved`: the admission counts the frames queued or about to be; a leaked one would close the channel for good.
* `OwnerHoldsFiles`: the lesson the handler believes in holds the coordinator's reservation.
* `NoHandleOutlivesLesson`: the forced end never finds a handle open.
* `LostLessonEnds`: a lesson whose transport was declared lost ends, and none of that transport begins after it.

Lesson packs and storage:

* `PointedPacksWhole`: whatever pack a restart may come to show has every asset.
* `PointerIsAtomic`: `PackPointer` under `shown <-` what recovery would find, `whole <-` the packs with all assets: the pointer is switched in one
  step, to a whole pack, and never lost; a pack that is shown loses no file.
* `SupersededRemembered`: the marker of a superseded pack stays until that pack is gone, asked for or shown again.
* `UndisturbedSyncConverges`: a sync without failure or refusal leaves its pack active or clears the marker that kept it from being activated.
* `RetainedPackKept`, `PacksStillDuringLesson`: no file of a retained pack, and none of any pack during a lesson, goes.
* `WritersAlone`: who may write is alone: no session, no handle, no second writer.

## 4. Runs

| Run | Specification | texts / controls / packets / opens / turns / expiries / contentions | Shows |
|---|---|---|---|
| `Reconnect` | `Spec` | 3 / 0 / 0 / 2 / 0 / 0 / 0 | three texts for a store of two, over two connections, with closes and failures; the request identities run out |
| `Turns` | `Spec` | 1 / 1 / 0 / 1 / 1 / 0 / 1 | a START, listen or interruption against a text and a control; the generation saturates |
| `Audio` | `FairSpec` | 0 / 1 / 1 / 2 / 1 / 0 / 0 | a packet and a control over two connections and a turn; captured audio drains |
| `TextLiveness` | `TimedSpec` | 1 / 0 / 0 / 1 / 0 / 1 / 1 | texts are answered, activations return, closes are served |
| `TurnLiveness` | `TimedSpec` | 0 / 2 / 0 / 1 / 1 / 2 / 0 | two controls in a queue of one settle, by overflow, delivery or deadline |
| `Rebind` | `FairSpec` | 1 / 0 / 0 / 1 / 1 / 0 / 0 | violated: section 6 |

| Run | Specification | Bounds | Shows |
|---|---|---|---|
| `Receiver` | `FairSpec` | numbers to 3, a queue of 1, 2 events | two replies and the exhaustion of every number, with two STOPs, user acts or losses of the connection |
| `Quiesce` | `Spec` | 2 clients, 2 calls, 5 generations, 2 failures | all safety properties of provisioning and the refinement of the gate |
| `Reenter` | `Spec` | 1 client, 1 call, 4 generations | violated: section 6 |
| `Transport` | `FairSpec` | 2 requesters, 3 epochs, 2 frames, a queue of 1, 1 attempt | two tasks declare the transport lost while lessons are prepared, drawn and stopped |
| `Packs` | `PacksSpec` | 3 packs of 2 assets, 3 requests, 2 faults, 2 revisions | syncs, evictions, selections and a lesson, with failed file operations and losses of power |
| `UnleasedMarker` | `PacksSpec` | 2 packs of 1 asset, 2 requests, no fault | violated: section 6 |

Bounds. `Exhausted` (the code's `UINT32_MAX`) and `RequestLimit` (`UINT64_MAX`) are limits the code itself saturates
at; they are made small so that they are reached: the identities in `Reconnect`, the generation in `Turns`, serials, stamps, generations and tokens in `Receiver`.
`TextSlots`, `ControlSlots`, `QueueDepth`, `DataDepth` and `MaxAttempts` are capacities and limits of the code, small so that they are met. The
other `Max...` constants cap the inputs. They are small because each hazard
is a race of one or two requests with one revocation: two connections show every transfer from an old
one to a new one, one turn supersedes, one refused lock shows each retry. There is no symmetry: texts
are ordered. In provisioning a session takes two generations, so five of them are two whole sessions, or a re-entry and its
end; two calls put an enable of each of two clients, or an enable and a disable, against a begin, beside the input task, which is not bounded; two
failures exhaust the retry of a start. In the receiver two replies are a reply and its successor, and two events put a STOP beside a
duplicate, a different STOP, an abort, a listen or a loss. Three epochs are two losses in a row. Three packs are the one shown, the one
superseded and the one asked for; two faults put a loss of power into the recovery from the first.
Deadlock is checked in every run but two: in `Receiver` the loop has nothing to do once the inputs are spent, which is how it waits for events,
and `UnleasedMarker` ends with its two requests.

Fairness. The `FairSpec` of the conversation has weak fairness of the poll, of the worker's step and of the network worker (three FreeRTOS
tasks that are scheduled whenever they are ready; the loop polls on a periodic tick) and strong fairness of the
scheduled epilogue of the open worker (the closure stays in the event loop's list, polls come
between). Nothing is assumed of the user, the server, the transport or the capture. A failed
`try_lock` is retried and fails at most `MaxContentions` times. `TimedSpec` adds that a
deadline passes once it is set.
`ChatReceiver` has weak fairness of the loop's rounds, of a receive task inside a handler, and of the 250 ms. Nobody has to send a STOP or play a packet.
`LessonTransport` has weak fairness of a task inside a publication, an enqueue or a read, and strong fairness of the lesson worker: it waits for the renderer's
mutex, which a timer takes again and again for a tick, and FreeRTOS hands a mutex to the task that waits.
`WifiProvisioning` and `LessonPacks` have no liveness property: of the first, what a caller waits for is stated as the invariant
`SleeperIsOwedAWakeup`; in the second a sync may fail at any file operation, and what it leaves behind is `UndisturbedSyncConverges`.

## 5. Proofs

`ChatOutboundProofs` proves, for all values of the constants,

* `TypeCorrect`: `Spec => []TypeOK`
* `OneOwner`: `Spec => []ProtocolUnderOneOwner`
* `LeaseHolds`: `Spec => []LeaseKeepsConnection`
* `AudioStaysBehind`: `Spec => []AudioNeverOvertakes`

None of them is inductive alone. `IInv` strengthens the first three:

* `TypeOK`;
* `Ownership`: a reservation is held exactly while an activation is published; the worker leaves the top of
  `RunOnce` only inside an activation; the protocol object is handed over only with the reservation and the open back.
  `ProtocolUnderOneOwner` needs it because the close is granted on reservations while the worker is judged by where it
  stands;
* `LeaseHeld`: the gate is leased exactly at the three places of a send, and then for the connection of the job;
* `Carried`: wherever the worker works on a job it has one, and the text about to be submitted is still there.

`Inductive` proves it action by action. Lemmas first state what each critical section and each
helper (`Revoke`, `Recover`, `Activated`, `Submit`, `PopText`, ...) does to the parts of the invariant, so that the
steps of the loop cite them and not their definitions.
The other theorems of this module rest on it. `AudioStaysBehind` adds `Ordered` (everything queued, active, completed or counted as `ahead` was admitted under an
identity and a generation not later than the last ones, so a retired job never becomes current again) and `Cleared` (past
the second idle test the mailbox holds no job that was ahead of the packet).
The constants' assumptions are those of the modules: naturals, and at least one slot per ring.

`ChatDeliveryProofs` proves of the intents, for any number of texts, controls, turns, opens and connections,

* `TextsAccounted` (`SubmittedAccounted`), `CompletionsClaimed` (`CompletionClaimed`), `SupersededUnwritten` (`NoSupersededWrite`)
* `TextsDelivered`: `Spec => DeliveredOnce`, that is `Spec => Delivery!DeliverySpec`

from `DeliveryInvariant`: `Spec => []DInv`. The three invariants look at the two stores, at the mailbox and at the wire separately;
each is true because of where the attempt of an intent is at this moment, and this is what `DInv` adds to `IInv`:

* `Generations`: a generation the application believes in is the published one, of the reservation and of the worker's activation, and no
  job anywhere is of a later one; so a job whose generation is retired never becomes current again;
* `Line`: collected, completed or active, queued: the jobs stand in the order of their identities, none later than the last admitted. So
  an identity is in one place, and a new one is nowhere yet;
* `Placed`: the job `RunOnce` keeps is the one the mailbox has as active, and up to the write there is no result;
* `TextStore`, `ControlStore`, `Apart`: the texts are numbered without a gap after those that were told, only the front of a store is ever
  submitted, a text for the reservation that is held, and no control and text under one identity; a superseded control is of a retired generation;
* `Claims`: for every job that can still complete the front intent that submitted it waits, and the front text that was submitted is
  carried by such a job unless its generation is retired;
* `Log`: the wire has no text beyond the front one, and that one only if the attempt has been reported or its report is on its way; whatever is
  reported as Sent is on the wire.

Most steps of the loop are `Quiet`: they leave the mailbox and the worker alone and move the generation and the stores in one of a few ways
(`Moves`, `Starts`, `TextsQuiet`, `ControlsQuiet`). One lemma per action says that it is one, and `QuietStep` once for all that
such a step keeps `DInv`. The admission of a text and of a control, the final acknowledgement, the
collection and the delivery have lemmas of their own, as do the worker's take, completion and write. The refinement maps a request to `Accept`, the
pop of the front text to `Tell`, the write of a text to `WriteText` and everything else to a stutter. `NoSupersededWrite` follows from
the last clause of `ControlStore` and the second authorization, in `Format`.

`WifiProvisioningProofs` proves, for any set of clients and any number of calls, sessions and failures,

* `TypeCorrect`, `EngineAlive`, `BluetoothQuiet`, `Published`, `AudioRestored`, `WakeupOwed`: the six invariants of `Quiesce`
* `GateImplements`: `Spec => GateRefined`, that is `Spec => Gate!Spec`

from `Inductive`. `EngineOutlivesUse` says where tasks stand, the destruction looks at a counter; the
invariant closes the gap in links: who is counted (`Counted`), who has a lease and of which generation (`Leased`), who has the
mutex (`Held`), that a pointer implies an engine (`Alive`), and that past the wait nobody has a lease (`Closed`). `Phases`
and `Ledger` tie each place of the event loop to gate, ledger, token and claim; `SessionQuiet` says that every state
from which Bluetooth can come up is quiet already, a later standby with a bound token included; `Agree` says how flag, pointer and engine
differ at each place of the holder of the mutex; `Restored` why workers that were stopped are still off. Each action has a lemma, with one step
per group of conjuncts where it disturbs several. The refinement maps an admission to `Enter`, a
release to `Leave`, `RaiseGate` to `Close`, `LeasesGone` to `Closed`, the end of the session to `Open` and everything else to a stutter. The assumptions
are that the input task is no client and `NoTask` no task.
`WakeupOwed` needs the set of the counted and the notifying: a task leaves the count only for the notification.

`LessonStorageProofs` proves, for any tasks, handles, sessions and generations, `StorageExclusion` (`WritersAlone`),
`StorageReaders` (read leases are counted exactly and belong to one session) and `StorageReturns` (a session ended by force keeps the card only for a handle
whose closing gives it back). The linchpin is `Reserved`: the SD reservation says which side the card belongs to, the lesson's while a
session or a reader is there, a mutation's while a lease is held. `OneMutation` and `Generations` say that one flag has one lease
and one generation one session. The last two theorems are about states the runs do not ask for by name.

`LessonTransportProofs` proves, for any requesters, epochs, frames, queue depth and attempts, the four invariants of `Transport`: `TransportTypeOK`,
`AdmissionKept` (`AdmissionConserved`), `LessonsHoldFiles` (`OwnerHoldsFiles`) and `HandlesEndWithLesson` (`NoHandleOutlivesLesson`), from `TransportInvariant`. `TInv` adds to the coordinator's
invariant what holds between two steps of the worker: a lesson just prepared is the session that is active, one that is being ended or forced is no longer
the handler's (`WorkerPlaces`), and handles belong to a lesson the handler knows of (`Attended`). The queue has lemmas of its own on what an append, a control put in front
and a receive do to the set of data frames that the admission counts. `TransportUsesCoordinator` proves `Spec => StorageSpec`: each step is one of the coordinator's or leaves it alone, so the
invariant of `LessonStorageProofs` is used here, not proved again.

`LessonPacksProofs` proves, for any packs, assets, selections, requests and faults, all properties of `Packs`:
`PacksWritersAlone` (`WritersAlone` again, from `PacksCoordinator`: the coordinator's invariant also holds under its callers in the card model), `PacksTypes`, `PointedPacksAreWhole`, `UndisturbedSyncsConverge`, `SupersededPacksRemembered`, `RetainedPacksKept`, `PacksStillInLessons` and
`ActivationIsAtomic`, the refinement of `PackPointer`. None is inductive: an eviction looks at the pointers once and then deletes file by file. `PacksInv`
adds who holds the lease in each phase (`Leases`), which packs any of the three pointer files stands for (`Pointed`), what the worker may rely on between
two file operations (`Activating`, `Cleaning`), and that a pack being evicted is one nobody points to or retains (`Evicting`); the last holds because pointers
and selection change only under the lease that the eviction holds. Each action has a lemma. The action properties and
the refinement follow from three frame lemmas: which actions touch the card, the assets, the pointers.

`ChatReceiverProofs` proves, for any saturation limit, queue depth and number of replies and events, `ReceiverTypeOK`, `AudioBelongs` (`PlayedAudioBelongs`) and
`StopsEndTheirReply` (`StopEndsItsOwnReply`) from `ReceiverInvariant`. `RInv` adds:

* `Connected`: a source is never published twice, and every loss of one is an event that is counted;
* `Stamped`, `Clocked`: the response being played is the one of the intake's stamp; whatever the intake keeps is of the last response a STOP was heard of; the first STOP of a
  response is stored, lost to a fault, or still in the receive task's hands between its marker, its lock and its write;
* `TokensBehind`, `Admitting`: reset tokens only grow, so what joins the reply of the moment was given its numbers, by the START the loop is admitting or has admitted;
* `Speaking`, `QueueBelongs`: the audio that joins it, in the receive task's hands or in the decode queue, was heard after its START, unless its source is gone.

Saturation is the hard case: at the limit a stamp or a token is given twice, and each clause has to say that such a number admits nothing.

`SequenceFilterProofs` is the base of these. A queue that loses its packets of an old token, and the texts among the writes, are filtered sequences. `SelectSeq` is
recursive in the standard module and out of the provers' reach, so the models use `Only`, a recursive function over the length, and this module proves what is needed:
that the function exists (`OnlyDefined`), its type, and that it has nothing the queue has not (`OnlyType`, `OnlyFits`), and what an append adds (`OnlyAppended`). The
induction is over sets of naturals (`Induct`), from the library's theorem that `<` is well founded, since the induction theorems that take a predicate cannot be instantiated.

Only model-checked: the liveness properties (`RetirementCompletes`, `CloseServed`, `AudioDrains`, `ControlsSettle`, `EveryTextAnswered`, `LostLessonEnds`, `StartSettles`,
`StopAnswered`). They depend on fairness and on when actions are enabled, which the proof system does not handle. The three runs of section 6 are counterexamples; there is nothing
to prove about them.

## 6. What the model found

`Rebind` is a run that fails on purpose. `chat_start_obsolete_reservation_` is set when a START or an
interruption makes a turn wait for the worker it retired, and cleared only in `PollChatPlayout`, which does not
get that far when the turn recovers first. The number stays; the reservation it names has
long retired. `PollChatConnectionMessages` (`application_chat_recovery.cc:390`) submits nothing while it is set, so a
text accepted on the same, still healthy connection waits until a next turn clears it or until its own
deadline; a ping that fails this way faults the connection. `chat_connection_messages.h:6-7` promises that
attempts are rebound once their exact reservation has retired. `TextRebound` states that, and TLC shows the
behaviour. With deadlines (`TextLiveness`) the text is still answered, as Failed.

`Reenter` fails on purpose too. `BeginWifiProvisioning` raises the generation of the gate before the worker
ledger gets to refuse a second session (`audio_service.cc:1122`, `1131`), and no caller asks whether one is bound: the
guard of `StartWifiConfigMode` (`wifi_board.cc:471`) tests the access point's flag, which is never set with BluFi. A
request for configuration mode while an unclaimed device advertises in standby, or a second one in configuration mode, fails, and leaves the bound token
behind a generation it no longer matches: its teardown fails, every later begin fails, and the audio is off until a reboot. The design
(`docs/superpowers/specs/2026-09-03-blufi-audio-memory-quiesce-design.md:6-9`, `:60-61`) has every path restore the audio. `BoundSessionCanRestore` states that a bound
session can. `PriorAudioRestored` is not affected: it speaks of sessions whose token is gone.

`UnleasedMarker` is the third. The eviction that follows an activation takes its own mutation lease, and gives it back before
`active.json.backup` is removed (`lesson_asset_pack_activation.cc:449`; in the other branch, `:454-457`, none is taken). A lesson may be prepared, and the eviction and selection tools may hold the card,
when the file goes. The coordinator's plan and design
(`docs/superpowers/plans/2026-07-16-lesson-asset-storage-coordinator.md:7`, the design's `:145-147` and `:272`) have every writer inside a mutation lease
that spans the complete operation. `WritersHoldLease` states that. The effect is small: `SupersededRemembered`, which is proved, says that only the marker of a pack that is gone, shown or asked
for again is removed so.

Points seen while modelling that no run is about:

* The setup timeout takes the stack down and keeps the token, so the audio stays off until the
  next session ends. The tests and documents describe it that way.
* Ending a listen marks the response complete (`application_voice.cc:39`, `application_voice_rearm.cc:212`) before the device
  state becomes idle. A refresh of the listener that the receive task reads in between finds neither a listener with its uplink nor an idle
  device (`application_chat_receiver_poll.cc:198-210`), is taken for an invalid STOP and recovers a reply that had completed, which the comment at `:193-197` rules out. The two
  steps are apart in `ChatReceiver`; the outcome is a device that is idle, where it was going.
* An abort between the admission of a START and its confirmation does not mark the START as failed, so its late effects
  (`application_chat_receiver_poll.cc:51-66`) still put the device into speaking until the speaking timeout. `PlayedAudioBelongs` holds all the same: the
  abort has taken the token away.
* A task delayed between choosing a terminal epoch and publishing it lets the worker apply the epoch first; the late flag then abandons a lesson
  prepared under the new epoch (`application_lesson.cc:185-186`). `LostLessonEnds` allows it: the transport was lost again as far as anyone can tell.

## 7. Not modelled

What is left out, and why:

* The escalation of a close into a reset, a reinitialisation or a reboot (`application_audio_cleanup.cc`), with the intentional flag: it crosses the
  protocol's lifetime, the audio workers and the lesson readers at once, three models this project keeps apart to keep each within reach of TLC.
* `ProvisioningSetup` (setup generation, SSID transaction, the station's recovery timer) and a claim that becomes active during a session: they depend on the
  Wi-Fi driver.
* The Wi-Fi component (scan lease, recovery gate, barrier): driven by events of the ESP-IDF driver whose order the repository does not fix.
* The device state machine and its callers on other tasks: the models carry the state where a handler tests it, so a race of two transitions is
  out of their reach.
* The playout controller's arithmetic, the codec, output drain, the publication of the reset epoch.
* The liveness of a lesson sync: with failures at every file operation it comes down to the retry of the server, which is outside.
* Claim and OTA (HTTP and persisted settings, the outcome belongs to the server), MQTT (none of the conditional sends), MCP's registry and dispatch,
  rendering and media decoding, settings, displays, robot UART, boards and vendored components: data
  transformation or hardware I/O with little shared state.

The map covers a small share of the repository's lines for the same reason: most of them are images, drawing, drivers, boards and vendored components.
