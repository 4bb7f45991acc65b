------------------------- MODULE ChatOutboundWorker -------------------------
(* The persistent chat_outbound task: ChatOutboundWorker::RunOnce and the      *)
(* send it makes on WebsocketProtocol under the gate lease. Each action is one  *)
(* shared access, or the accesses nothing else can tell apart; pc names the     *)
(* place RunOnce has reached.                                                   *)
EXTENDS ChatMailbox, ChatConnection

CONSTANTS
    MaxTexts,      \* connection texts the application ever admits
    MaxControls,   \* control intents it ever requests
    MaxContentions \* failed try_locks, of the mailbox and of the gate together
ASSUME WorkerAssumption ==
    MaxTexts \in Nat /\ MaxControls \in Nat /\ MaxContentions \in Nat

\* What a job carries is one of these, numbered in the order of admission.
Texts    == 1 .. MaxTexts
Controls == (MaxTexts + 1) .. (MaxTexts + MaxControls)
Refs     == Texts \cup Controls

VARIABLES
    pc,                 \* where RunOnce is; "sleep" is ulTaskNotifyTake
    tick,               \* RunOnce asked for a bounded retry
    notified,           \* xTaskNotifyGive, coalesced
    workerState,        \* state_: 0 unpublished, 1 owned by the worker, 2 retired
    activation,         \* activation_: connection epoch and generation
    workerJob,          \* active_ with active_present_
    workerResult,       \* active_result_
    packet,             \* packet_ is held
    audioFailure,       \* audio_failure_
    completionWaiting,  \* completion_waiting_
    contentions,        \* try_locks that failed so far
    captured,           \* packets in the send queue of AudioService
    ahead,              \* history: jobs pending when the packet was popped
    expired,            \* refs whose deadline has passed
    wire                \* history: what was written, and on which socket

workerVars == <<pc, tick, workerState, activation, workerJob, workerResult,
                packet, audioFailure, completionWaiting>>
historyVars == <<ahead, wire>>
localVars == <<tick, workerState, activation, workerJob, workerResult, packet,
               audioFailure, completionWaiting>>

WorkerInit ==
    /\ pc = "start" /\ tick = FALSE /\ notified = FALSE
    /\ workerState = 0 /\ activation = [epoch |-> 0, gen |-> 0]
    /\ workerJob = NoJob /\ workerResult = "Busy" /\ packet = FALSE
    /\ audioFailure = FALSE /\ completionWaiting = FALSE
    /\ contentions = 0 /\ captured = 0 /\ ahead = {} /\ expired = {} /\ wire = <<>>

Current == IsCurrent(activation.gen)

Return(retry) == pc' = "sleep" /\ tick' = retry

\* A try_lock fails while another thread is inside; the caller comes back.
Contended == contentions < MaxContentions /\ contentions' = contentions + 1
Uncontended == UNCHANGED contentions

-----------------------------------------------------------------------------
\* ulTaskNotifyTake returns on a notification or, after a retry, on a tick.
Wake ==
    /\ pc = "sleep" /\ (notified \/ tick)
    /\ pc' = "start" /\ tick' = FALSE /\ notified' = FALSE
    /\ UNCHANGED <<workerState, activation, workerJob, workerResult, packet,
                   audioFailure, completionWaiting, mailboxVars, gateVars,
                   identityVars, cleanup, contentions, captured, expired, historyVars>>

\* From the first load to the take: what RunOnce finds decides where it goes.
Start ==
    /\ pc = "start"
    /\ \/ /\ workerState # 1
          /\ Return(FALSE) /\ UNCHANGED <<packet, workerResult>>
       \/ /\ workerState = 1 /\ ~Current
          /\ packet' = FALSE
          /\ workerResult' = IF workerJob # NoJob /\ workerResult = "Busy"
                             THEN "Stale" ELSE workerResult
          /\ pc' = IF workerJob # NoJob THEN "lastFinish" ELSE "retire"
          /\ UNCHANGED tick
       \/ /\ workerState = 1 /\ Current
          /\ UNCHANGED <<packet, workerResult>>
          /\ IF audioFailure \/ (workerJob = NoJob /\ completionWaiting)
             THEN Return(FALSE)
             ELSE /\ pc' = IF workerJob = NoJob THEN "take"
                           ELSE IF workerResult = "Busy" THEN "check" ELSE "finish"
                  /\ UNCHANGED tick
    /\ UNCHANGED <<workerState, activation, workerJob, audioFailure,
                   completionWaiting, notified, mailboxVars, gateVars,
                   identityVars, cleanup, contentions, captured, expired, historyVars>>

Take ==
    /\ pc = "take"
    /\ workerResult' = "Busy"
    /\ \/ TryTake /\ workerJob' = active' /\ pc' = "check" /\ Uncontended
       \/ /\ IF CanTake THEN Contended ELSE Uncontended
          /\ pc' = "idle" /\ UNCHANGED <<queue, active, workerJob>>
    /\ UNCHANGED <<tick, workerState, activation, packet, audioFailure,
                   completionWaiting, notified, generation, completion, gateVars,
                   identityVars, cleanup, captured, expired, historyVars>>

Check ==
    /\ pc = "check"
    /\ LET verdict == IF ~Current \/ workerJob.epoch # activation.epoch THEN "Stale"
                      ELSE IF workerJob.ref \in expired THEN "Failed" ELSE "Busy"
       IN /\ workerResult' = verdict
          /\ pc' = IF verdict = "Busy" THEN "lease" ELSE "finish"
    /\ UNCHANGED <<tick, workerState, activation, workerJob, packet, audioFailure,
                   completionWaiting, notified, mailboxVars, gateVars,
                   identityVars, cleanup, contentions, captured, expired, historyVars>>

\* The caller's authorization, asked once the gate is leased.
Authorized(job) ==
    IF job.kind = "text" THEN current = job.source ELSE Current /\ IsCurrent(job.gen)

\* SendChatFullTextIfCurrent and SendChatControlIfCurrent up to the write.
Lease ==
    /\ pc = "lease" /\ ~leased
    /\ LET job == workerJob
           Verdict(r) == workerResult' = r /\ pc' = "finish" /\ UNCHANGED <<tick, leased>>
           Again == Return(TRUE) /\ UNCHANGED <<workerResult, leased>>
       IN \/ Contended /\ Again
          \/ ~LeaseAllowed(job.epoch) /\ Uncontended /\ Verdict("Stale")
          \/ /\ LeaseAllowed(job.epoch) /\ socketEpoch # job.epoch /\ Uncontended
             /\ IF job.kind = "text" THEN Verdict("Stale") ELSE Again
          \/ /\ LeaseAllowed(job.epoch) /\ socketEpoch = job.epoch /\ Uncontended
             /\ IF ~Authorized(job) \/ (job.kind = "text" /\ job.source # socketEpoch)
                THEN Verdict("Stale")
                ELSE IF job.kind = "text" /\ job.ref \in expired
                     THEN Verdict("Failed")
                     ELSE /\ leased' = TRUE
                          /\ pc' = IF job.kind = "text" THEN "write" ELSE "format"
                          /\ UNCHANGED <<tick, workerResult>>
    /\ UNCHANGED <<workerState, activation, workerJob, packet, audioFailure,
                   completionWaiting, notified, mailboxVars, epoch, healthy,
                   socketEpoch, opened, identityVars, cleanup, captured, expired,
                   historyVars>>

Written(job) == Append(wire, [ref |-> job.ref, kind |-> job.kind,
                              owner |-> job.source, socket |-> socketEpoch])

\* A control is formatted and authorized once more. Out of memory it fails.
Format ==
    /\ pc = "format"
    /\ \/ Authorized(workerJob) /\ pc' = "write" /\ UNCHANGED <<workerResult, leased>>
       \/ /\ pc' = "finish" /\ leased' = FALSE
          /\ workerResult' \in IF Authorized(workerJob) THEN {"Failed"} ELSE {"Stale", "Failed"}
    /\ UNCHANGED <<tick, workerState, activation, workerJob, packet, audioFailure,
                   completionWaiting, notified, mailboxVars, epoch, healthy,
                   socketEpoch, opened, identityVars, cleanup, contentions,
                   captured, expired, historyVars>>

\* SendTextForSource under the lease. A failed write may have put bytes on the
\* socket: SetError fails the gate and reports the source.
Write ==
    /\ pc = "write"
    /\ leased' = FALSE /\ pc' = "finish"
    /\ LET Quiet == UNCHANGED <<healthy, opened, fault, current>>
       IN \/ opened /\ workerResult' = "Sent" /\ wire' = Written(workerJob) /\ Quiet
          \/ /\ opened /\ workerResult' = "Failed"
             /\ wire' \in {wire, Written(workerJob)}
             /\ healthy' = FALSE /\ opened' = FALSE /\ PublishFault
          \/ ~opened /\ workerResult' = "Failed" /\ Quiet /\ UNCHANGED wire
    /\ UNCHANGED <<tick, workerState, activation, workerJob, packet, audioFailure,
                   completionWaiting, notified, mailboxVars, epoch, socketEpoch,
                   linked, adopted, opening, cleanup, contentions, captured,
                   expired, ahead>>

-----------------------------------------------------------------------------
\* FinishControl announces the completion before it publishes it, so that the
\* application's Collect, which clears the flag, always comes second. The "last"
\* places are the same code reached from the branch of a retired activation.
Finish ==
    /\ pc \in {"finish", "lastFinish"}
    /\ completionWaiting' = TRUE
    /\ pc' = IF pc = "finish" THEN "complete" ELSE "lastComplete"
    /\ UNCHANGED <<tick, workerState, activation, workerJob, workerResult, packet,
                   audioFailure, notified, mailboxVars, gateVars, identityVars,
                   cleanup, contentions, captured, expired, historyVars>>

Complete ==
    /\ pc \in {"complete", "lastComplete"}
    /\ \/ /\ TryComplete(workerJob, workerResult) /\ Uncontended
          /\ workerJob' = NoJob
          /\ IF pc = "complete" THEN Return(TRUE)
             ELSE pc' = "retire" /\ UNCHANGED tick
       \/ Contended /\ Return(TRUE) /\ UNCHANGED <<active, completion, workerJob>>
    /\ UNCHANGED <<workerState, activation, workerResult, packet, audioFailure,
                   completionWaiting, notified, generation, queue, gateVars,
                   identityVars, cleanup, captured, expired, historyVars>>

\* The final access of an activation: from here the application may replace
\* the protocol object.
RetireWorker ==
    /\ pc = "retire"
    /\ workerState' = 2 /\ Return(FALSE)
    /\ UNCHANGED <<activation, workerJob, workerResult, packet, audioFailure,
                   completionWaiting, notified, mailboxVars, gateVars,
                   identityVars, cleanup, contentions, captured, expired, historyVars>>

-----------------------------------------------------------------------------
\* Audio goes out only when the mailbox is idle before and after the packet is
\* taken from the capture queue.
IdleBefore ==
    /\ pc = "idle"
    /\ \/ TryIdle /\ Uncontended /\ pc' = "pop" /\ UNCHANGED tick
       \/ (IF TryIdle THEN Contended ELSE Uncontended) /\ Return(TRUE)
    /\ UNCHANGED <<workerState, activation, workerJob, workerResult, packet,
                   audioFailure, completionWaiting, notified, mailboxVars,
                   gateVars, identityVars, cleanup, captured, expired, historyVars>>

Pop ==
    /\ pc = "pop"
    /\ LET takes == ~packet /\ captured > 0
           held  == packet \/ takes
       IN /\ captured' = IF takes THEN captured - 1 ELSE captured
          /\ packet' = held
          /\ ahead' = IF takes THEN PendingIds ELSE ahead
          /\ IF ~Current THEN Return(TRUE)
             ELSE IF ~held THEN Return(FALSE)
             ELSE pc' = "idleAfter" /\ UNCHANGED tick
    /\ UNCHANGED <<workerState, activation, workerJob, workerResult, audioFailure,
                   completionWaiting, notified, mailboxVars, gateVars,
                   identityVars, cleanup, contentions, expired, wire>>

SendsAtOnce ==                         \* variant: sends what it has popped
    /\ pc = "idleAfter" /\ pc' = "audio" /\ Uncontended
    /\ UNCHANGED <<tick, workerState, activation, workerJob, workerResult, packet,
                   audioFailure, completionWaiting, notified, mailboxVars,
                   gateVars, identityVars, cleanup, captured, expired, historyVars>>
IdleAfter ==
    /\ pc = "idleAfter"
    /\ \/ TryIdle /\ Uncontended /\ pc' = "audio" /\ UNCHANGED <<tick, packet>>
       \/ TryIdle /\ Uncontended /\ packet' = FALSE /\ Return(TRUE)   \* not current uplink
       \/ (IF TryIdle THEN Contended ELSE Uncontended) /\ Return(TRUE) /\ UNCHANGED packet
    /\ UNCHANGED <<workerState, activation, workerJob, workerResult,
                   audioFailure, completionWaiting, notified, mailboxVars,
                   gateVars, identityVars, cleanup, captured, expired, historyVars>>

\* SendChatAudioIfCurrent up to the write; a refused packet is dropped.
AudioLease ==
    /\ pc = "audio" /\ ~leased
    /\ LET Again == Return(TRUE) /\ UNCHANGED <<packet, leased>>
           Drop == Return(TRUE) /\ packet' = FALSE /\ UNCHANGED leased
       IN \/ Contended /\ Again
          \/ ~LeaseAllowed(activation.epoch) /\ Uncontended /\ Drop
          \/ /\ LeaseAllowed(activation.epoch) /\ socketEpoch # activation.epoch
             /\ Uncontended /\ Again
          \/ /\ LeaseAllowed(activation.epoch) /\ socketEpoch = activation.epoch
             /\ Uncontended
             /\ \/ Drop                                 \* not current any more
                \/ Current /\ leased' = TRUE /\ pc' = "audioSend" /\ UNCHANGED <<tick, packet>>
    /\ UNCHANGED <<workerState, activation, workerJob, workerResult, audioFailure,
                   completionWaiting, notified, mailboxVars, epoch, healthy,
                   socketEpoch, opened, identityVars, cleanup, captured, expired,
                   historyVars>>

\* A failed frame is reported to the application through audio_failure_ alone.
AudioSend ==
    /\ pc = "audioSend"
    /\ leased' = FALSE /\ packet' = FALSE /\ Return(TRUE)
    /\ \/ UNCHANGED audioFailure            \* written, or revoked before the write
       \/ Current /\ audioFailure' = TRUE   \* down, or the socket refuses the frame
    /\ UNCHANGED <<workerState, activation, workerJob, workerResult,
                   completionWaiting, notified, mailboxVars, epoch, healthy,
                   socketEpoch, opened, identityVars, cleanup, contentions, captured, expired,
                   historyVars>>

RunOnce ==
    \/ Start \/ Take \/ Check \/ Lease \/ Format \/ Write \/ Finish \/ Complete
    \/ RetireWorker \/ IdleBefore \/ Pop \/ IdleAfter \/ AudioLease \/ AudioSend
=============================================================================
