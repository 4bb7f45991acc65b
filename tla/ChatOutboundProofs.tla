------------------------ MODULE ChatOutboundProofs ------------------------
(* What TLAPS proves of ChatOutbound for every value of its constants.       *)
EXTENDS ChatOutbound, SequenceTheorems, TLAPS

\* A reservation is held exactly while an activation is published; the worker
\* leaves the top of RunOnce only inside one, and the protocol object is handed
\* to the network worker only when both the reservation and the open are back.
Ownership ==
    /\ (reservation = 0) <=> (workerState = 0)
    /\ pc \notin {"sleep", "start"} => workerState = 1
    /\ cleanup \in {"handed", "done"} => reservation = 0 /\ openWork = "none"

\* The gate is leased exactly across a send, for the connection of the job.
Sending == {"format", "write", "audioSend"}
LeaseHeld ==
    /\ leased <=> pc \in Sending
    /\ LeaseKeepsConnection

\* A job is in the worker's hands wherever it works on one; the text that is
\* about to be submitted is still there.
Carrying == {"check", "lease", "format", "write"}
Carried ==
    /\ pc \in Carrying => workerJob # NoJob
    /\ apc = "submit" => texts # <<>>

IInv == TypeOK /\ Ownership /\ LeaseHeld /\ Carried

-----------------------------------------------------------------------------
(* Sequences *)

\* Compaction keeps jobs and drops nothing of the type.
LEMMA CompactQueueType ==
    ASSUME queue \in Seq(Jobs)
    PROVE  CompactQueue \in Seq(Jobs)
  <1>1. Live(1) \in Seq(Jobs) /\ Live(2) \in Seq(Jobs)
    BY DEF Live
  <1>. QED
    BY <1>1 DEF CompactQueue

\* Head and Tail of a sequence that is not empty.
LEMMA HeadTail ==
    ASSUME NEW S, NEW s \in Seq(S), s # <<>>
    PROVE  Head(s) \in S /\ Tail(s) \in Seq(S)
  BY HeadTailProperties

-----------------------------------------------------------------------------
(* Types: the worker *)

\* The ids a critical section finds are numbers.
LEMMA PendingIdsType ==
    ASSUME MailboxTypes
    PROVE  PendingIds \subseteq Nat
  <1>1. CompactQueue \in Seq(Jobs)
    BY CompactQueueType DEF MailboxTypes
  <1>2. QueuedIds \subseteq Nat
    <2>. SUFFICES ASSUME NEW i \in DOMAIN CompactQueue
                  PROVE  CompactQueue[i].id \in Nat
      BY DEF QueuedIds
    <2>1. CompactQueue[i] \in Jobs
      BY <1>1
    <2>. QED
      BY <2>1 DEF Jobs
  <1>3. active.id \in Nat /\ completion.job.id \in Nat
    BY DEF MailboxTypes, Completions, Jobs, NoJob, NoCompletion
  <1>. QED
    BY <1>2, <1>3 DEF PendingIds

\* What the worker completes and what it writes.
LEMMA CompletionType ==
    ASSUME NEW job \in Jobs, NEW r \in Results, NEW b \in BOOLEAN
    PROVE  [job |-> job, result |-> r, stale |-> b] \in Completions
  BY Zenon DEF Completions

\* The record of a write keeps the type of the wire.
LEMMA WireType ==
    ASSUME WorkerTypes, ConnectionTypes, workerJob # NoJob
    PROVE  Written(workerJob) \in Seq(Writes)
  <1>1. workerJob \in Jobs /\ socketEpoch \in Nat
    BY DEF WorkerTypes, ConnectionTypes
  <1>2. [ref |-> workerJob.ref, kind |-> workerJob.kind, owner |-> workerJob.source,
         socket |-> socketEpoch]
          \in Writes
    BY <1>1 DEF Jobs, Writes
  <1>. QED
    BY <1>2, AppendProperties DEF Written, WorkerTypes

\* A step of the chat_outbound task keeps every type.
LEMMA WorkerTypeStep ==
    ASSUME TypeOK, Carried, WorkerStep
    PROVE  TypeOK'
  <1>. /\ FlagTypes /\ MailboxTypes /\ ConnectionTypes
       /\ WorkerTypes /\ ApplicationTypes /\ IntentTypes
    BY DEF TypeOK
  <1>0. Wake \/ RunOnce
    BY DEF WorkerStep
  <1>1. ApplicationTypes' /\ IntentTypes' /\ UNCHANGED <<packets, inTurn, outFault>>
    BY DEF ApplicationTypes, IntentTypes, WorkerStep, appVars, intentVars, turnVars
  <1>2. MailboxTypes'
    <2>. USE DEF MailboxTypes
    <2>1. CASE Take
      BY <2>1, CompactQueueType, HeadTail DEF Take, TryTake, CanTake
    <2>2. CASE Complete
      <3>1. UNCHANGED <<generation, queue>> /\ active' \in {active, NoJob}
        BY <2>2 DEF Complete, TryComplete
      <3>2. completion' \in Completions
        <4>1. CASE UNCHANGED completion
          BY <4>1
        <4>2. CASE TryComplete(workerJob, workerResult)
          BY <4>2, CompletionType DEF TryComplete, CanComplete, WorkerTypes
        <4>. QED
          BY <2>2, <4>1, <4>2 DEF Complete
      <3>. QED
        BY <3>1, <3>2
    <2>3. CASE ~(Take \/ Complete)
      <3>1. UNCHANGED mailboxVars
        BY <1>0, <2>3 DEF RunOnce, Wake, Start, Check, Lease, Format, Write, Finish,
          RetireWorker, IdleBefore, Pop, IdleAfter, AudioLease, AudioSend
      <3>. QED
        BY <3>1 DEF mailboxVars
    <2>. QED
      BY <2>1, <2>2, <2>3
  <1>3. ConnectionTypes'
    <2>. USE DEF ConnectionTypes
    <2>1. CASE Write
      BY <2>1 DEF Write, PublishFault
    <2>2. CASE ~Write
      BY <1>0, <2>2 DEF RunOnce, Wake, Start, Take, Check, Lease, Format, Finish,
        Complete, RetireWorker, IdleBefore, Pop, IdleAfter, AudioLease, AudioSend,
        gateVars, identityVars
    <2>. QED
      BY <2>1, <2>2
  <1>4. FlagTypes'
    <2>. USE <1>1 DEF FlagTypes
    <2>1. CASE Wake
      BY <2>1 DEF Wake, gateVars, identityVars
    <2>2. CASE Start
      BY <2>2 DEF Start, Return, gateVars, identityVars
    <2>3. CASE Take
      BY <2>3 DEF Take, gateVars, identityVars
    <2>4. CASE Check
      BY <2>4 DEF Check, gateVars, identityVars
    <2>5. CASE Lease
      BY <2>5 DEF Lease, Return, gateVars, identityVars
    <2>6. CASE Format
      BY <2>6 DEF Format, gateVars, identityVars
    <2>7. CASE Write
      BY <2>7 DEF Write, PublishFault, gateVars, identityVars
    <2>8. CASE Finish
      BY <2>8 DEF Finish, gateVars, identityVars
    <2>9. CASE Complete
      BY <2>9 DEF Complete, Return, gateVars, identityVars
    <2>10. CASE RetireWorker
      BY <2>10 DEF RetireWorker, Return, gateVars, identityVars
    <2>11. CASE IdleBefore
      BY <2>11 DEF IdleBefore, Return, gateVars, identityVars
    <2>12. CASE Pop
      BY <2>12 DEF Pop, Return, gateVars, identityVars
    <2>13. CASE IdleAfter
      BY <2>13 DEF IdleAfter, Return, gateVars, identityVars
    <2>14. CASE AudioLease
      BY <2>14 DEF AudioLease, Return, gateVars, identityVars
    <2>15. CASE AudioSend
      BY <2>15 DEF AudioSend, Return, gateVars, identityVars
    <2>. QED
      BY <1>0, <2>1, <2>2, <2>3, <2>4, <2>5, <2>6, <2>7, <2>8, <2>9, <2>10, <2>11, <2>12, <2>13, <2>14, <2>15 DEF RunOnce
  <1>5. WorkerTypes'
    <2>. USE <1>1 DEF WorkerTypes, Results, historyVars
    <2>1. CASE Wake
      BY <2>1 DEF Wake
    <2>2. CASE Start
      BY <2>2 DEF Start, Return
    <2>3. CASE Take
      BY <2>3, CompactQueueType, HeadTail DEF Take, TryTake, CanTake, MailboxTypes,
        Contended, Uncontended
    <2>4. CASE Check
      BY <2>4 DEF Check
    <2>5. CASE Lease
      BY <2>5 DEF Lease, Return, Contended, Uncontended
    <2>6. CASE Format
      BY <2>6 DEF Format
    <2>7. CASE Write
      <3>1. wire' \in {wire, Written(workerJob)} /\ workerJob # NoJob
        BY <2>7 DEF Write, Carried, Carrying
      <3>. QED
        BY <2>7, <3>1, WireType DEF Write
    <2>8. CASE Finish
      BY <2>8 DEF Finish
    <2>9. CASE Complete
      BY <2>9 DEF Complete, Return, Contended, Uncontended
    <2>10. CASE RetireWorker
      BY <2>10 DEF RetireWorker, Return
    <2>11. CASE IdleBefore
      BY <2>11 DEF IdleBefore, Return, Contended, Uncontended
    <2>12. CASE Pop
      <3>1. captured' \in Nat
        BY <2>12 DEF Pop
      <3>2. ahead' \subseteq Nat
        BY <2>12, PendingIdsType DEF Pop
      <3>. QED
        BY <2>12, <3>1, <3>2 DEF Pop, Return
    <2>13. CASE IdleAfter
      BY <2>13 DEF IdleAfter, Return, Contended, Uncontended
    <2>14. CASE AudioLease
      BY <2>14 DEF AudioLease, Return, Contended, Uncontended
    <2>15. CASE AudioSend
      BY <2>15 DEF AudioSend, Return
    <2>. QED
      BY <1>0, <2>1, <2>2, <2>3, <2>4, <2>5, <2>6, <2>7, <2>8, <2>9, <2>10, <2>11, <2>12, <2>13, <2>14, <2>15 DEF RunOnce
  <1>. QED
    BY <1>1, <1>2, <1>3, <1>4, <1>5 DEF TypeOK

-----------------------------------------------------------------------------
(* Types: the application *)

\* AdvanceGeneration saturates: the next generation is positive and no greater
\* than the limit.
LEMMA AdvancedType ==
    ASSUME NEW g \in 0 .. Exhausted
    PROVE  Advanced(g) \in 1 .. Exhausted
  BY MailboxAssumption DEF Advanced

\* Whatever retires the worker advances the generation at most once.
Retires == /\ generation' \in {generation, Advanced(generation)}
           /\ outGeneration' \in {outGeneration, 0}
\* RetireChatOutbound and what calls it advance the generation at most once.
LEMMA RetireSummary ==
    /\ Retire => Retires
    /\ Revoke => Retires
    /\ UNCHANGED retireVars => Retires
    /\ Recover => Retires /\ playout' \in {playout, "recovery"}
  BY DEF Retire, Revoke, Recover, Retires, retireVars
\* What ActivateChatOutbound leaves behind when it succeeds and when it fails.
LEMMA ActivationSummary ==
    /\ \A e : Activated(e) =>
         /\ generation' = Advanced(generation) /\ outGeneration' = generation'
         /\ reservation' = generation' /\ outEpoch' = e /\ workerState' = 1
         /\ activation' = [epoch |-> e, gen |-> generation']
    /\ ActivationFailed =>
         /\ generation' \in {generation, Advanced(generation)}
         /\ UNCHANGED <<outGeneration, reservation, outEpoch, activation, workerState>>
    /\ NoActivation => UNCHANGED <<reservation, outEpoch, activation, workerState>>
  BY DEF Activated, ActivationFailed, NoActivation

\* No handler takes a generation out of its range.
LEMMA ApplicationGenerations ==
    ASSUME TypeOK, ApplicationStep
    PROVE  generation' \in 0 .. Exhausted /\ outGeneration' \in 0 .. Exhausted
  <1>0. generation \in 0 .. Exhausted /\ outGeneration \in 0 .. Exhausted
    BY DEF TypeOK, MailboxTypes, ApplicationTypes
  <1>1. Advanced(generation) \in 1 .. Exhausted /\ 0 \in 0 .. Exhausted
    BY <1>0, AdvancedType, MailboxAssumption
  <1>2. \/ Retires
        \/ generation' = Advanced(generation) /\ outGeneration' = generation'
        \/ generation' = Advanced(generation) /\ UNCHANGED outGeneration
    <2>1. CASE PollChatSourceOpen
      BY RetireSummary, <2>1 DEF PollChatSourceOpen
    <2>2. CASE PollChatProtocolSignals
      BY RetireSummary, <2>2 DEF PollChatProtocolSignals
    <2>3. CASE PollChatStart
      BY RetireSummary, <2>3 DEF PollChatStart
    <2>4. CASE PollChatOutbound
      BY RetireSummary, <2>4 DEF PollChatOutbound, HandleChatPlayoutInterrupt
    <2>5. CASE Deliver
      BY RetireSummary, <2>5 DEF Deliver, Retires
    <2>6. CASE TakeRetired
      BY RetireSummary, <2>6 DEF TakeRetired
    <2>7. CASE PollChatPlayoutTail
      BY RetireSummary, ActivationSummary, <2>7 DEF PollChatPlayoutTail, Retires
    <2>8. CASE PollChatControls
      BY RetireSummary, <2>8 DEF PollChatControls, Retires
    <2>9. CASE PollChatConnectionMessages
      BY RetireSummary, ActivationSummary, <2>9 DEF PollChatConnectionMessages,
        Retires
    <2>10. CASE SubmitText
      BY RetireSummary, <2>10 DEF SubmitText, Retires
    <2>11. CASE PollChatProtocolCleanup
      BY RetireSummary, <2>11 DEF PollChatProtocolCleanup
    <2>12. CASE RequestText
      BY RetireSummary, <2>12 DEF RequestText
    <2>13. CASE RequestControl
      BY RetireSummary, <2>13 DEF RequestControl
    <2>14. CASE BeginChatListen
      BY RetireSummary, ActivationSummary, <2>14 DEF BeginChatListen, Retires,
        retireVars
    <2>15. CASE EndTurn
      BY RetireSummary, <2>15 DEF EndTurn
    <2>16. CASE CloseAudioChannelByIntent
      BY RetireSummary, <2>16 DEF CloseAudioChannelByIntent
    <2>17. CASE OpenChannel
      BY RetireSummary, <2>17 DEF OpenChannel
    <2>18. CASE OpenReturned
      BY RetireSummary, <2>18 DEF OpenReturned
    <2>. QED
      BY <2>1, <2>2, <2>3, <2>4, <2>5, <2>6, <2>7, <2>8, <2>9, <2>10, <2>11,
        <2>12, <2>13, <2>14, <2>15, <2>16, <2>17, <2>18
         DEF ApplicationStep, Poll, Handler
  <1>. QED
    BY <1>0, <1>1, <1>2 DEF Retires

\* An identified intent, the job it becomes and the intent after the attempt.
LEMMA IdentifiedType ==
    ASSUME ApplicationTypes, NEW refs, NEW outcomes, "Failed" \in outcomes,
           NEW intent \in Intents(refs, outcomes)
    PROVE  /\ Identified(intent) \in Intents(refs, outcomes)
           /\ \A res : Attempted(intent, res) \in Intents(refs, outcomes)
  <1>1. Identified(intent) \in Intents(refs, outcomes)
    <2>1. requestId + 1 \in Nat /\ outGeneration \in 0 .. Exhausted
      BY DEF ApplicationTypes
    <2>2. \A i \in Nat, g \in 0 .. Exhausted :
            [intent EXCEPT !.id = i, !.gen = g] \in Intents(refs, outcomes)
      BY Zenon DEF Intents
    <2>. QED
      BY <2>1, <2>2 DEF Identified
  <1>2. ASSUME NEW res
        PROVE  Attempted(intent, res) \in Intents(refs, outcomes)
    BY <1>1 DEF Attempted, Intents, ApplicationTypes
  <1>. QED
    BY <1>1, <1>2

\* An intent that has been given an identity makes a job.
LEMMA JobType ==
    ASSUME ApplicationTypes, NEW outcomes, "Failed" \in outcomes,
           NEW intent \in Intents(Refs, outcomes), NEW kind \in {"text", "control"}
    PROVE  JobOf(Identified(intent), kind) \in Jobs
  <1>1. Identified(intent) \in Intents(Refs, outcomes)
    BY IdentifiedType
  <1>. QED
    BY <1>1 DEF JobOf, Intents, Jobs, ApplicationTypes

\* SubmitChatOutbound keeps the queue a queue of jobs.
LEMMA SubmitType ==
    ASSUME MailboxTypes, ApplicationTypes, NEW outcomes, "Failed" \in outcomes,
           NEW intent \in Intents(Refs, outcomes), NEW kind \in {"text", "control"},
           NEW res, Submit(intent, kind, res)
    PROVE  queue' \in Seq(Jobs) /\ requestId' \in Nat /\ lastAdmitted' \in Nat
  <1>1. Identified(intent).id \in Nat /\ requestId \in Nat /\ lastAdmitted \in Nat
    BY IdentifiedType DEF Intents, ApplicationTypes
  <1>2. queue' \in Seq(Jobs)
    <2>1. JobOf(Identified(intent), kind) \in Jobs /\ CompactQueue \in Seq(Jobs)
      BY JobType, CompactQueueType DEF MailboxTypes
    <2>2. Append(CompactQueue, JobOf(Identified(intent), kind)) \in Seq(Jobs)
      BY <2>1, AppendProperties
    <2>. QED
      BY <2>2 DEF Submit, TrySubmit, MailboxTypes
  <1>. QED
    BY <1>1, <1>2 DEF Submit

\* Every intent refers to something the application was asked to send.
LEMMA IntentRefs ==
    /\ TextIntents \subseteq Intents(Refs, {"Pending", "Sent", "Failed", "Cancelled"})
    /\ ControlIntents \subseteq Intents(Refs, {"Pending", "Failed", "Superseded"})
  BY DEF TextIntents, ControlIntents, Intents, Refs

\* Every step of the application leaves what Frame names alone.
LEMMA ApplicationFrame == ApplicationStep => Frame
  <1>. SUFFICES ASSUME ApplicationStep PROVE Frame
    OBVIOUS
  <1>1. CASE PollChatSourceOpen
    BY <1>1 DEF PollChatSourceOpen
  <1>2. CASE PollChatProtocolSignals
    BY <1>2 DEF PollChatProtocolSignals
  <1>3. CASE PollChatStart
    BY <1>3 DEF PollChatStart
  <1>4. CASE PollChatOutbound
    BY <1>4 DEF PollChatOutbound
  <1>5. CASE Deliver
    BY <1>5 DEF Deliver, Collected
  <1>6. CASE TakeRetired
    BY <1>6 DEF TakeRetired
  <1>7. CASE PollChatPlayoutTail
    BY <1>7 DEF PollChatPlayoutTail
  <1>8. CASE PollChatControls
    BY <1>8 DEF PollChatControls
  <1>9. CASE PollChatConnectionMessages
    BY <1>9 DEF PollChatConnectionMessages
  <1>10. CASE SubmitText
    BY <1>10 DEF SubmitText
  <1>11. CASE PollChatProtocolCleanup
    BY <1>11 DEF PollChatProtocolCleanup
  <1>12. CASE RequestText
    BY <1>12 DEF RequestText
  <1>13. CASE RequestControl
    BY <1>13 DEF RequestControl
  <1>14. CASE BeginChatListen
    BY <1>14 DEF BeginChatListen
  <1>15. CASE EndTurn
    BY <1>15 DEF EndTurn
  <1>16. CASE CloseAudioChannelByIntent
    BY <1>16 DEF CloseAudioChannelByIntent
  <1>17. CASE OpenChannel
    BY <1>17 DEF OpenChannel
  <1>18. CASE OpenReturned
    BY <1>18 DEF OpenReturned
  <1>. QED
    BY <1>1, <1>2, <1>3, <1>4, <1>5, <1>6, <1>7, <1>8, <1>9, <1>10, <1>11, <1>12,
       <1>13, <1>14, <1>15, <1>16, <1>17, <1>18
       DEF ApplicationStep, Poll, Handler

\* The application's side of the mailbox keeps its type.
LEMMA ApplicationMailbox ==
    ASSUME TypeOK, Carried, ApplicationStep
    PROVE  MailboxTypes' /\ requestId' \in Nat /\ lastAdmitted' \in Nat
  <1>. MailboxTypes /\ ApplicationTypes /\ IntentTypes
    BY DEF TypeOK
  <1>1. generation' \in 0 .. Exhausted /\ UNCHANGED active
    BY ApplicationGenerations, ApplicationFrame DEF Frame
  <1>2. completion' \in Completions
    <2>1. CASE PollChatOutbound
      BY <2>1 DEF PollChatOutbound, MailboxTypes, NoCompletion, Completions
    <2>2. CASE ~PollChatOutbound
      BY <2>2 DEF MailboxTypes, ApplicationStep, Poll, Handler,
          PollChatSourceOpen, PollChatProtocolSignals, PollChatStart, Deliver,
          TakeRetired, PollChatPlayoutTail, PollChatControls,
          PollChatConnectionMessages, SubmitText, PollChatProtocolCleanup,
          RequestText, RequestControl, BeginChatListen, EndTurn,
          CloseAudioChannelByIntent, OpenChannel, OpenReturned
    <2>. QED
      BY <2>1, <2>2
  <1>3. queue' \in Seq(Jobs) /\ requestId' \in Nat /\ lastAdmitted' \in Nat
    <2>1. CASE PollChatControls
      <3>1. \/ UNCHANGED <<queue, requestId, lastAdmitted>>
            \/ controls # <<>> /\ \E res : Submit(Head(controls), "control", res)
        BY <2>1 DEF PollChatControls
      <3>2. controls # <<>> =>
              Head(controls) \in Intents(Refs, {"Pending", "Failed", "Superseded"})
        BY HeadTail, IntentRefs DEF IntentTypes
      <3>. QED
        BY <3>1, <3>2, SubmitType DEF MailboxTypes, ApplicationTypes
    <2>2. CASE SubmitText
      <3>1. \E res : Submit(Head(texts), "text", res)
        BY <2>2 DEF SubmitText
      <3>2. Head(texts) \in Intents(Refs, {"Pending", "Sent", "Failed", "Cancelled"})
        BY <2>2, HeadTail, IntentRefs DEF IntentTypes, Carried, SubmitText
      <3>. QED
        BY <3>1, <3>2, SubmitType
    <2>3. CASE ~(PollChatControls \/ SubmitText)
      <3>1. UNCHANGED <<queue, requestId, lastAdmitted>>
        BY <2>3 DEF appVars, ApplicationStep, Poll, Handler,
          PollChatSourceOpen, PollChatProtocolSignals, PollChatStart,
          PollChatOutbound, Deliver, TakeRetired, PollChatPlayoutTail,
          PollChatConnectionMessages, PollChatProtocolCleanup, RequestText,
          RequestControl, BeginChatListen, EndTurn, CloseAudioChannelByIntent,
          OpenChannel, OpenReturned
      <3>. QED
        BY <3>1 DEF MailboxTypes, ApplicationTypes
    <2>. QED
      BY <2>1, <2>2, <2>3
  <1>. QED
    BY <1>1, <1>2, <1>3 DEF MailboxTypes

\* PollChatProtocolCleanup moves chat_protocol_state_ among its four values.
LEMMA CleanupType ==
    ASSUME NEW s \in {"none", "wanted", "handed", "done"}, NEW b
    PROVE  CleanupAfterPoll(s, b) \in {"none", "wanted", "handed", "done"}
  BY DEF CleanupAfterPoll

\* The event loop keeps the types of the connection.
LEMMA ApplicationConnection ==
    ASSUME TypeOK, ApplicationStep
    PROVE  ConnectionTypes'
  <1>. USE DEF ConnectionTypes
  <1>. ConnectionTypes /\ IntentTypes
    BY DEF TypeOK
  <1>1. UNCHANGED <<epoch, socketEpoch>>
    BY ApplicationFrame DEF Frame, gateVars
  <1>2. cleanup' \in {"none", "wanted", "handed", "done"}
    <2>. USE CleanupType DEF PollCleanup, RequestClose, identityVars
    <2>1. CASE PollChatSourceOpen
      BY <2>1 DEF PollChatSourceOpen
    <2>2. CASE PollChatProtocolSignals
      BY <2>2 DEF PollChatProtocolSignals
    <2>3. CASE PollChatStart
      BY <2>3 DEF PollChatStart
    <2>4. CASE PollChatOutbound
      BY <2>4 DEF PollChatOutbound
    <2>5. CASE Deliver
      BY <2>5 DEF Deliver, Collected
    <2>6. CASE TakeRetired
      BY <2>6 DEF TakeRetired
    <2>7. CASE PollChatPlayoutTail
      BY <2>7 DEF PollChatPlayoutTail
    <2>8. CASE PollChatControls
      BY <2>8 DEF PollChatControls
    <2>9. CASE PollChatConnectionMessages
      BY <2>9 DEF PollChatConnectionMessages
    <2>10. CASE SubmitText
      BY <2>10 DEF SubmitText
    <2>11. CASE PollChatProtocolCleanup
      BY <2>11 DEF PollChatProtocolCleanup
    <2>12. CASE RequestText
      BY <2>12 DEF RequestText
    <2>13. CASE RequestControl
      BY <2>13 DEF RequestControl
    <2>14. CASE BeginChatListen
      BY <2>14 DEF BeginChatListen
    <2>15. CASE EndTurn
      BY <2>15 DEF EndTurn
    <2>16. CASE CloseAudioChannelByIntent
      BY <2>16 DEF CloseAudioChannelByIntent
    <2>17. CASE OpenChannel
      BY <2>17 DEF OpenChannel
    <2>18. CASE OpenReturned
      BY <2>18 DEF OpenReturned
    <2>. QED
      BY <2>1, <2>2, <2>3, <2>4, <2>5, <2>6, <2>7, <2>8, <2>9, <2>10, <2>11,
         <2>12, <2>13, <2>14, <2>15, <2>16, <2>17, <2>18
         DEF ApplicationStep, Poll, Handler
  <1>3. /\ current' \in Nat /\ opening' \in Nat
        /\ adopted' \in {"never", "no", "yes"} /\ fault' \in {"none", "new", "handled"}
    <2>. USE DEF RequestClose, identityVars, Unlink, PopText, HealthyEpoch
    <2>1. CASE PollChatSourceOpen
      BY <2>1 DEF PollChatSourceOpen
    <2>2. CASE PollChatProtocolSignals
      BY <2>2 DEF PollChatProtocolSignals
    <2>3. CASE PollChatStart
      BY <2>3 DEF PollChatStart
    <2>4. CASE PollChatOutbound
      BY <2>4 DEF PollChatOutbound
    <2>5. CASE Deliver
      BY <2>5 DEF Deliver, Collected
    <2>6. CASE TakeRetired
      BY <2>6 DEF TakeRetired
    <2>7. CASE PollChatPlayoutTail
      BY <2>7 DEF PollChatPlayoutTail
    <2>8. CASE PollChatControls
      BY <2>8 DEF PollChatControls
    <2>9. CASE PollChatConnectionMessages
      BY <2>9 DEF PollChatConnectionMessages
    <2>10. CASE SubmitText
      BY <2>10 DEF SubmitText
    <2>11. CASE PollChatProtocolCleanup
      BY <2>11 DEF PollChatProtocolCleanup
    <2>12. CASE RequestText
      BY <2>12 DEF RequestText
    <2>13. CASE RequestControl
      BY <2>13 DEF RequestControl
    <2>14. CASE BeginChatListen
      BY <2>14 DEF BeginChatListen
    <2>15. CASE EndTurn
      BY <2>15 DEF EndTurn
    <2>16. CASE CloseAudioChannelByIntent
      BY <2>16 DEF CloseAudioChannelByIntent
    <2>17. CASE OpenChannel
      BY <2>17 DEF OpenChannel
    <2>18. CASE OpenReturned
      BY <2>18 DEF OpenReturned
    <2>. QED
      BY <2>1, <2>2, <2>3, <2>4, <2>5, <2>6, <2>7, <2>8, <2>9, <2>10, <2>11,
         <2>12, <2>13, <2>14, <2>15, <2>16, <2>17, <2>18
         DEF ApplicationStep, Poll, Handler
  <1>. QED
    BY <1>1, <1>2, <1>3

\* The event loop keeps its flags Boolean.
LEMMA ApplicationFlags ==
    ASSUME TypeOK, ApplicationStep
    PROVE  FlagTypes'
  <1>. FlagTypes
    BY DEF TypeOK
  <1>1. UNCHANGED <<healthy, leased, opened, tick, packet>>
    BY ApplicationFrame DEF Frame, gateVars
  <1>2. notified' \in BOOLEAN
    <2>. USE DEF FlagTypes, Retire, Recover, retireVars
    <2>1. CASE PollChatSourceOpen
      BY <2>1 DEF PollChatSourceOpen
    <2>2. CASE PollChatProtocolSignals
      BY <2>2 DEF PollChatProtocolSignals
    <2>3. CASE PollChatStart
      BY <2>3 DEF PollChatStart
    <2>4. CASE PollChatOutbound
      BY <2>4 DEF PollChatOutbound, HandleChatPlayoutInterrupt
    <2>5. CASE Deliver
      BY <2>5 DEF Deliver, Collected
    <2>6. CASE TakeRetired
      BY <2>6 DEF TakeRetired
    <2>7. CASE PollChatPlayoutTail
      BY <2>7 DEF PollChatPlayoutTail, NoActivation, Activated, ActivationFailed
    <2>8. CASE PollChatControls
      BY <2>8 DEF PollChatControls
    <2>9. CASE PollChatConnectionMessages
      BY <2>9 DEF PollChatConnectionMessages, NoActivation, Activated, ActivationFailed
    <2>10. CASE SubmitText
      BY <2>10 DEF SubmitText
    <2>11. CASE PollChatProtocolCleanup
      BY <2>11 DEF PollChatProtocolCleanup
    <2>12. CASE RequestText
      BY <2>12 DEF RequestText
    <2>13. CASE RequestControl
      BY <2>13 DEF RequestControl
    <2>14. CASE BeginChatListen
      BY <2>14 DEF BeginChatListen, NoActivation, Activated, ActivationFailed
    <2>15. CASE EndTurn
      BY <2>15 DEF EndTurn
    <2>16. CASE CloseAudioChannelByIntent
      BY <2>16 DEF CloseAudioChannelByIntent
    <2>17. CASE OpenChannel
      BY <2>17 DEF OpenChannel
    <2>18. CASE OpenReturned
      BY <2>18 DEF OpenReturned
    <2>. QED
      BY <2>1, <2>2, <2>3, <2>4, <2>5, <2>6, <2>7, <2>8, <2>9, <2>10, <2>11,
         <2>12, <2>13, <2>14, <2>15, <2>16, <2>17, <2>18
         DEF ApplicationStep, Poll, Handler
  <1>3. linked' \in BOOLEAN /\ inTurn' \in BOOLEAN /\ completionWaiting' \in BOOLEAN
    <2>. USE DEF FlagTypes, identityVars, Unlink
    <2>1. CASE PollChatSourceOpen
      BY <2>1 DEF PollChatSourceOpen
    <2>2. CASE PollChatProtocolSignals
      BY <2>2 DEF PollChatProtocolSignals
    <2>3. CASE PollChatStart
      BY <2>3 DEF PollChatStart
    <2>4. CASE PollChatOutbound
      BY <2>4 DEF PollChatOutbound
    <2>5. CASE Deliver
      BY <2>5 DEF Deliver, Collected
    <2>6. CASE TakeRetired
      BY <2>6 DEF TakeRetired
    <2>7. CASE PollChatPlayoutTail
      BY <2>7 DEF PollChatPlayoutTail
    <2>8. CASE PollChatControls
      BY <2>8 DEF PollChatControls
    <2>9. CASE PollChatConnectionMessages
      BY <2>9 DEF PollChatConnectionMessages
    <2>10. CASE SubmitText
      BY <2>10 DEF SubmitText
    <2>11. CASE PollChatProtocolCleanup
      BY <2>11 DEF PollChatProtocolCleanup
    <2>12. CASE RequestText
      BY <2>12 DEF RequestText
    <2>13. CASE RequestControl
      BY <2>13 DEF RequestControl
    <2>14. CASE BeginChatListen
      BY <2>14 DEF BeginChatListen
    <2>15. CASE EndTurn
      BY <2>15 DEF EndTurn
    <2>16. CASE CloseAudioChannelByIntent
      BY <2>16 DEF CloseAudioChannelByIntent
    <2>17. CASE OpenChannel
      BY <2>17 DEF OpenChannel
    <2>18. CASE OpenReturned
      BY <2>18 DEF OpenReturned
    <2>. QED
      BY <2>1, <2>2, <2>3, <2>4, <2>5, <2>6, <2>7, <2>8, <2>9, <2>10, <2>11,
         <2>12, <2>13, <2>14, <2>15, <2>16, <2>17, <2>18
         DEF ApplicationStep, Poll, Handler
  <1>4. outFault' \in BOOLEAN /\ audioFailure' \in BOOLEAN
    <2>. USE DEF FlagTypes, appVars
    <2>1. CASE PollChatSourceOpen
      BY <2>1 DEF PollChatSourceOpen
    <2>2. CASE PollChatProtocolSignals
      BY <2>2 DEF PollChatProtocolSignals
    <2>3. CASE PollChatStart
      BY <2>3 DEF PollChatStart
    <2>4. CASE PollChatOutbound
      BY <2>4 DEF PollChatOutbound
    <2>5. CASE Deliver
      BY <2>5 DEF Deliver, Collected
    <2>6. CASE TakeRetired
      BY <2>6 DEF TakeRetired
    <2>7. CASE PollChatPlayoutTail
      BY <2>7 DEF PollChatPlayoutTail, NoActivation, Activated, ActivationFailed
    <2>8. CASE PollChatControls
      BY <2>8 DEF PollChatControls, Submit
    <2>9. CASE PollChatConnectionMessages
      BY <2>9 DEF PollChatConnectionMessages, NoActivation, Activated, ActivationFailed
    <2>10. CASE SubmitText
      BY <2>10 DEF SubmitText, Submit
    <2>11. CASE PollChatProtocolCleanup
      BY <2>11 DEF PollChatProtocolCleanup
    <2>12. CASE RequestText
      BY <2>12 DEF RequestText
    <2>13. CASE RequestControl
      BY <2>13 DEF RequestControl
    <2>14. CASE BeginChatListen
      BY <2>14 DEF BeginChatListen, NoActivation, Activated, ActivationFailed
    <2>15. CASE EndTurn
      BY <2>15 DEF EndTurn
    <2>16. CASE CloseAudioChannelByIntent
      BY <2>16 DEF CloseAudioChannelByIntent
    <2>17. CASE OpenChannel
      BY <2>17 DEF OpenChannel
    <2>18. CASE OpenReturned
      BY <2>18 DEF OpenReturned
    <2>. QED
      BY <2>1, <2>2, <2>3, <2>4, <2>5, <2>6, <2>7, <2>8, <2>9, <2>10, <2>11,
         <2>12, <2>13, <2>14, <2>15, <2>16, <2>17, <2>18
         DEF ApplicationStep, Poll, Handler
  <1>. QED
    BY <1>1, <1>2, <1>3, <1>4 DEF FlagTypes

\* A text activates the worker for the connection it was requested on.
LEMMA ActivatedText ==
    ASSUME IntentTypes, PollChatConnectionMessages
    PROVE  \/ \E e \in Nat : Activated(e)
           \/ ActivationFailed \/ NoActivation
  <1>1. texts # <<>> => Settled(Head(texts)).owner \in Nat
    <2>. SUFFICES ASSUME texts # <<>> PROVE Settled(Head(texts)).owner \in Nat
      OBVIOUS
    <2>1. Head(texts) \in TextIntents
      BY HeadTail DEF IntentTypes
    <2>. QED
      BY <2>1 DEF TextIntents, Intents, Settled
  <1>. QED
    BY <1>1 DEF PollChatConnectionMessages

\* What the event loop writes of the worker's state keeps its type.
LEMMA ApplicationWorker ==
    ASSUME TypeOK, ApplicationStep
    PROVE  WorkerTypes'
  <1>. WorkerTypes /\ ConnectionTypes /\ ApplicationTypes /\ IntentTypes
    BY DEF TypeOK
  <1>1. UNCHANGED <<pc, workerJob, workerResult, packets, captured, ahead, expired, wire>>
    BY ApplicationFrame DEF Frame, historyVars
  <1>2. contentions' \in Nat
    <2>. USE DEF WorkerTypes, Contended, Uncontended
    <2>1. CASE PollChatSourceOpen
      BY <2>1 DEF PollChatSourceOpen
    <2>2. CASE PollChatProtocolSignals
      BY <2>2 DEF PollChatProtocolSignals
    <2>3. CASE PollChatStart
      BY <2>3 DEF PollChatStart
    <2>4. CASE PollChatOutbound
      BY <2>4 DEF PollChatOutbound
    <2>5. CASE Deliver
      BY <2>5 DEF Deliver, Collected
    <2>6. CASE TakeRetired
      BY <2>6 DEF TakeRetired
    <2>7. CASE PollChatPlayoutTail
      BY <2>7 DEF PollChatPlayoutTail
    <2>8. CASE PollChatControls
      BY <2>8 DEF PollChatControls
    <2>9. CASE PollChatConnectionMessages
      BY <2>9 DEF PollChatConnectionMessages
    <2>10. CASE SubmitText
      BY <2>10 DEF SubmitText
    <2>11. CASE PollChatProtocolCleanup
      BY <2>11 DEF PollChatProtocolCleanup
    <2>12. CASE RequestText
      BY <2>12 DEF RequestText
    <2>13. CASE RequestControl
      BY <2>13 DEF RequestControl
    <2>14. CASE BeginChatListen
      BY <2>14 DEF BeginChatListen
    <2>15. CASE EndTurn
      BY <2>15 DEF EndTurn
    <2>16. CASE CloseAudioChannelByIntent
      BY <2>16 DEF CloseAudioChannelByIntent
    <2>17. CASE OpenChannel
      BY <2>17 DEF OpenChannel
    <2>18. CASE OpenReturned
      BY <2>18 DEF OpenReturned
    <2>. QED
      BY <2>1, <2>2, <2>3, <2>4, <2>5, <2>6, <2>7, <2>8, <2>9, <2>10, <2>11,
         <2>12, <2>13, <2>14, <2>15, <2>16, <2>17, <2>18
         DEF ApplicationStep, Poll, Handler
  <1>3. /\ workerState' \in {workerState, 0, 1}
        /\ \/ UNCHANGED activation
           \/ \E e \in Nat : activation' = [epoch |-> e, gen |-> generation']
    <2>. USE ActivationSummary
    <2>1. CASE PollChatSourceOpen
      BY <2>1 DEF PollChatSourceOpen
    <2>2. CASE PollChatProtocolSignals
      BY <2>2 DEF PollChatProtocolSignals
    <2>3. CASE PollChatStart
      BY <2>3 DEF PollChatStart
    <2>4. CASE PollChatOutbound
      BY <2>4 DEF PollChatOutbound
    <2>5. CASE Deliver
      BY <2>5 DEF Deliver, Collected
    <2>6. CASE TakeRetired
      BY <2>6 DEF TakeRetired
    <2>7. CASE PollChatPlayoutTail
      BY <2>7 DEF PollChatPlayoutTail, ApplicationTypes
    <2>8. CASE PollChatControls
      BY <2>8 DEF PollChatControls
    <2>9. CASE PollChatConnectionMessages
      BY ActivatedText, <2>9 DEF PollChatConnectionMessages
    <2>10. CASE SubmitText
      BY <2>10 DEF SubmitText
    <2>11. CASE PollChatProtocolCleanup
      BY <2>11 DEF PollChatProtocolCleanup
    <2>12. CASE RequestText
      BY <2>12 DEF RequestText
    <2>13. CASE RequestControl
      BY <2>13 DEF RequestControl
    <2>14. CASE BeginChatListen
      BY <2>14 DEF BeginChatListen, ConnectionTypes
    <2>15. CASE EndTurn
      BY <2>15 DEF EndTurn
    <2>16. CASE CloseAudioChannelByIntent
      BY <2>16 DEF CloseAudioChannelByIntent
    <2>17. CASE OpenChannel
      BY <2>17 DEF OpenChannel
    <2>18. CASE OpenReturned
      BY <2>18 DEF OpenReturned
    <2>. QED
      BY <2>1, <2>2, <2>3, <2>4, <2>5, <2>6, <2>7, <2>8, <2>9, <2>10, <2>11,
         <2>12, <2>13, <2>14, <2>15, <2>16, <2>17, <2>18
         DEF ApplicationStep, Poll, Handler
  <1>4. generation' \in 0 .. Exhausted
    BY ApplicationGenerations
  <1>. QED
    BY <1>1, <1>2, <1>3, <1>4 DEF WorkerTypes

\* A collected completion keeps its job and its result.
LEMMA CollectedType ==
    ASSUME MailboxTypes, ApplicationTypes, PollChatOutbound
    PROVE  collected' \in Completions
  <1>1. NoCompletion \in Completions
    BY DEF Completions
  <1>2. \A g : CanCollect => Judged(completion, g) \in Completions
    <2>. SUFFICES ASSUME NEW g, CanCollect
                  PROVE  Judged(completion, g) \in Completions
      OBVIOUS
    <2>1. completion \in [job : Jobs, result : Results, stale : BOOLEAN]
      BY DEF CanCollect, MailboxTypes, Completions
    <2>2. \A b \in BOOLEAN : [completion EXCEPT !.stale = b]
                              \in [job : Jobs, result : Results, stale : BOOLEAN]
      BY <2>1, Zenon
    <2>3. (~IsCurrentIn(completion.job.gen, g)) \in BOOLEAN
      BY Zenon DEF IsCurrentIn
    <2>. QED
      BY <2>2, <2>3, Zenon DEF Judged, Completions
  <1>3. \/ UNCHANGED collected
        \/ CanCollect /\ collected' = Judged(completion, generation')
    BY DEF PollChatOutbound
  <1>. QED
    BY <1>2, <1>3 DEF ApplicationTypes

\* The application's own variables keep their types in its own steps.
LEMMA ApplicationApplication ==
    ASSUME TypeOK, Carried, ApplicationStep
    PROVE  ApplicationTypes'
  <1>. MailboxTypes /\ ConnectionTypes /\ ApplicationTypes /\ IntentTypes
    BY DEF TypeOK
  <1>1. /\ generation' \in 0 .. Exhausted /\ outGeneration' \in 0 .. Exhausted
        /\ requestId' \in Nat /\ lastAdmitted' \in Nat
    BY ApplicationGenerations, ApplicationMailbox
  <1>2. collected' \in Completions
    <2>1. CASE PollChatOutbound
      BY <2>1, CollectedType
    <2>2. CASE Deliver
      BY <2>2 DEF Deliver, Completions
    <2>3. CASE ~(PollChatOutbound \/ Deliver)
      <3>1. UNCHANGED collected
        BY <2>3 DEF ApplicationStep, Poll, Handler,
          PollChatSourceOpen, PollChatProtocolSignals, PollChatStart,
          TakeRetired, PollChatPlayoutTail, PollChatControls,
          PollChatConnectionMessages, SubmitText, PollChatProtocolCleanup,
          RequestText, RequestControl, BeginChatListen, EndTurn,
          CloseAudioChannelByIntent, OpenChannel, OpenReturned
      <3>. QED
        BY <3>1 DEF ApplicationTypes
    <2>. QED
      BY <2>1, <2>2, <2>3
  <1>3. /\ apc' \in {"idle", "signals", "start", "outbound", "deliver", "retire",
                     "turn", "controls", "messages", "submit", "cleanup"}
        /\ playout' \in {"none", "live", "stale", "recovery"}
        /\ openWork' \in {"none", "queued", "connecting", "done"}
    <2>. USE RetireSummary DEF ApplicationTypes
    <2>1. CASE PollChatSourceOpen
      BY <2>1 DEF PollChatSourceOpen
    <2>2. CASE PollChatProtocolSignals
      BY <2>2 DEF PollChatProtocolSignals
    <2>3. CASE PollChatStart
      BY <2>3 DEF PollChatStart
    <2>4. CASE PollChatOutbound
      BY <2>4 DEF PollChatOutbound, HandleChatPlayoutInterrupt
    <2>5. CASE Deliver
      BY <2>5 DEF Deliver, Collected
    <2>6. CASE TakeRetired
      BY <2>6 DEF TakeRetired
    <2>7. CASE PollChatPlayoutTail
      BY <2>7 DEF PollChatPlayoutTail
    <2>8. CASE PollChatControls
      BY <2>8 DEF PollChatControls
    <2>9. CASE PollChatConnectionMessages
      BY <2>9 DEF PollChatConnectionMessages
    <2>10. CASE SubmitText
      BY <2>10 DEF SubmitText
    <2>11. CASE PollChatProtocolCleanup
      BY <2>11 DEF PollChatProtocolCleanup
    <2>12. CASE RequestText
      BY <2>12 DEF RequestText
    <2>13. CASE RequestControl
      BY <2>13 DEF RequestControl
    <2>14. CASE BeginChatListen
      BY <2>14 DEF BeginChatListen
    <2>15. CASE EndTurn
      BY <2>15 DEF EndTurn
    <2>16. CASE CloseAudioChannelByIntent
      BY <2>16 DEF CloseAudioChannelByIntent
    <2>17. CASE OpenChannel
      BY <2>17 DEF OpenChannel
    <2>18. CASE OpenReturned
      BY <2>18 DEF OpenReturned
    <2>. QED
      BY <2>1, <2>2, <2>3, <2>4, <2>5, <2>6, <2>7, <2>8, <2>9, <2>10, <2>11,
         <2>12, <2>13, <2>14, <2>15, <2>16, <2>17, <2>18
         DEF ApplicationStep, Poll, Handler
  <1>4. outEpoch' \in Nat /\ reservation' \in {reservation, 0, generation'}
    <2>. USE ActivationSummary DEF ApplicationTypes, appVars
    <2>1. CASE PollChatSourceOpen
      BY <2>1 DEF PollChatSourceOpen
    <2>2. CASE PollChatProtocolSignals
      BY <2>2 DEF PollChatProtocolSignals
    <2>3. CASE PollChatStart
      BY <2>3 DEF PollChatStart
    <2>4. CASE PollChatOutbound
      BY <2>4 DEF PollChatOutbound
    <2>5. CASE Deliver
      BY <2>5 DEF Deliver, Collected
    <2>6. CASE TakeRetired
      BY <2>6 DEF TakeRetired
    <2>7. CASE PollChatPlayoutTail
      BY <2>7 DEF PollChatPlayoutTail
    <2>8. CASE PollChatControls
      BY <2>8 DEF PollChatControls
    <2>9. CASE PollChatConnectionMessages
      BY ActivatedText, <2>9 DEF PollChatConnectionMessages
    <2>10. CASE SubmitText
      BY <2>10 DEF SubmitText
    <2>11. CASE PollChatProtocolCleanup
      BY <2>11 DEF PollChatProtocolCleanup
    <2>12. CASE RequestText
      BY <2>12 DEF RequestText
    <2>13. CASE RequestControl
      BY <2>13 DEF RequestControl
    <2>14. CASE BeginChatListen
      BY <2>14 DEF BeginChatListen, ConnectionTypes
    <2>15. CASE EndTurn
      BY <2>15 DEF EndTurn
    <2>16. CASE CloseAudioChannelByIntent
      BY <2>16 DEF CloseAudioChannelByIntent
    <2>17. CASE OpenChannel
      BY <2>17 DEF OpenChannel
    <2>18. CASE OpenReturned
      BY <2>18 DEF OpenReturned
    <2>. QED
      BY <2>1, <2>2, <2>3, <2>4, <2>5, <2>6, <2>7, <2>8, <2>9, <2>10, <2>11,
         <2>12, <2>13, <2>14, <2>15, <2>16, <2>17, <2>18
         DEF ApplicationStep, Poll, Handler
  <1>5. /\ responseEpoch' \in {responseEpoch, current}
        /\ obsolete' \in {obsolete, 0, reservation}
        /\ openCount' \in {openCount, openCount + 1}
        /\ turnCount' \in {turnCount, turnCount + 1}
    <2>. USE DEF turnVars
    <2>1. CASE PollChatSourceOpen
      BY <2>1 DEF PollChatSourceOpen
    <2>2. CASE PollChatProtocolSignals
      BY <2>2 DEF PollChatProtocolSignals
    <2>3. CASE PollChatStart
      BY <2>3 DEF PollChatStart
    <2>4. CASE PollChatOutbound
      BY <2>4 DEF PollChatOutbound, HandleChatPlayoutInterrupt
    <2>5. CASE Deliver
      BY <2>5 DEF Deliver, Collected
    <2>6. CASE TakeRetired
      BY <2>6 DEF TakeRetired
    <2>7. CASE PollChatPlayoutTail
      BY <2>7 DEF PollChatPlayoutTail
    <2>8. CASE PollChatControls
      BY <2>8 DEF PollChatControls
    <2>9. CASE PollChatConnectionMessages
      BY <2>9 DEF PollChatConnectionMessages
    <2>10. CASE SubmitText
      BY <2>10 DEF SubmitText
    <2>11. CASE PollChatProtocolCleanup
      BY <2>11 DEF PollChatProtocolCleanup
    <2>12. CASE RequestText
      BY <2>12 DEF RequestText
    <2>13. CASE RequestControl
      BY <2>13 DEF RequestControl
    <2>14. CASE BeginChatListen
      BY <2>14 DEF BeginChatListen
    <2>15. CASE EndTurn
      BY <2>15 DEF EndTurn
    <2>16. CASE CloseAudioChannelByIntent
      BY <2>16 DEF CloseAudioChannelByIntent
    <2>17. CASE OpenChannel
      BY <2>17 DEF OpenChannel
    <2>18. CASE OpenReturned
      BY <2>18 DEF OpenReturned
    <2>. QED
      BY <2>1, <2>2, <2>3, <2>4, <2>5, <2>6, <2>7, <2>8, <2>9, <2>10, <2>11,
         <2>12, <2>13, <2>14, <2>15, <2>16, <2>17, <2>18
         DEF ApplicationStep, Poll, Handler
  <1>. QED
    BY <1>1, <1>2, <1>3, <1>4, <1>5, MailboxAssumption
       DEF ApplicationTypes, ConnectionTypes

\* Changing one field of every intent of a queue, or of its front, keeps the type.
LEMMA TextsType ==
    ASSUME IntentTypes, ApplicationTypes
    PROVE  /\ \A c : [i \in DOMAIN texts |-> DeliveredText(c, texts[i])] \in Seq(TextIntents)
           /\ [i \in DOMAIN texts |-> Unbound(texts[i])] \in Seq(TextIntents)
  <1>1. ASSUME NEW t \in TextIntents
        PROVE  Unbound(t) \in TextIntents
    <2>1. 0 \in Nat /\ 0 \in 0 .. Exhausted /\ FALSE \in BOOLEAN
      BY MailboxAssumption
    <2>2. [t EXCEPT !.admitted = FALSE, !.id = 0, !.reservation = 0] \in TextIntents
      BY <2>1, Zenon DEF TextIntents, Intents
    <2>. QED
      BY <2>2, Zenon DEF Unbound
  <1>2. \A t \in TextIntents : \A c : DeliveredText(c, t) \in TextIntents
    BY DEF DeliveredText, TextIntents, Intents
  <1>3. [i \in DOMAIN texts |-> Unbound(texts[i])] \in Seq(TextIntents)
    BY <1>1 DEF IntentTypes
  <1>4. ASSUME NEW c
        PROVE  [i \in DOMAIN texts |-> DeliveredText(c, texts[i])] \in Seq(TextIntents)
    BY <1>2 DEF IntentTypes
  <1>. QED
    BY <1>3, <1>4

\* Superseding a control changes nothing but its outcome.
LEMMA SupersededType ==
    ASSUME IntentTypes
    PROVE  Superseded(controls) \in Seq(ControlIntents)
  <1>1. \A c \in ControlIntents :
          [c EXCEPT !.outcome = "Superseded"] \in ControlIntents
    BY DEF ControlIntents, Intents
  <1>. QED
    BY <1>1 DEF IntentTypes, Superseded

\* Replacing the front of a queue keeps its type.
LEMMA FrontType ==
    ASSUME NEW S, NEW seq \in Seq(S), seq # <<>>, NEW e \in S
    PROVE  [seq EXCEPT ![1] = e] \in Seq(S)
  OBVIOUS

\* A new intent, given to the connection that is current.
LEMMA IntentType ==
    ASSUME ConnectionTypes, NEW refs, NEW outcomes, "Pending" \in outcomes,
           NEW ref \in refs
    PROVE  Intent(ref) \in Intents(refs, outcomes)
  BY MailboxAssumption DEF Intent, Intents, ConnectionTypes

\* The texts, the controls and what was told of them keep their types.
LEMMA ApplicationIntents ==
    ASSUME TypeOK, Carried, ApplicationStep
    PROVE  IntentTypes'
  <1>. MailboxTypes /\ ConnectionTypes /\ ApplicationTypes /\ IntentTypes
    BY DEF TypeOK
  <1>1. texts' \in Seq(TextIntents)
    <2>1. CASE Deliver
      BY <2>1, TextsType DEF Deliver, Collected
    <2>2. CASE TakeRetired
      BY <2>2, TextsType DEF TakeRetired, IntentTypes
    <2>3. CASE PollChatConnectionMessages
      <3>1. CASE texts = <<>>
        BY <2>3, <3>1 DEF PollChatConnectionMessages, IntentTypes
      <3>2. CASE texts # <<>>
        <4>1. Head(texts) \in TextIntents /\ Tail(texts) \in Seq(TextIntents)
          BY <3>2, HeadTail DEF IntentTypes
        <4>2. Settled(Head(texts)) \in TextIntents
          BY <4>1 DEF Settled, TextIntents, Intents
        <4>3. texts' \in {texts, Tail(texts), [texts EXCEPT ![1] = Settled(Head(texts))]}
          BY <2>3, <3>2 DEF PollChatConnectionMessages, PopText
        <4>4. texts \in Seq(TextIntents)
          BY DEF IntentTypes
        <4>5. [texts EXCEPT ![1] = Settled(Head(texts))] \in Seq(TextIntents)
          BY <3>2, <4>2, <4>4, FrontType
        <4>. QED
          BY <4>1, <4>3, <4>4, <4>5
      <3>. QED
        BY <3>1, <3>2
    <2>4. CASE SubmitText
      <3>1. texts # <<>> /\ texts \in Seq(TextIntents)
        BY <2>4 DEF SubmitText, Carried, IntentTypes
      <3>2. Head(texts) \in TextIntents /\ texts[1] = Head(texts)
        BY <3>1, HeadTail
      <3>3. \A res : Attempted(Head(texts), res) \in TextIntents
        BY <3>2, IdentifiedType DEF TextIntents
      <3>4. \E e \in TextIntents : texts' = [texts EXCEPT ![1] = e]
        BY <2>4, <3>2, <3>3 DEF SubmitText
      <3>. QED
        BY <3>1, <3>4, FrontType
    <2>5. CASE RequestText
      <3>1. texts' \in {texts, Append(texts, Intent(textCount + 1))}
        BY <2>5 DEF RequestText
      <3>2. textCount + 1 \in Texts
        BY <2>5, WorkerAssumption DEF RequestText, IntentTypes, Texts
      <3>3. Intent(textCount + 1) \in TextIntents
        BY <3>2, IntentType DEF TextIntents
      <3>. QED
        BY <3>1, <3>3, AppendProperties DEF IntentTypes
    <2>6. CASE ~(Deliver \/ TakeRetired \/ PollChatConnectionMessages
                   \/ SubmitText \/ RequestText)
      <3>1. UNCHANGED texts
        BY <2>6 DEF ApplicationStep, Poll, Handler, intentVars,
          PollChatSourceOpen, PollChatProtocolSignals, PollChatStart,
          PollChatOutbound, PollChatPlayoutTail, PollChatControls,
          PollChatProtocolCleanup, RequestControl, BeginChatListen, EndTurn,
          CloseAudioChannelByIntent, OpenChannel, OpenReturned
      <3>. QED
        BY <3>1 DEF IntentTypes
    <2>. QED
      BY <2>1, <2>2, <2>3, <2>4, <2>5, <2>6
  <1>2. controls' \in Seq(ControlIntents)
    <2>1. CASE PollChatStart
      BY <2>1, SupersededType DEF PollChatStart, IntentTypes
    <2>2. CASE Deliver
      <3>1. \/ UNCHANGED controls
            \/ IsControlOf(collected) /\ controls' = Tail(controls)
        BY <2>2 DEF Deliver, Collected
      <3>2. IsControlOf(collected) => controls # <<>>
        BY DEF IsControlOf
      <3>. QED
        BY <3>1, <3>2, HeadTail DEF IntentTypes
    <2>3. CASE PollChatControls
      <3>1. CASE controls = <<>>
        BY <2>3, <3>1 DEF PollChatControls, IntentTypes
      <3>2. CASE controls # <<>>
        <4>1. /\ Head(controls) \in ControlIntents /\ controls[1] = Head(controls)
              /\ Tail(controls) \in Seq(ControlIntents)
              /\ controls \in Seq(ControlIntents)
          BY <3>2, HeadTail DEF IntentTypes
        <4>2. \A res : Attempted(controls[1], res) \in ControlIntents
          BY <4>1, IdentifiedType DEF ControlIntents
        <4>3. [controls[1] EXCEPT !.outcome = "Failed"] \in ControlIntents
          BY <4>1 DEF ControlIntents, Intents
        <4>4. \/ controls' \in {controls, Tail(controls), Superseded(controls)}
              \/ \E e \in ControlIntents : controls' = [controls EXCEPT ![1] = e]
          BY <2>3, <3>2, <4>2, <4>3 DEF PollChatControls
        <4>. QED
          BY <3>2, <4>1, <4>4, SupersededType, FrontType
      <3>. QED
        BY <3>1, <3>2
    <2>4. CASE RequestControl
      <3>1. controls' \in {controls, Append(controls, Intent(MaxTexts + controlCount + 1))}
        BY <2>4 DEF RequestControl
      <3>2. MaxTexts + controlCount + 1 \in Controls
        BY <2>4, WorkerAssumption DEF RequestControl, IntentTypes, Controls
      <3>3. Intent(MaxTexts + controlCount + 1) \in ControlIntents
        BY <3>2, IntentType DEF ControlIntents
      <3>. QED
        BY <3>1, <3>3, AppendProperties DEF IntentTypes
    <2>5. CASE ~(PollChatStart \/ Deliver \/ PollChatControls \/ RequestControl)
      <3>1. UNCHANGED controls
        BY <2>5 DEF ApplicationStep, Poll, Handler, intentVars,
          PollChatSourceOpen, PollChatProtocolSignals, PollChatOutbound,
          TakeRetired, PollChatPlayoutTail, PollChatConnectionMessages,
          SubmitText, PollChatProtocolCleanup, RequestText, BeginChatListen,
          EndTurn, CloseAudioChannelByIntent, OpenChannel, OpenReturned
      <3>. QED
        BY <3>1 DEF IntentTypes
    <2>. QED
      BY <2>1, <2>2, <2>3, <2>4, <2>5
  <1>3. textCount' \in 0 .. MaxTexts /\ controlCount' \in 0 .. MaxControls
    <2>. USE WorkerAssumption DEF IntentTypes, intentVars
    <2>1. CASE PollChatSourceOpen
      BY <2>1 DEF PollChatSourceOpen
    <2>2. CASE PollChatProtocolSignals
      BY <2>2 DEF PollChatProtocolSignals
    <2>3. CASE PollChatStart
      BY <2>3 DEF PollChatStart
    <2>4. CASE PollChatOutbound
      BY <2>4 DEF PollChatOutbound
    <2>5. CASE Deliver
      BY <2>5 DEF Deliver, Collected
    <2>6. CASE TakeRetired
      BY <2>6 DEF TakeRetired
    <2>7. CASE PollChatPlayoutTail
      BY <2>7 DEF PollChatPlayoutTail
    <2>8. CASE PollChatControls
      BY <2>8 DEF PollChatControls
    <2>9. CASE PollChatConnectionMessages
      BY <2>9 DEF PollChatConnectionMessages
    <2>10. CASE SubmitText
      BY <2>10 DEF SubmitText
    <2>11. CASE PollChatProtocolCleanup
      BY <2>11 DEF PollChatProtocolCleanup
    <2>12. CASE RequestText
      BY <2>12 DEF RequestText
    <2>13. CASE RequestControl
      BY <2>13 DEF RequestControl
    <2>14. CASE BeginChatListen
      BY <2>14 DEF BeginChatListen
    <2>15. CASE EndTurn
      BY <2>15 DEF EndTurn
    <2>16. CASE CloseAudioChannelByIntent
      BY <2>16 DEF CloseAudioChannelByIntent
    <2>17. CASE OpenChannel
      BY <2>17 DEF OpenChannel
    <2>18. CASE OpenReturned
      BY <2>18 DEF OpenReturned
    <2>. QED
      BY <2>1, <2>2, <2>3, <2>4, <2>5, <2>6, <2>7, <2>8, <2>9, <2>10, <2>11,
         <2>12, <2>13, <2>14, <2>15, <2>16, <2>17, <2>18
         DEF ApplicationStep, Poll, Handler
  <1>4. told' \in [Texts -> {"none", "Sent", "Failed", "Cancelled"}]
    <2>1. CASE PollChatConnectionMessages
      <3>1. CASE UNCHANGED told
        BY <3>1 DEF IntentTypes
      <3>2. CASE ~UNCHANGED told
        <4>1. texts # <<>> /\ PopText(Settled(Head(texts)))
              /\ Settled(Head(texts)).outcome # "Pending"
          BY <2>1, <3>2 DEF PollChatConnectionMessages
        <4>2. Head(texts) \in TextIntents
          BY <4>1, HeadTail DEF IntentTypes
        <4>3. Settled(Head(texts)).outcome \in {"Sent", "Failed", "Cancelled"}
          BY <4>1, <4>2 DEF Settled, TextIntents, Intents
        <4>. QED
          BY <4>1, <4>3 DEF PopText, IntentTypes
      <3>. QED
        BY <3>1, <3>2
    <2>2. CASE ~PollChatConnectionMessages
      <3>1. UNCHANGED told
        BY <2>2 DEF ApplicationStep, Poll, Handler, intentVars,
          PollChatSourceOpen, PollChatProtocolSignals, PollChatStart,
          PollChatOutbound, Deliver, TakeRetired, PollChatPlayoutTail,
          PollChatControls, SubmitText, PollChatProtocolCleanup,
          RequestText, RequestControl, BeginChatListen, EndTurn,
          CloseAudioChannelByIntent, OpenChannel, OpenReturned
      <3>. QED
        BY <3>1 DEF IntentTypes
    <2>. QED
      BY <2>1, <2>2
  <1>. QED
    BY <1>1, <1>2, <1>3, <1>4 DEF IntentTypes

-----------------------------------------------------------------------------
(* Types: the network worker, the transport, the capture and the clock *)

\* Outside both tasks only the connection, the open worker's place, the clock
\* and the captured packets change.
LEMMA OtherTypeStep ==
    ASSUME TypeOK, Network \/ TransportStep \/ Capture \/ Expire
    PROVE  TypeOK'
  <1>. /\ FlagTypes /\ MailboxTypes /\ ConnectionTypes
       /\ WorkerTypes /\ ApplicationTypes /\ IntentTypes
    BY DEF TypeOK
  <1>1. FlagTypes'
    <2>. USE DEF FlagTypes, NetFrame, workerVars, gateVars, identityVars, appVars
    <2>1. CASE OpenBegins
      BY <2>1 DEF OpenBegins
    <2>2. CASE OpenPublishes
      BY <2>2 DEF OpenPublishes
    <2>3. CASE OpenFails
      BY <2>3 DEF OpenFails
    <2>4. CASE RunChatProtocolCleanup
      BY <2>4 DEF RunChatProtocolCleanup
    <2>5. CASE TransportStep
      BY <2>5 DEF TransportStep, Transport, SocketDown, SocketDisconnected
    <2>6. CASE Capture
      BY <2>6 DEF Capture
    <2>7. CASE Expire
      BY <2>7 DEF Expire
    <2>. QED
      BY <2>1, <2>2, <2>3, <2>4, <2>5, <2>6, <2>7 DEF Network
  <1>. USE DEF Network, OpenBegins, OpenPublishes, OpenFails,
         RunChatProtocolCleanup, TransportStep, Transport, SocketDown,
         SocketDisconnected, PublishFault, Capture, Expire, NetFrame,
         mailboxVars, gateVars, identityVars, workerVars, historyVars, appVars,
         intentVars, turnVars
  <1>2. MailboxTypes'
    BY DEF MailboxTypes
  <1>3. ConnectionTypes'
    BY DEF ConnectionTypes
  <1>4. WorkerTypes'
    <2>1. CASE Capture
      BY <2>1 DEF WorkerTypes
    <2>2. CASE Expire
      <3>1. expired' \subseteq Refs
        <4>1. PICK s \in {texts, controls} : \E i \in DOMAIN s :
                expired' = expired \cup {s[i].ref}
          BY <2>2
        <4>2. PICK i \in DOMAIN s : expired' = expired \cup {s[i].ref}
          BY <4>1
        <4>3. s[i] \in TextIntents \/ s[i] \in ControlIntents
          BY <4>1, <4>2 DEF IntentTypes
        <4>4. s[i].ref \in Refs
          BY <4>3 DEF TextIntents, ControlIntents, Intents, Refs
        <4>. QED
          BY <4>2, <4>4 DEF WorkerTypes
      <3>. QED
        BY <2>2, <3>1 DEF WorkerTypes
    <2>3. CASE Network \/ TransportStep
      <3>1. /\ UNCHANGED <<pc, workerState, activation, workerJob, workerResult>>
            /\ UNCHANGED <<contentions, captured, packets, ahead, expired, wire>>
        BY <2>3
      <3>. QED
        BY <3>1 DEF WorkerTypes
    <2>. QED
      BY <2>1, <2>2, <2>3
  <1>5. ApplicationTypes'
    BY DEF ApplicationTypes
  <1>6. IntentTypes'
    BY DEF IntentTypes
  <1>. QED
    BY <1>1, <1>2, <1>3, <1>4, <1>5, <1>6 DEF TypeOK

\* What stutters keeps its type and every other part of the invariant.
LEMMA Stuttering == IInv /\ UNCHANGED vars => IInv'
  <1>. SUFFICES ASSUME IInv, UNCHANGED vars PROVE IInv'
    OBVIOUS
  <1>. USE DEF vars, mailboxVars, gateVars, identityVars, workerVars, historyVars,
         appVars, intentVars, turnVars
  <1>. /\ FlagTypes /\ MailboxTypes /\ ConnectionTypes
       /\ WorkerTypes /\ ApplicationTypes /\ IntentTypes
    BY DEF IInv, TypeOK
  <1>1. FlagTypes'
    BY DEF FlagTypes
  <1>2. MailboxTypes' /\ ConnectionTypes'
    BY DEF MailboxTypes, ConnectionTypes
  <1>3. WorkerTypes'
    BY DEF WorkerTypes
  <1>4. ApplicationTypes' /\ IntentTypes'
    BY DEF ApplicationTypes, IntentTypes
  <1>5. Ownership' /\ Carried'
    BY DEF IInv, Ownership, Carried
  <1>6. LeaseHeld'
    BY DEF IInv, LeaseHeld, LeaseKeepsConnection
  <1>. QED
    BY <1>1, <1>2, <1>3, <1>4, <1>5, <1>6 DEF IInv, TypeOK

\* Every step keeps every variable's type.
LEMMA TypeStep ==
    ASSUME TypeOK, Carried, Next
    PROVE  TypeOK'
  <1>1. CASE ApplicationStep
    BY <1>1, ApplicationFlags, ApplicationMailbox, ApplicationConnection,
       ApplicationWorker, ApplicationApplication, ApplicationIntents DEF TypeOK
  <1>2. CASE WorkerStep
    BY <1>2, WorkerTypeStep
  <1>3. CASE Network \/ TransportStep \/ Capture \/ Expire
    BY <1>3, OtherTypeStep
  <1>. QED
    BY <1>1, <1>2, <1>3 DEF Next

-----------------------------------------------------------------------------
(* The initial state *)

\* The initial state satisfies the invariant.
LEMMA InitIInv == Init => IInv
  <1>. SUFFICES ASSUME Init PROVE IInv
    OBVIOUS
  <1>. USE DEF Init, MailboxInit, ConnectionInit, WorkerInit
  <1>1. FlagTypes
    BY DEF FlagTypes
  <1>2. MailboxTypes
    <2>1. completion \in Completions /\ active \in Jobs \cup {NoJob}
      BY DEF Completions
    <2>. QED
      BY <2>1, MailboxAssumption DEF MailboxTypes
  <1>3. ConnectionTypes
    BY DEF ConnectionTypes
  <1>4. WorkerTypes
    BY MailboxAssumption DEF WorkerTypes, Results
  <1>5. ApplicationTypes
    BY MailboxAssumption DEF ApplicationTypes, Completions
  <1>6. IntentTypes
    BY WorkerAssumption DEF IntentTypes
  <1>7. Ownership /\ Carried
    BY DEF Ownership, Carried, Carrying
  <1>8. LeaseHeld
    BY DEF LeaseHeld, LeaseKeepsConnection, Sending
  <1>. QED
    BY <1>1, <1>2, <1>3, <1>4, <1>5, <1>6, <1>7, <1>8 DEF IInv, TypeOK

-----------------------------------------------------------------------------
(* The invariant *)

\* The two ways the application touches a reservation: it makes one for an
\* unpublished worker when nothing is busy, and takes a retired one back.
Reserves ==
    /\ reservation = 0 /\ openWork = "none" /\ cleanup = "none" /\ workerState = 0
    /\ reservation' # 0 /\ workerState' = 1 /\ UNCHANGED <<openWork, cleanup>>
Returns ==
    /\ workerState = 2 /\ reservation' = 0 /\ workerState' = 0
    /\ UNCHANGED <<openWork, activation>>
    /\ cleanup' = CleanupAfterPoll(cleanup, openWork # "none")
Keeps == UNCHANGED <<reservation, workerState, activation>>

\* An activation reserves the protocol for the worker.
LEMMA ActivationReserves ==
    ASSUME TypeOK, NEW e, Activated(e), UNCHANGED <<openWork, cleanup>>
    PROVE  Reserves
  <1>1. Advanced(generation) # 0
    BY AdvancedType DEF TypeOK, MailboxTypes
  <1>. QED
    BY <1>1 DEF Activated, ActivationSucceeds, CanActivate, Busy, Pending, Reserves

\* A protocol is handed over only when nothing is reserved, an open starts only
\* when no protocol is.
LEMMA ApplicationOwnership ==
    ASSUME TypeOK, Ownership, ApplicationStep
    PROVE  \/ Reserves
           \/ Returns
           \/ /\ Keeps
              /\ \/ UNCHANGED <<openWork, cleanup>>
                 \/ UNCHANGED openWork /\ cleanup' \in {cleanup, "wanted", "none"}
                 \/ cleanup' = CleanupAfterPoll(cleanup, Busy) /\ UNCHANGED openWork
                 \/ UNCHANGED openWork /\ reservation = 0 /\ openWork = "none"
                 \/ UNCHANGED cleanup /\ cleanup \notin {"handed", "done"}
                 \/ openWork' = "none" /\ PollCleanup(reservation # 0)
  <1>. USE DEF Keeps, appVars
  <1>1. CASE PollChatSourceOpen
    BY <1>1 DEF PollChatSourceOpen
  <1>2. CASE PollChatProtocolSignals
    BY <1>2 DEF PollChatProtocolSignals, RequestClose, CleanupAfterPoll, Busy, Ownership
  <1>3. CASE PollChatStart
    BY <1>3 DEF PollChatStart
  <1>4. CASE PollChatOutbound
    BY <1>4 DEF PollChatOutbound
  <1>5. CASE Deliver
    BY <1>5 DEF Deliver, Collected
  <1>6. CASE TakeRetired
    BY <1>6 DEF TakeRetired, Returns, PollCleanup
  <1>7. CASE PollChatPlayoutTail
    BY ActivationReserves, <1>7 DEF PollChatPlayoutTail, NoActivation, ActivationFailed
  <1>8. CASE PollChatControls
    BY <1>8 DEF PollChatControls
  <1>9. CASE PollChatConnectionMessages
    BY ActivationReserves, ActivatedText, <1>9 DEF PollChatConnectionMessages, NoActivation, ActivationFailed
  <1>10. CASE SubmitText
    BY <1>10 DEF SubmitText
  <1>11. CASE PollChatProtocolCleanup
    BY <1>11 DEF PollChatProtocolCleanup, RequestClose, PollCleanup, CleanupAfterPoll, Busy, Pending
  <1>12. CASE RequestText
    BY <1>12 DEF RequestText
  <1>13. CASE RequestControl
    BY <1>13 DEF RequestControl
  <1>14. CASE BeginChatListen
    BY ActivationReserves, <1>14 DEF BeginChatListen, NoActivation, ActivationFailed
  <1>15. CASE EndTurn
    BY <1>15 DEF EndTurn
  <1>16. CASE CloseAudioChannelByIntent
    BY <1>16 DEF CloseAudioChannelByIntent, CleanupAfterPoll, Busy
  <1>17. CASE OpenChannel
    BY <1>17 DEF OpenChannel
  <1>18. CASE OpenReturned
    BY <1>18 DEF OpenReturned
  <1>. QED
    BY <1>1, <1>2, <1>3, <1>4, <1>5, <1>6, <1>7, <1>8, <1>9, <1>10, <1>11, <1>12,
       <1>13, <1>14, <1>15, <1>16, <1>17, <1>18
       DEF ApplicationStep, Poll, Handler

\* Ownership of the protocol is preserved by every step.
LEMMA OwnershipStep ==
    ASSUME TypeOK, Ownership, Next
    PROVE  Ownership'
  <1>1. CASE ApplicationStep
    <2>1. UNCHANGED pc
      BY <1>1, ApplicationFrame DEF Frame
    <2>. QED
      BY <1>1, <2>1, ApplicationOwnership
         DEF Ownership, Reserves, Returns, Keeps, PollCleanup, CleanupAfterPoll, Busy
  <1>2. CASE WorkerStep
    <2>0. Wake \/ RunOnce
      BY <1>2 DEF WorkerStep
    <2>1. UNCHANGED <<reservation, openWork, cleanup>>
      BY <1>2, <2>0 DEF WorkerStep, appVars, RunOnce, Wake, Start, Take, Check,
        Lease, Format, Write, Finish, Complete, RetireWorker, IdleBefore, Pop,
        IdleAfter, AudioLease, AudioSend
    <2>2. /\ pc' \notin {"sleep", "start"} => workerState' = 1
          /\ \/ UNCHANGED workerState
             \/ workerState = 1 /\ workerState' = 2
      BY <2>0 DEF Ownership, RunOnce, Wake, Start, Take, Check, Lease, Format,
        Write, Finish, Complete, RetireWorker, IdleBefore, Pop, IdleAfter,
        AudioLease, AudioSend, Return
    <2>. QED
      BY <2>1, <2>2 DEF Ownership
  <1>3. CASE Network \/ TransportStep \/ Capture \/ Expire
    BY <1>3 DEF Ownership, Network, OpenBegins, OpenPublishes, OpenFails,
      RunChatProtocolCleanup, NetFrame, TransportStep, Transport, SocketDown,
      SocketDisconnected, Capture, Expire, workerVars, appVars
  <1>. QED
    BY <1>1, <1>2, <1>3 DEF Next

\* Nothing that belongs to the lease is written while the lease is held, except
\* by its holder.
LEMMA LeaseStep ==
    ASSUME TypeOK, Ownership, LeaseHeld, Next
    PROVE  LeaseHeld'
  <1>. USE DEF LeaseHeld, LeaseKeepsConnection, Sending
  <1>1. CASE ApplicationStep
    <2>1. UNCHANGED <<pc, leased, healthy, epoch, socketEpoch, workerJob>>
      BY <1>1, ApplicationFrame DEF Frame, gateVars
    <2>2. UNCHANGED activation \/ pc \in {"sleep", "start"}
      BY <1>1, ApplicationOwnership DEF Ownership, Reserves, Returns, Keeps
    <2>. QED
      BY <2>1, <2>2
  <1>2. CASE WorkerStep
    <2>0. Wake \/ RunOnce
      BY <1>2 DEF WorkerStep
    <2>. QED
      BY <2>0 DEF RunOnce, Wake, Start, Take, Check, Lease, Format, Write, Finish,
        Complete, RetireWorker, IdleBefore, Pop, IdleAfter, AudioLease, AudioSend,
        Return, LeaseAllowed, gateVars
  <1>3. CASE Network \/ TransportStep \/ Capture \/ Expire
    BY <1>3 DEF Network, OpenBegins, OpenPublishes, OpenFails,
      RunChatProtocolCleanup, NetFrame, TransportStep, Transport, SocketDown,
      SocketDisconnected, Capture, Expire, workerVars, gateVars
  <1>. QED
    BY <1>1, <1>2, <1>3 DEF Next

\* The worker carries a job it took, and takes only jobs; a text about to be
\* submitted cannot leave before it is.
LEMMA CarriedStep ==
    ASSUME TypeOK, Carried, Next
    PROVE  Carried'
  <1>. USE DEF Carried, Carrying
  <1>1. CASE ApplicationStep
    <2>1. UNCHANGED <<pc, workerJob>>
      BY <1>1, ApplicationFrame DEF Frame
    <2>2. apc' = "submit" => texts' # <<>>
      BY <1>1 DEF ApplicationStep, Poll, Handler, PollChatSourceOpen,
        PollChatProtocolSignals, PollChatStart, PollChatOutbound, Deliver,
        TakeRetired, PollChatPlayoutTail, PollChatControls,
        PollChatConnectionMessages, SubmitText, PollChatProtocolCleanup,
        RequestText, RequestControl, BeginChatListen, EndTurn,
        CloseAudioChannelByIntent, OpenChannel, OpenReturned
    <2>. QED
      BY <2>1, <2>2
  <1>2. CASE WorkerStep
    <2>0. (Wake \/ RunOnce) /\ UNCHANGED <<apc, texts>>
      BY <1>2 DEF WorkerStep, intentVars
    <2>1. CASE Take
      <3>1. CanTake => Head(CompactQueue) \in Jobs
        BY CompactQueueType, HeadTail DEF CanTake, TypeOK, MailboxTypes
      <3>2. pc' = "check" => workerJob' \in Jobs
        BY <2>1, <3>1 DEF Take, TryTake
      <3>. QED
        BY <2>0, <2>1, <3>2 DEF Take, Jobs, NoJob
    <2>2. CASE ~Take
      BY <2>0, <2>2 DEF RunOnce, Wake, Start, Check, Lease, Format, Write, Finish,
        Complete, RetireWorker, IdleBefore, Pop, IdleAfter, AudioLease, AudioSend,
        Return
    <2>. QED
      BY <2>1, <2>2
  <1>3. CASE Network \/ TransportStep \/ Capture \/ Expire
    BY <1>3 DEF Network, OpenBegins, OpenPublishes, OpenFails,
      RunChatProtocolCleanup, NetFrame, TransportStep, Transport, SocketDown,
      SocketDisconnected, Capture, Expire, workerVars, intentVars
  <1>. QED
    BY <1>1, <1>2, <1>3 DEF Next

\* IInv is inductive.
LEMMA InvariantStep == IInv /\ [Next]_vars => IInv'
  <1>. SUFFICES ASSUME IInv, [Next]_vars PROVE IInv'
    OBVIOUS
  <1>1. CASE Next
    BY <1>1, TypeStep, OwnershipStep, LeaseStep, CarriedStep DEF IInv
  <1>2. CASE UNCHANGED vars
    BY <1>2, Stuttering
  <1>. QED
    BY <1>1, <1>2

\* The invariant holds in every reachable state.
THEOREM Inductive == Spec => []IInv
  BY InitIInv, InvariantStep, PTL DEF Spec

\* Every variable keeps its type, the saturation of the generation and the
\* bounds of both queues included.
THEOREM TypeCorrect == Spec => []TypeOK
  <1>1. IInv => TypeOK
    BY DEF IInv
  <1>. QED
    BY <1>1, Inductive, PTL

\* The network worker never has the protocol object while the outbound worker or
\* an open can still use it.
THEOREM OneOwner == Spec => []ProtocolUnderOneOwner
  <1>1. IInv => ProtocolUnderOneOwner
    BY DEF IInv, Ownership, ProtocolUnderOneOwner
  <1>. QED
    BY <1>1, Inductive, PTL

\* Nothing is torn down under a send, and the socket is the one it was meant for.
THEOREM LeaseHolds == Spec => []LeaseKeepsConnection
  <1>1. IInv => LeaseKeepsConnection
    BY DEF IInv, LeaseHeld
  <1>. QED
    BY <1>1, Inductive, PTL

-----------------------------------------------------------------------------
(* Audio stays behind the jobs that were pending when it was captured *)

\* Every job was admitted under an id and a generation that were not later than
\* the last ones, so neither comes back.
Ordered ==
    /\ \A j \in DOMAIN queue : queue[j].gen <= generation /\ queue[j].id <= lastAdmitted
    /\ active.id <= lastAdmitted /\ completion.job.id <= lastAdmitted
    /\ \A a \in ahead : a <= lastAdmitted

\* Past the second idle check only jobs admitted after the packet can follow.
Cleared ==
    pc \in {"audio", "audioSend"} =>
        /\ active = NoJob /\ completion = NoCompletion
        /\ \A j \in DOMAIN queue : j \in {1, 2} /\ IsCurrent(queue[j].gen)
                                     => queue[j].id \notin ahead

AudioInv == IInv /\ Ordered /\ Cleared

\* A compacted slot is one of the queue, of the current generation, and a queue
\* that compacts to nothing has no such slot.
LEMMA Compaction ==
    ASSUME queue \in Seq(Jobs)
    PROVE  /\ \A i \in DOMAIN CompactQueue : \E j \in DOMAIN queue :
                j \in {1, 2} /\ IsCurrent(queue[j].gen) /\ CompactQueue[i] = queue[j]
           /\ CompactQueue = <<>> => \A j \in DOMAIN queue :
                j \in {1, 2} => ~IsCurrent(queue[j].gen)
  <1>1. /\ Live(1) \in Seq(Jobs) /\ Live(2) \in Seq(Jobs)
        /\ \A n \in {1, 2} : \/ Live(n) = <<>>
                                /\ ~(n \in DOMAIN queue /\ IsCurrent(queue[n].gen))
                             \/ /\ n \in DOMAIN queue /\ IsCurrent(queue[n].gen)
                                /\ Live(n) = <<queue[n]>> /\ Live(n) # <<>>
    BY DEF Live
  <1>2. CASE Live(1) = <<>> /\ Live(2) = <<>>
    <2>1. CompactQueue = <<>>
      BY <1>2, ConcatEmptySeq DEF CompactQueue
    <2>. QED
      BY <1>1, <1>2, <2>1
  <1>3. CASE Live(1) = <<>> /\ Live(2) # <<>>
    <2>1. CompactQueue = <<queue[2]>> /\ 2 \in DOMAIN queue /\ IsCurrent(queue[2].gen)
      BY <1>1, <1>3, ConcatEmptySeq DEF CompactQueue
    <2>. QED
      BY <2>1
  <1>4. CASE Live(1) # <<>> /\ Live(2) = <<>>
    <2>1. CompactQueue = <<queue[1]>> /\ 1 \in DOMAIN queue /\ IsCurrent(queue[1].gen)
      BY <1>1, <1>4, ConcatEmptySeq DEF CompactQueue
    <2>. QED
      BY <2>1
  <1>5. CASE Live(1) # <<>> /\ Live(2) # <<>>
    <2>1. /\ {1, 2} \subseteq DOMAIN queue
          /\ IsCurrent(queue[1].gen) /\ IsCurrent(queue[2].gen)
          /\ Live(1) = <<queue[1]>> /\ Live(2) = <<queue[2]>>
      BY <1>1, <1>5
    <2>2. /\ DOMAIN CompactQueue = {1, 2} /\ CompactQueue # <<>>
          /\ CompactQueue[1] = queue[1] /\ CompactQueue[2] = queue[2]
      BY <1>1, <2>1, ConcatProperties DEF CompactQueue
    <2>. QED
      BY <2>1, <2>2
  <1>. QED
    BY <1>2, <1>3, <1>4, <1>5

\* What is in the mailbox has an id that was admitted.
LEMMA PendingAdmitted ==
    ASSUME MailboxTypes, ApplicationTypes, Ordered
    PROVE  \A a \in PendingIds : a <= lastAdmitted
  <1>1. \A i \in DOMAIN CompactQueue : CompactQueue[i].id <= lastAdmitted
    BY Compaction DEF MailboxTypes, Ordered
  <1>. QED
    BY <1>1 DEF PendingIds, QueuedIds, Ordered

\* The generation only moves forward.
LEMMA GenerationAdvances ==
    ASSUME TypeOK, ApplicationStep
    PROVE  generation' = generation \/ generation' = Advanced(generation)
  <1>. USE RetireSummary, ActivationSummary DEF Retires, retireVars
  <1>1. CASE PollChatSourceOpen
    BY <1>1 DEF PollChatSourceOpen
  <1>2. CASE PollChatProtocolSignals
    BY <1>2 DEF PollChatProtocolSignals
  <1>3. CASE PollChatStart
    BY <1>3 DEF PollChatStart
  <1>4. CASE PollChatOutbound
    BY <1>4 DEF PollChatOutbound, HandleChatPlayoutInterrupt
  <1>5. CASE Deliver
    BY <1>5 DEF Deliver
  <1>6. CASE TakeRetired
    BY <1>6 DEF TakeRetired
  <1>7. CASE PollChatPlayoutTail
    BY <1>7 DEF PollChatPlayoutTail
  <1>8. CASE PollChatControls
    BY <1>8 DEF PollChatControls
  <1>9. CASE PollChatConnectionMessages
    BY <1>9 DEF PollChatConnectionMessages
  <1>10. CASE SubmitText
    BY <1>10 DEF SubmitText
  <1>11. CASE PollChatProtocolCleanup
    BY <1>11 DEF PollChatProtocolCleanup
  <1>12. CASE RequestText
    BY <1>12 DEF RequestText
  <1>13. CASE RequestControl
    BY <1>13 DEF RequestControl
  <1>14. CASE BeginChatListen
    BY <1>14 DEF BeginChatListen
  <1>15. CASE EndTurn
    BY <1>15 DEF EndTurn
  <1>16. CASE CloseAudioChannelByIntent
    BY <1>16 DEF CloseAudioChannelByIntent
  <1>17. CASE OpenChannel
    BY <1>17 DEF OpenChannel
  <1>18. CASE OpenReturned
    BY <1>18 DEF OpenReturned
  <1>. QED
    BY <1>1, <1>2, <1>3, <1>4, <1>5, <1>6, <1>7, <1>8, <1>9, <1>10, <1>11, <1>12,
       <1>13, <1>14, <1>15, <1>16, <1>17, <1>18
       DEF ApplicationStep, Poll, Handler

\* The application admits a job only under a greater id and the current
\* generation, and otherwise leaves the queue alone.
Admits(job) ==
    /\ queue' = Append(CompactQueue, job) /\ job \in Jobs
    /\ lastAdmitted' = job.id /\ job.id > lastAdmitted
    /\ IsCurrent(job.gen) /\ UNCHANGED generation
\* What SubmitChatOutbound admits when it returns Sent.
LEMMA SubmitAdmits ==
    ASSUME ApplicationTypes, NEW outcomes, "Failed" \in outcomes,
           NEW intent \in Intents(Refs, outcomes), NEW kind \in {"text", "control"},
           NEW contended,
           Submit(intent, kind, SubmitResult(intent, kind, contended)),
           SubmitResult(intent, kind, contended) = "Sent" => UNCHANGED generation
    PROVE  \/ UNCHANGED <<queue, lastAdmitted>>
           \/ \E job : Admits(job)
  <1>. DEFINE res == SubmitResult(intent, kind, contended)
              job == JobOf(Identified(intent), kind)
  <1>1. CASE res # "Sent"
    BY <1>1 DEF Submit
  <1>2. CASE res = "Sent"
    <2>1. job \in Jobs /\ job.id = Identified(intent).id
      BY JobType DEF JobOf
    <2>2. Identified(intent).id \in Nat /\ lastAdmitted \in Nat
      BY IdentifiedType DEF Intents, ApplicationTypes
    <2>3. ~(Identified(intent).id <= lastAdmitted)
      BY <1>2 DEF SubmitResult
    <2>4. queue' = Append(CompactQueue, job) /\ IsCurrent(job.gen)
          /\ lastAdmitted' = Identified(intent).id
      BY <1>2 DEF Submit, TrySubmit, CanSubmit
    <2>5. Admits(job)
      BY <1>2, <2>1, <2>2, <2>3, <2>4 DEF Admits
    <2>. QED
      BY <2>5
  <1>. QED
    BY <1>1, <1>2

\* Texts and controls are the only jobs, and enter only through the submission.
LEMMA ApplicationAdmits ==
    ASSUME TypeOK, Carried, ApplicationStep
    PROVE  \/ UNCHANGED <<queue, lastAdmitted>>
           \/ \E job : Admits(job)
  <1>. MailboxTypes /\ ApplicationTypes /\ IntentTypes
    BY DEF TypeOK
  <1>1. CASE PollChatControls
    <2>1. CASE UNCHANGED <<queue, lastAdmitted>>
      BY <2>1
    <2>2. CASE ~UNCHANGED <<queue, lastAdmitted>>
      <3>1. PICK contended \in BOOLEAN :
              LET res == SubmitResult(Head(controls), "control", contended) IN
              /\ controls # <<>>
              /\ Submit(Head(controls), "control", res)
              /\ res = "Sent" => UNCHANGED generation
        BY <1>1, <2>2 DEF PollChatControls
      <3>2. Head(controls) \in Intents(Refs, {"Pending", "Failed", "Superseded"})
        BY <3>1, HeadTail, IntentRefs DEF IntentTypes
      <3>. QED
        BY <3>1, <3>2, SubmitAdmits
    <2>. QED
      BY <2>1, <2>2
  <1>2. CASE SubmitText
    <2>1. PICK contended \in BOOLEAN :
            LET res == SubmitResult(Head(texts), "text", contended) IN
            /\ Submit(Head(texts), "text", res)
            /\ ~(Admissible /\ Exhausts(Head(texts))) => UNCHANGED generation
      BY <1>2 DEF SubmitText
    <2>2. Head(texts) \in Intents(Refs, {"Pending", "Sent", "Failed", "Cancelled"})
      BY <1>2, HeadTail, IntentRefs DEF IntentTypes, Carried, SubmitText
    <2>3. SubmitResult(Head(texts), "text", contended) = "Sent" => UNCHANGED generation
      BY <2>1 DEF SubmitResult
    <2>. QED
      BY <2>1, <2>2, <2>3, SubmitAdmits
  <1>3. CASE ~(PollChatControls \/ SubmitText)
    BY <1>3 DEF appVars, ApplicationStep, Poll, Handler,
        PollChatSourceOpen, PollChatProtocolSignals, PollChatStart,
        PollChatOutbound, Deliver, TakeRetired, PollChatPlayoutTail,
        PollChatConnectionMessages, PollChatProtocolCleanup, RequestText,
        RequestControl, BeginChatListen, EndTurn, CloseAudioChannelByIntent,
        OpenChannel, OpenReturned
  <1>. QED
    BY <1>1, <1>2, <1>3

\* A job the event loop admits comes after every packet already captured.
LEMMA OrderedApplication ==
    ASSUME AudioInv, ApplicationStep
    PROVE  Ordered' /\ Cleared'
  <1>. TypeOK /\ MailboxTypes /\ ApplicationTypes /\ Carried /\ Ordered /\ Cleared
    BY DEF AudioInv, IInv, TypeOK
  <1>. /\ generation \in 0 .. Exhausted /\ lastAdmitted \in Nat /\ queue \in Seq(Jobs)
       /\ \A j \in DOMAIN queue : queue[j] \in Jobs /\ queue[j].id \in Nat
                                    /\ queue[j].gen \in 0 .. Exhausted
    <2>1. \A job \in Jobs : job.id \in Nat /\ job.gen \in 0 .. Exhausted
      BY DEF Jobs
    <2>2. generation \in 0 .. Exhausted /\ lastAdmitted \in Nat /\ queue \in Seq(Jobs)
      BY DEF MailboxTypes, ApplicationTypes
    <2>. QED
      BY <2>1, <2>2
  <1>1. UNCHANGED <<pc, active, ahead>> /\ (UNCHANGED completion \/ completion' = NoCompletion)
    <2>1. CASE PollChatOutbound
      BY <2>1, ApplicationFrame DEF PollChatOutbound, Frame, historyVars
    <2>2. CASE ~PollChatOutbound
      BY <2>2, ApplicationFrame DEF Frame, historyVars, ApplicationStep, Poll,
        Handler, PollChatSourceOpen, PollChatProtocolSignals, PollChatStart,
        Deliver, TakeRetired, PollChatPlayoutTail, PollChatControls,
        PollChatConnectionMessages, SubmitText, PollChatProtocolCleanup,
        RequestText, RequestControl, BeginChatListen, EndTurn,
        CloseAudioChannelByIntent, OpenChannel, OpenReturned
    <2>. QED
      BY <2>1, <2>2
  <1>2. /\ generation' \in Nat /\ generation <= generation'
        /\ \A j \in DOMAIN queue : IsCurrentIn(queue[j].gen, generation')
                                     => IsCurrent(queue[j].gen)
    <2>1. generation' = generation \/ generation' = Advanced(generation)
      BY GenerationAdvances
    <2>. QED
      BY <2>1, MailboxAssumption DEF Advanced, IsCurrent, IsCurrentIn, Ordered
  <1>3. CASE UNCHANGED <<queue, lastAdmitted>>
    <2>1. Ordered'
      <3>1. \A j \in DOMAIN queue : queue[j].gen <= generation'
        BY <1>2 DEF Ordered
      <3>2. completion'.job.id <= lastAdmitted
        BY <1>1 DEF Ordered, NoCompletion, NoJob
      <3>. QED
        BY <1>1, <1>3, <3>1, <3>2 DEF Ordered
    <2>2. Cleared'
      BY <1>1, <1>2, <1>3 DEF Cleared, IsCurrent
    <2>. QED
      BY <2>1, <2>2
  <1>4. CASE \E job : Admits(job)
    <2>1. PICK job : Admits(job)
      BY <1>4
    <2>2. /\ job \in Jobs /\ job.id \in Nat /\ job.gen = generation
          /\ lastAdmitted' = job.id /\ job.id > lastAdmitted
          /\ UNCHANGED generation
      BY <2>1 DEF Admits, Jobs, IsCurrent, IsCurrentIn
    <2>3. CompactQueue \in Seq(Jobs) /\ queue' = Append(CompactQueue, job)
      BY <2>1, CompactQueueType DEF Admits
    <2>4. \A j \in DOMAIN queue' :
            \/ queue'[j] = job
            \/ \E i \in DOMAIN queue : i \in {1, 2} /\ IsCurrent(queue[i].gen)
                                         /\ queue'[j] = queue[i]
      <3>1. \A j \in DOMAIN queue' :
              queue'[j] = job \/ (j \in DOMAIN CompactQueue /\ queue'[j] = CompactQueue[j])
        BY <2>2, <2>3
      <3>. QED
        BY <3>1, Compaction
    <2>5. Ordered'
      <3>1. \A j \in DOMAIN queue' : queue'[j].gen <= generation' /\ queue'[j].id <= job.id
        BY <2>2, <2>4 DEF Ordered
      <3>2. /\ active.id <= job.id /\ completion'.job.id <= job.id
            /\ \A a \in ahead : a <= job.id
        <4>1. active.id \in Nat /\ completion.job.id \in Nat /\ ahead \subseteq Nat
          <5>1. active.id \in Nat /\ completion.job.id \in Nat
            BY DEF MailboxTypes, Completions, Jobs, NoJob, NoCompletion
          <5>2. ahead \subseteq Nat
            BY DEF AudioInv, IInv, TypeOK, WorkerTypes
          <5>. QED
            BY <5>1, <5>2
        <4>. QED
          BY <1>1, <2>2, <4>1 DEF Ordered, NoCompletion, NoJob
      <3>. QED
        BY <1>1, <2>2, <3>1, <3>2 DEF Ordered
    <2>6. Cleared'
      <3>1. job.id \notin ahead
        <4>1. ahead \subseteq Nat
          BY DEF AudioInv, IInv, TypeOK, WorkerTypes
        <4>. QED
          BY <2>2, <4>1 DEF Ordered
      <3>. QED
        BY <1>1, <2>4, <3>1 DEF Cleared
    <2>. QED
      BY <2>5, <2>6
  <1>. QED
    BY <1>3, <1>4, ApplicationAdmits

\* The worker passes its second idle check only with an empty mailbox.
LEMMA OrderedWorker ==
    ASSUME AudioInv, WorkerStep
    PROVE  Ordered' /\ Cleared'
  <1>. TypeOK /\ MailboxTypes /\ ApplicationTypes /\ Ordered /\ Cleared
    BY DEF AudioInv, IInv, TypeOK
  <1>0. Wake \/ RunOnce
    BY DEF WorkerStep
  <1>1. UNCHANGED <<lastAdmitted, generation>>
    BY <1>0 DEF WorkerStep, appVars, RunOnce, Wake, Start, Take, Check, Lease,
      Format, Write, Finish, Complete, RetireWorker, IdleBefore, Pop, IdleAfter,
      AudioLease, AudioSend, mailboxVars
  <1>2. CASE Take
    <2>1. UNCHANGED <<completion, ahead>> /\ pc' \notin {"audio", "audioSend"}
      BY <1>2 DEF Take, historyVars
    <2>2. \/ UNCHANGED <<queue, active>>
          \/ /\ CompactQueue # <<>>
             /\ active' = Head(CompactQueue) /\ queue' = Tail(CompactQueue)
      BY <1>2 DEF Take, TryTake, CanTake
    <2>3. CASE UNCHANGED <<queue, active>>
      BY <1>1, <2>1, <2>3 DEF Ordered, Cleared
    <2>4. CASE /\ CompactQueue # <<>>
               /\ active' = Head(CompactQueue) /\ queue' = Tail(CompactQueue)
      <3>1. \A i \in DOMAIN CompactQueue :
              CompactQueue[i].gen <= generation /\ CompactQueue[i].id <= lastAdmitted
        BY Compaction DEF MailboxTypes, Ordered
      <3>2. CompactQueue \in Seq(Jobs)
        BY CompactQueueType DEF MailboxTypes
      <3>3. /\ active' = CompactQueue[1] /\ 1 \in DOMAIN CompactQueue
            /\ \A j \in DOMAIN queue' : j + 1 \in DOMAIN CompactQueue
                                          /\ queue'[j] = CompactQueue[j + 1]
        BY <2>4, <3>2
      <3>. QED
        BY <1>1, <2>1, <3>1, <3>3 DEF Ordered, Cleared
    <2>. QED
      BY <2>2, <2>3, <2>4
  <1>3. CASE Complete
    <2>1. UNCHANGED <<queue, ahead>> /\ pc' \notin {"audio", "audioSend"}
      BY <1>3 DEF Complete, Return, historyVars
    <2>2. \/ UNCHANGED <<active, completion>>
          \/ completion'.job = active /\ active' = NoJob
      <3>1. CASE TryComplete(workerJob, workerResult)
        BY <3>1 DEF TryComplete, CanComplete
      <3>. QED
        BY <1>3, <3>1 DEF Complete
    <2>3. 0 <= lastAdmitted
      BY DEF ApplicationTypes
    <2>. QED
      BY <1>1, <2>1, <2>2, <2>3 DEF Ordered, Cleared, NoJob
  <1>4. CASE Pop
    <2>1. UNCHANGED <<queue, active, completion>> /\ pc' \notin {"audio", "audioSend"}
          /\ ahead' \in {ahead, PendingIds}
      BY <1>4 DEF Pop, Return, mailboxVars
    <2>. QED
      BY <1>1, <2>1, PendingAdmitted DEF Ordered, Cleared
  <1>5. CASE ~(Take \/ Complete \/ Pop)
    <2>1. UNCHANGED <<queue, active, completion, ahead>>
      BY <1>0, <1>5 DEF RunOnce, Wake, Start, Check, Lease, Format, Write, Finish,
        RetireWorker, IdleBefore, IdleAfter, AudioLease, AudioSend, mailboxVars,
        historyVars
    <2>2. pc' \in {"audio", "audioSend"} => pc \in {"audio", "audioSend"} \/ TryIdle
      BY <1>0, <1>5 DEF RunOnce, Wake, Start, Check, Lease, Format, Write, Finish,
        RetireWorker, IdleBefore, IdleAfter, AudioLease, AudioSend, Return
    <2>3. TryIdle => /\ active = NoJob /\ completion = NoCompletion
                     /\ \A j \in DOMAIN queue : j \in {1, 2} => ~IsCurrent(queue[j].gen)
      BY Compaction DEF TryIdle, MailboxTypes
    <2>4. Ordered'
      BY <1>1, <2>1 DEF Ordered
    <2>5. Cleared'
      BY <1>1, <2>1, <2>2, <2>3 DEF Cleared, IsCurrent
    <2>. QED
      BY <2>4, <2>5
  <1>. QED
    BY <1>2, <1>3, <1>4, <1>5

\* The strengthened invariant is inductive too.
LEMMA AudioInvStep == AudioInv /\ [Next]_vars => AudioInv'
  <1>. SUFFICES ASSUME AudioInv, [Next]_vars PROVE AudioInv'
    OBVIOUS
  <1>1. IInv'
    BY InvariantStep DEF AudioInv
  <1>2. CASE ApplicationStep
    BY <1>1, <1>2, OrderedApplication DEF AudioInv
  <1>3. CASE WorkerStep
    BY <1>1, <1>3, OrderedWorker DEF AudioInv
  <1>4. CASE Network \/ TransportStep \/ Capture \/ Expire \/ UNCHANGED vars
    <2>1. UNCHANGED <<mailboxVars, lastAdmitted, pc, ahead>>
      BY <1>4 DEF Network, OpenBegins, OpenPublishes, OpenFails,
        RunChatProtocolCleanup, NetFrame, TransportStep, Capture, Expire, vars,
        workerVars, historyVars, appVars
    <2>. QED
      BY <1>1, <2>1 DEF AudioInv, Ordered, Cleared, mailboxVars, IsCurrent
  <1>. QED
    BY <1>2, <1>3, <1>4 DEF Next

\* A packet is sent only when nothing that was pending at its capture still is.
THEOREM AudioStaysBehind == Spec => []AudioNeverOvertakes
  <1>1. Init => AudioInv
    BY InitIInv DEF Init, MailboxInit, WorkerInit, AudioInv, Ordered, Cleared,
      NoJob, NoCompletion
  <1>2. AudioInv => AudioNeverOvertakes
    <2>. SUFFICES ASSUME AudioInv, pc = "audioSend" PROVE ahead \cap PendingIds = {}
      BY DEF AudioNeverOvertakes
    <2>1. \A i \in DOMAIN CompactQueue : CompactQueue[i].id \notin ahead
      BY Compaction DEF AudioInv, Cleared, IInv, TypeOK, MailboxTypes
    <2>2. active.id = 0 /\ completion.job.id = 0
      BY DEF AudioInv, Cleared, NoJob, NoCompletion
    <2>. QED
      BY <2>1, <2>2 DEF PendingIds, QueuedIds
  <1>. QED
    BY <1>1, <1>2, AudioInvStep, PTL DEF Spec
=============================================================================
