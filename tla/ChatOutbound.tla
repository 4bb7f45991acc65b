---------------------------- MODULE ChatOutbound ----------------------------
(* The application's half of the outbound conversation and the composition:   *)
(* the event loop that activates and retires the worker, the connection texts *)
(* and control intents it submits, the turn (playout) whose obsolete work it  *)
(* waits for, and the network worker that opens and closes the protocol.      *)
(*                                                                            *)
(* apc follows PollChatOutboundEvents through its handlers, in their order;   *)
(* at "idle" the event loop may instead run any other handler it schedules.   *)
EXTENDS ChatOutboundWorker, SequenceFilter

CONSTANTS
    MaxPackets,      \* captured audio packets
    MaxOpens,        \* channel opens the application ever starts
    MaxTurns,        \* server STARTs, user listens and interruptions
    MaxExpiries,     \* deadlines that pass
    RequestLimit,    \* UINT64_MAX in SubmitChatOutbound
    TextSlots,       \* ChatConnectionMessages::records_
    ControlSlots     \* ChatControlIntents::slots_
ASSUME ApplicationAssumption ==
    /\ MaxPackets \in Nat /\ MaxOpens \in Nat /\ MaxTurns \in Nat
    /\ MaxExpiries \in Nat /\ RequestLimit \in Nat
    /\ TextSlots \in Nat \ {0} /\ ControlSlots \in Nat \ {0}

VARIABLES
    apc,            \* place in PollChatOutboundEvents
    inTurn,         \* this poll went through PollChatPlayout
    outGeneration, outEpoch, outFault,   \* chat_outbound_generation_, ...
    reservation,    \* chat_outbound_reservation_, named by its generation
    requestId, lastAdmitted,
    collected,      \* the completion between Collect and its delivery
    texts, controls,           \* chat_connection_messages_, chat_control_intents_
    textCount, controlCount,
    told,           \* history: how each text was reported when popped
    playout,        \* none, live, stale (another response generation), recovery
    responseEpoch,  \* chat_playout_response_.source
    obsolete,       \* chat_start_obsolete_reservation_
    openWork,       \* the open worker's reservation: none, queued, connecting, done
    openCount, turnCount, packets

appVars    == <<outEpoch, outFault, reservation, requestId, lastAdmitted>>
intentVars == <<texts, controls, textCount, controlCount, told>>
turnVars   == <<responseEpoch, obsolete, turnCount>>
retireVars == <<generation, outGeneration, notified>>
vars == <<mailboxVars, gateVars, identityVars, cleanup, workerVars, notified,
          contentions, captured, expired, historyVars, apc, inTurn, outGeneration, appVars,
          collected, intentVars, playout, turnVars, openWork, openCount, packets>>

\* What no handler of the application ever writes.
Frame == UNCHANGED <<active, gateVars, pc, tick, workerJob, workerResult, packet,
                     captured, expired, historyVars, packets>>

Init ==
    /\ MailboxInit /\ ConnectionInit /\ WorkerInit
    /\ apc = "idle" /\ inTurn = FALSE
    /\ outGeneration = 0 /\ outEpoch = 0 /\ outFault = FALSE
    /\ reservation = 0 /\ requestId = 0 /\ lastAdmitted = 0
    /\ collected = NoCompletion
    /\ texts = <<>> /\ controls = <<>> /\ textCount = 0 /\ controlCount = 0
    /\ told = [r \in Texts |-> "none"]
    /\ playout = "none" /\ responseEpoch = 0 /\ obsolete = 0
    /\ openWork = "none" /\ openCount = 0 /\ turnCount = 0
    /\ packets = 0

-----------------------------------------------------------------------------
(* Retirement, activation and the cleanup handoff *)

Busy == reservation # 0 \/ openWork # "none"

Retiring == reservation # 0 /\ outGeneration # 0
ForgottenOnly ==                       \* variant: revokes nothing queued
    /\ outGeneration' = IF Retiring THEN 0 ELSE outGeneration
    /\ UNCHANGED generation
Revoke ==
    /\ generation' = IF Retiring THEN Advanced(generation) ELSE generation
    /\ outGeneration' = IF Retiring THEN 0 ELSE outGeneration
RetireSilently == Revoke /\ UNCHANGED notified  \* variant: no wake-up
Retire == Revoke /\ notified' = (notified \/ Retiring)

\* RecoverChatPlayout and RecoverChatStart fail this conversation closed.
Recover ==
    IF playout = "recovery"
    THEN UNCHANGED <<retireVars, playout>>
    ELSE Retire /\ playout' = "recovery"

\* ActivateChatOutbound(e): Sent, Failed (the generation is exhausted) or Busy.
CanActivate == ~Busy /\ ~Pending
ActivationSucceeds == CanActivate /\ Advanced(generation) # Exhausted
Activated(e) ==
    LET g == Advanced(generation) IN
    /\ ActivationSucceeds
    /\ workerState = 0
    /\ generation' = g /\ outGeneration' = g /\ reservation' = g
    /\ outEpoch' = e /\ outFault' = FALSE /\ notified' = TRUE
    /\ activation' = [epoch |-> e, gen |-> g]
    /\ audioFailure' = FALSE /\ workerState' = 1
ActivationFailed ==
    /\ ~ActivationSucceeds
    /\ generation' = IF CanActivate THEN Advanced(generation) ELSE generation
    /\ outFault' = (outFault \/ CanActivate)
    /\ UNCHANGED <<outGeneration, reservation, outEpoch, notified, activation,
                   audioFailure, workerState>>
NoActivation == UNCHANGED <<reservation, outEpoch, outFault, activation,
                            audioFailure, workerState>>

\* PollChatProtocolCleanup: the protocol object goes to the network worker only
\* when every reservation is back, here when busy is FALSE.
CleanupAtOnce(state, busy) ==          \* variant: does not wait
    CASE state = "wanted" -> "handed" [] state = "done" -> "none" [] OTHER -> state
CleanupAfterPoll(state, busy) ==
    CASE state = "wanted" /\ ~busy -> "handed"
      [] state = "done"            -> "none"
      [] OTHER                     -> state
PollCleanup(busy) == cleanup' = CleanupAfterPoll(cleanup, busy)

\* protocol_work_lifetime_.Request(kClose) followed by PollChatProtocolCleanup.
RequestClose ==
    /\ cleanup' = CleanupAfterPoll(IF cleanup = "none" THEN "wanted" ELSE cleanup,
                                   Busy)
    /\ current' = 0

-----------------------------------------------------------------------------
(* SubmitChatOutbound *)

\* The job an intent is submitted as: a fresh identity, or the one a control
\* kept from an attempt the mailbox refused.
Fresh(intent) == intent.id = 0
Identified(intent) ==
    IF Fresh(intent)
    THEN [intent EXCEPT !.id = requestId + 1, !.gen = outGeneration]
    ELSE intent
JobOf(intent, kind) ==
    [id |-> intent.id, gen |-> intent.gen, epoch |-> outEpoch, kind |-> kind,
     ref |-> intent.ref, source |-> intent.owner]

Admissible == reservation # 0 /\ outGeneration # 0 /\ ~Pending /\ ~outFault
Exhausts(intent) == Fresh(intent) /\ requestId >= RequestLimit

\* What SubmitChatOutbound returns; contended is a failed try_lock.
SubmitResult(intent, kind, contended) ==
    LET i == Identified(intent) IN
    CASE ~Admissible -> IF outFault THEN "Failed" ELSE "Stale"
      [] Admissible /\ Exhausts(intent) -> "Failed"
      [] OTHER -> IF i.gen # outGeneration \/ i.id <= lastAdmitted THEN "Stale"
                  ELSE IF i.ref \in expired THEN "Failed"
                  ELSE IF contended \/ ~CanSubmit(JobOf(i, kind)) THEN "Busy"
                  ELSE "Sent"

\* What it leaves behind, the retirement of an exhausted id space aside.
Submit(intent, kind, res) ==
    LET i == Identified(intent)
        tried == Admissible /\ ~Exhausts(intent)
    IN /\ requestId' = IF tried /\ Fresh(intent) THEN requestId + 1 ELSE requestId
       /\ outFault' = (outFault \/ (Admissible /\ Exhausts(intent)))
       /\ lastAdmitted' = IF res = "Sent" THEN i.id ELSE lastAdmitted
       /\ IF res = "Sent" THEN TrySubmit(JobOf(i, kind)) ELSE UNCHANGED queue
\* The intent after it: an attempt keeps the identity it was given.
Attempted(intent, res) ==
    LET i == IF Admissible /\ ~Exhausts(intent) THEN Identified(intent) ELSE intent
    IN [i EXCEPT !.admitted = (res = "Sent"),
                 !.reservation = IF res = "Sent" THEN reservation ELSE @,
                 !.outcome = IF res \in {"Stale", "Failed"} THEN "Failed" ELSE @]

-----------------------------------------------------------------------------
(* PollChatOutboundEvents: observing the connection *)

Intent(ref) == [ref |-> ref, owner |-> current, id |-> 0, gen |-> 0,
                admitted |-> FALSE, reservation |-> 0, outcome |-> "Pending"]
Superseded(seq) == [i \in DOMAIN seq |->
    IF seq[i].outcome = "Pending" THEN [seq[i] EXCEPT !.outcome = "Superseded"]
    ELSE seq[i]]

\* PollChatSourceOpen adopts a connection the open worker published, unless the
\* socket has been lost meanwhile; one that already failed is selected but
\* never enabled.
PollChatSourceOpen ==
    /\ apc = "idle" /\ apc' = "signals"
    /\ IF opening = 0 \/ Pending
       THEN UNCHANGED <<opening, adopted, current>>
       ELSE /\ opening' = 0
            /\ IF opening = HealthyEpoch
               THEN /\ adopted' = "yes"
                    /\ current' = IF fault = "none" THEN opening ELSE 0
               ELSE UNCHANGED <<adopted, current>>
    /\ UNCHANGED <<linked, fault, cleanup, inTurn, retireVars, queue, completion,
                   appVars, collected, intentVars, playout, turnVars, openWork,
                   openCount, workerState, activation, audioFailure,
                   completionWaiting>>
    /\ Uncontended /\ Frame

\* PollChatProtocolSignals with HandleChatSourceFailure, which runs once per
\* failed source and leaves the close to the open worker while it is running.
PollChatProtocolSignals ==
    /\ apc = "signals" /\ apc' = "start"
    /\ IF fault = "new" /\ adopted # "no" /\ ~Pending
       THEN /\ fault' = "handled" /\ Retire
            /\ playout' = IF playout = "live" THEN "stale" ELSE playout
            /\ IF openWork = "none" THEN RequestClose ELSE UNCHANGED <<cleanup, current>>
       ELSE UNCHANGED <<fault, retireVars, playout, cleanup, current>>
    /\ UNCHANGED <<linked, adopted, opening, inTurn, queue, completion, appVars,
                   collected, intentVars, turnVars, openWork, openCount,
                   workerState, activation, audioFailure, completionWaiting>>
    /\ Uncontended /\ Frame

\* PollChatStart: a server START for the current connection supersedes the
\* queued controls, retires the turn's outbound work and waits for it as the
\* obsolete reservation of the new turn.
PollChatStart ==
    /\ apc = "start" /\ apc' = "outbound"
    /\ \/ UNCHANGED <<controls, playout, turnVars, retireVars>>
       \/ /\ current # 0 /\ turnCount < MaxTurns
          /\ turnCount' = turnCount + 1
          /\ controls' = Superseded(controls)
          /\ IF outFault
             THEN Recover /\ UNCHANGED <<obsolete, responseEpoch>>
             ELSE /\ obsolete' = IF outGeneration # 0 THEN reservation ELSE obsolete
                  /\ Retire
                  /\ playout' = "live" /\ responseEpoch' = current
    /\ UNCHANGED <<identityVars, cleanup, inTurn, queue, completion, appVars,
                   collected, texts, textCount, controlCount, told, openWork,
                   openCount, workerState, activation, audioFailure,
                   completionWaiting>>
    /\ Uncontended /\ Frame

-----------------------------------------------------------------------------
(* PollChatOutbound, called directly or from PollChatPlayout *)

TurnLost == current # responseEpoch

\* An interruption keeps the turn and waits for its worker.
HandleChatPlayoutInterrupt ==
    /\ ~TurnLost /\ current = HealthyEpoch /\ ~outFault /\ ~Pending
    /\ turnCount < MaxTurns /\ turnCount' = turnCount + 1
    /\ obsolete' = IF outGeneration # 0 THEN reservation ELSE obsolete
    /\ Retire /\ UNCHANGED playout

\* Up to the mailbox access of Collect. A turn whose response generation or
\* connection is gone, or whose server STOP fails or interrupts it, ends here
\* without polling.
PollChatOutbound ==
    /\ apc = "outbound"
    /\ \/ /\ playout = "stale"
          /\ playout' = "none" /\ apc' = "controls" /\ Uncontended
          /\ UNCHANGED <<retireVars, outFault, completion, collected, inTurn,
                         obsolete, turnCount>>
       \/ /\ playout = "live" /\ apc' = "controls" /\ Uncontended
          /\ \/ HandleChatPlayoutInterrupt
             \/ Recover /\ UNCHANGED <<obsolete, turnCount>>
          /\ UNCHANGED <<outFault, completion, collected, inTurn>>
       \/ /\ playout # "stale" /\ ~(playout = "live" /\ (TurnLost \/ outFault))
          /\ inTurn' = (playout = "live")
          /\ outFault' = (outFault \/ audioFailure)
          /\ IF audioFailure \/ Pending THEN Retire ELSE UNCHANGED retireVars
          /\ LET collects == \/ playout = "live" \/ outGeneration' = 0
                             \/ controls # <<>> \/ texts # <<>>
             IN
             \/ /\ collects /\ CanCollect /\ Uncontended
                /\ collected' = Judged(completion, generation')
                /\ completion' = NoCompletion
                /\ apc' = "deliver"
             \/ /\ IF collects /\ CanCollect
                   THEN Contended ELSE Uncontended
                /\ apc' = "retire" /\ UNCHANGED <<completion, collected>>
          /\ UNCHANGED <<playout, obsolete, turnCount>>
    /\ UNCHANGED <<queue, outEpoch, reservation, requestId, lastAdmitted,
                   intentVars, responseEpoch, openWork, openCount, identityVars,
                   cleanup, workerState, activation, audioFailure,
                   completionWaiting>>
    /\ Frame

\* IsChatOutboundCompletionCurrent.
CompletionCurrent(c) ==
    /\ ~c.stale /\ outGeneration # 0 /\ IsCurrent(c.job.gen)
    /\ HealthyEpoch = c.job.epoch /\ c.job.epoch = outEpoch /\ ~Pending

\* ChatConnectionMessages::Deliver: an attempt that may have reached the socket
\* settles its text, one that provably did not frees it for another attempt,
\* and one of a retired generation stays submitted until that retirement.
IsTextOf(c, t) == t.admitted /\ t.id = c.job.id
DeliveredIfFresh(c, t) ==              \* variant: trusts a stale Sent no more
    IF ~IsTextOf(c, t) \/ c.stale THEN t
    ELSE IF c.result \in {"Sent", "Failed"}
         THEN [t EXCEPT !.admitted = FALSE, !.outcome = c.result]
         ELSE [t EXCEPT !.admitted = FALSE, !.id = 0]
DeliveredText(c, t) ==
    IF ~IsTextOf(c, t) THEN t
    ELSE IF c.result \in {"Sent", "Failed"}
         THEN [t EXCEPT !.admitted = FALSE,
                        !.outcome = IF @ = "Pending" THEN c.result ELSE @]
         ELSE IF c.stale THEN t ELSE [t EXCEPT !.admitted = FALSE, !.id = 0]

IsControlOf(c) ==
    controls # <<>> /\ Head(controls).admitted /\ Head(controls).id = c.job.id
IsText(c) == \E i \in DOMAIN texts : IsTextOf(c, texts[i])

\* Collect ends the worker's wait for it, and the loop wakes the worker.
CollectedSilently ==                   \* variant: no wake-up
    completionWaiting' = FALSE /\ UNCHANGED notified
Collected == completionWaiting' = FALSE /\ notified' = TRUE

\* The rest of Collect, then Deliver and DeliverChatControl; a completion nobody
\* claims fails the turn that collected it.
Deliver ==
    /\ apc = "deliver" /\ apc' = "retire"
    /\ Collected
    /\ collected' = NoCompletion
    /\ texts' = [i \in DOMAIN texts |-> DeliveredText(collected, texts[i])]
    /\ LET mine == ~IsText(collected) /\ IsControlOf(collected)
           open == mine /\ Head(controls).outcome = "Pending"
           fails == ~CompletionCurrent(collected) \/ collected.result # "Sent"
           orphan == ~IsText(collected) /\ ~mine /\ inTurn
       IN /\ controls' = IF open THEN Tail(controls) ELSE controls
          /\ IF playout # "recovery" /\ ((open /\ fails) \/ orphan)
             THEN Revoke /\ playout' = "recovery"
             ELSE UNCHANGED <<generation, outGeneration, playout>>
    /\ UNCHANGED <<queue, completion, inTurn, appVars, textCount, controlCount,
                   told, turnVars, openWork, openCount, identityVars, cleanup,
                   workerState, activation, audioFailure>>
    /\ Uncontended /\ Frame

\* TakeRetired and what follows from it: the worker's final acknowledgement
\* frees the texts of that reservation and may release the protocol.
StillBound(t) == t                     \* variant: the retirement is not observed
Unbound(t) == IF t.admitted /\ t.reservation = reservation
              THEN [t EXCEPT !.admitted = FALSE, !.id = 0, !.reservation = 0] ELSE t
TakeRetired ==
    /\ apc = "retire" /\ apc' = "turn"
    /\ LET retired == reservation # 0 /\ workerState = 2 IN
       \/ /\ retired /\ TryIdle /\ Uncontended
          /\ workerState' = 0
          /\ texts' = [i \in DOMAIN texts |-> Unbound(texts[i])]
          /\ reservation' = 0
          /\ PollCleanup(openWork # "none")
       \/ /\ IF retired /\ TryIdle THEN Contended ELSE Uncontended
          /\ UNCHANGED <<workerState, texts, reservation, cleanup>>
    /\ UNCHANGED <<retireVars, queue, completion, outEpoch, outFault, requestId,
                   lastAdmitted, collected, controls, textCount, controlCount,
                   told, playout, turnVars, inTurn, openWork, openCount,
                   identityVars, activation, audioFailure, completionWaiting>>
    /\ Frame

\* The end of PollChatPlayout: once the obsolete reservation has retired, the
\* turn activates the worker for its own connection.
PollChatPlayoutTail ==
    /\ apc = "turn" /\ apc' = "controls" /\ inTurn' = FALSE
    /\ IF ~inTurn \/ (~outFault /\ obsolete \in {0, reservation})
       THEN NoActivation /\ UNCHANGED <<retireVars, playout, obsolete>>
       ELSE IF outFault
       THEN Recover /\ NoActivation /\ UNCHANGED obsolete
       ELSE /\ obsolete' = 0
            /\ \/ Activated(responseEpoch) /\ UNCHANGED playout
               \/ ~CanActivate /\ Recover /\ NoActivation
               \/ CanActivate /\ ActivationFailed /\ playout' = "recovery"
    /\ UNCHANGED <<responseEpoch, turnCount, queue, completion, requestId,
                   lastAdmitted, collected, intentVars, openWork, openCount, identityVars,
                   cleanup, completionWaiting>>
    /\ Uncontended /\ Frame

-----------------------------------------------------------------------------
(* PollChatControls *)

\* A control whose connection is no longer the current one is superseded.
OffConnection(control) == control.owner # current

\* A control that is over leaves when no worker of its reservation can still
\* report it.
LeavesAtOnce(control) == TRUE          \* variant: does not wait for the worker
NeverAfterSubmission(control) == ~control.admitted  \* variant: misses the retirement
MayLeave(control) == ~control.admitted \/ control.reservation # reservation

\* Only the front control is worked on.
PollChatControls ==
    /\ apc = "controls" /\ apc' = "messages"
    /\ LET front == Head(controls)
           over == front.outcome \in {"Superseded", "Failed"}
           Nothing == UNCHANGED <<controls, retireVars, playout>>
           NoSubmission == UNCHANGED <<queue, requestId, lastAdmitted, outFault, contentions>>
       IN IF controls = <<>> THEN Nothing /\ NoSubmission
          ELSE IF over
          THEN /\ controls' = IF MayLeave(front) THEN Tail(controls) ELSE controls
               /\ NoSubmission /\ UNCHANGED <<retireVars, playout>>
          ELSE IF OffConnection(front)
          THEN /\ controls' = Superseded(controls) /\ Retire
               /\ NoSubmission /\ UNCHANGED playout
          ELSE IF front.ref \in expired
          THEN /\ controls' = [controls EXCEPT ![1].outcome = "Failed"]
               /\ Recover /\ NoSubmission
          ELSE IF front.admitted THEN Nothing /\ NoSubmission
          ELSE \E contended \in BOOLEAN :
                 LET res == SubmitResult(front, "control", contended) IN
                 /\ IF contended THEN Contended ELSE Uncontended
                 /\ Submit(front, "control", res)
                 /\ controls' = [controls EXCEPT ![1] = Attempted(@, res)]
                 /\ CASE res = "Sent" -> /\ notified' = TRUE
                                        /\ UNCHANGED <<generation, outGeneration, playout>>
                      [] res = "Busy" -> UNCHANGED <<retireVars, playout>>
                      [] OTHER -> IF Admissible /\ Exhausts(front)
                                  THEN Retire /\ playout' = "recovery" ELSE Recover
    /\ UNCHANGED <<completion, inTurn, outEpoch, reservation, collected, texts,
                   textCount, controlCount, told, turnVars, openWork, openCount,
                   identityVars, cleanup, workerState, activation, audioFailure,
                   completionWaiting>>
    /\ Frame

-----------------------------------------------------------------------------
(* PollChatConnectionMessages *)

\* A text is cancelled when its connection is no longer the current one, fails
\* at its deadline, and either way retires the worker that still carries it.
Settled(t) ==
    IF t.owner # current THEN [t EXCEPT !.outcome = "Cancelled"]
    ELSE IF t.outcome = "Pending" /\ t.ref \in expired
         THEN [t EXCEPT !.outcome = "Failed"] ELSE t

\* A settled text leaves once no attempt is out.
LeavesUnsettled(t) == TRUE             \* variant: does not wait for the attempt
Leaves(t) == ~t.admitted

\* A failed ping, or a failed
\* text that carried an authorization, condemns the connection.
PopText(t) ==
    /\ texts' = Tail(texts)
    /\ told' = [told EXCEPT ![t.ref] = t.outcome]
    /\ \/ UNCHANGED <<fault, current>>
       \/ t.outcome = "Failed" /\ fault' = "new" /\ current' = 0

PollChatConnectionMessages ==
    /\ apc = "messages"
    /\ LET front == Settled(Head(texts))
           Resolve(seq) == texts' = seq /\ UNCHANGED <<told, fault, current>>
           blocked == front.admitted \/ controls # <<>> \/ obsolete # 0
       IN IF texts = <<>>
          THEN /\ Resolve(texts) /\ NoActivation /\ apc' = "cleanup"
               /\ \/ UNCHANGED retireVars
                  \/ controls = <<>> /\ playout = "none" /\ Retire     \* passive
          ELSE IF front.outcome # "Pending"
          THEN /\ NoActivation /\ apc' = "cleanup"
               /\ IF Leaves(front) THEN PopText(front)
                  ELSE Resolve([texts EXCEPT ![1] = front])
               /\ IF /\ front.admitted
                     /\ front # Head(texts) \/ front.outcome = "Cancelled"
                  THEN Retire ELSE UNCHANGED retireVars
          ELSE /\ Resolve(texts)
               /\ IF blocked \/ (outGeneration = 0 /\ reservation # 0)
                  THEN /\ NoActivation /\ UNCHANGED retireVars
                       /\ apc' = "cleanup"
                  ELSE IF outGeneration # 0
                  THEN NoActivation /\ UNCHANGED retireVars /\ apc' = "submit"
                  ELSE \/ Activated(front.owner) /\ apc' = "submit"
                       \/ ActivationFailed /\ apc' = "cleanup"
    /\ UNCHANGED <<linked, adopted, opening, cleanup, inTurn, queue, completion,
                   requestId, lastAdmitted, collected, controls, textCount,
                   controlCount, playout, turnVars, openWork, openCount,
                   completionWaiting>>
    /\ Uncontended /\ Frame

\* The submission at its end. A refused attempt gives its identity up, so that a
\* newer control may be admitted before the next one.
SubmitText ==
    /\ apc = "submit" /\ apc' = "cleanup"
    /\ \E contended \in BOOLEAN :
         LET front == Head(texts)
             res == SubmitResult(front, "text", contended)
         IN /\ IF contended THEN Contended ELSE Uncontended
            /\ Submit(front, "text", res)
            /\ texts' = [texts EXCEPT ![1] =
                    IF res = "Busy" THEN @ ELSE Attempted(@, res)]
            /\ IF Admissible /\ Exhausts(front) THEN Retire
               ELSE /\ notified' = (notified \/ res = "Sent")
                    /\ UNCHANGED <<generation, outGeneration>>
    /\ UNCHANGED <<identityVars, cleanup, inTurn, completion, outEpoch, reservation,
                   collected, controls, textCount, controlCount, told, playout,
                   turnVars, openWork, openCount, workerState, activation,
                   audioFailure, completionWaiting>>
    /\ Frame

-----------------------------------------------------------------------------
(* PollChatProtocolCleanup *)

\* PollChatProtocolCleanup, then PollChatRecovery, which closes a channel that
\* is open but was never adopted.
PollChatProtocolCleanup ==
    /\ apc = "cleanup" /\ apc' = "idle"
    /\ IF cleanup = "wanted" THEN Retire ELSE UNCHANGED retireVars
    /\ \/ PollCleanup(Busy) /\ UNCHANGED current
       \/ /\ ~Pending /\ ~Busy /\ opened /\ adopted # "yes"
          /\ RequestClose
    /\ UNCHANGED <<linked, adopted, opening, fault, inTurn, queue, completion,
                   appVars, collected, intentVars, playout, turnVars, openWork,
                   openCount, workerState, activation, audioFailure,
                   completionWaiting>>
    /\ Uncontended /\ Frame

Poll == \/ PollChatSourceOpen \/ PollChatProtocolSignals \/ PollChatStart
        \/ PollChatOutbound \/ Deliver \/ TakeRetired \/ PollChatPlayoutTail
        \/ PollChatControls \/ PollChatConnectionMessages \/ SubmitText
        \/ PollChatProtocolCleanup

-----------------------------------------------------------------------------
(* Handlers the event loop runs between polls *)

\* RequestChatConnectionText; a full store condemns the connection.
RequestText ==
    /\ apc = "idle" /\ textCount < MaxTexts /\ current # 0
    /\ IF Len(texts) < TextSlots
       THEN /\ texts' = Append(texts, Intent(textCount + 1))
            /\ textCount' = textCount + 1
            /\ UNCHANGED <<fault, current>>
       ELSE fault' = "new" /\ current' = 0 /\ UNCHANGED <<texts, textCount>>
    /\ UNCHANGED <<linked, adopted, opening, cleanup, apc, inTurn, retireVars,
                   queue, completion, appVars, collected, controls, controlCount,
                   told, playout, turnVars, openWork, openCount, workerState,
                   activation, audioFailure, completionWaiting>>
    /\ Uncontended /\ Frame

\* RequestChatControl; a full queue fails the turn.
RequestControl ==
    /\ apc = "idle" /\ controlCount < MaxControls /\ current # 0
    /\ controlCount' = controlCount + 1
    /\ IF Len(controls) < ControlSlots
       THEN /\ controls' = Append(controls, Intent(MaxTexts + controlCount + 1))
            /\ UNCHANGED <<retireVars, playout>>
       ELSE Recover /\ UNCHANGED controls
    /\ UNCHANGED <<identityVars, cleanup, apc, inTurn, queue, completion, appVars,
                   collected, texts, textCount, told, turnVars, openWork,
                   openCount, workerState, activation, audioFailure,
                   completionWaiting>>
    /\ Uncontended /\ Frame

\* BeginChatListen: the worker is activated for the current connection, or the
\* reservation it is still returning becomes the turn's obsolete one.
BeginChatListen ==
    /\ apc = "idle" /\ current # 0 /\ current = HealthyEpoch
    /\ turnCount < MaxTurns /\ turnCount' = turnCount + 1
    /\ LET establish == playout' = "live" /\ responseEpoch' = current
           given == UNCHANGED responseEpoch
       IN \/ /\ outGeneration # 0
             /\ establish /\ NoActivation /\ UNCHANGED <<retireVars, obsolete>>
          \/ /\ outGeneration = 0 /\ reservation # 0
             /\ obsolete' = reservation
             /\ establish /\ NoActivation /\ UNCHANGED retireVars
          \/ /\ outGeneration = 0 /\ reservation = 0
             /\ Activated(current) /\ establish /\ UNCHANGED obsolete
          \/ /\ outGeneration = 0 /\ reservation = 0
             /\ ActivationFailed
             /\ playout' = "recovery" /\ given /\ UNCHANGED obsolete
    /\ UNCHANGED <<identityVars, cleanup, apc, inTurn, queue, completion, requestId,
                   lastAdmitted, collected, intentVars, openWork, openCount,
                   completionWaiting>>
    /\ Uncontended /\ Frame

\* HandleChatStopListening and the other handlers that end a turn early.
EndTurn ==
    /\ apc = "idle" /\ playout = "live" /\ Recover
    /\ UNCHANGED <<identityVars, cleanup, apc, inTurn, queue, completion, appVars,
                   collected, intentVars, turnVars, openWork, openCount,
                   workerState, activation, audioFailure, completionWaiting>>
    /\ Uncontended /\ Frame

\* ++connect_generation_ revokes every identity published before it.
Unlink == /\ current' = 0 /\ opening' = 0 /\ fault' = "none" /\ linked' = FALSE
          /\ adopted' = IF adopted = "yes" THEN "no" ELSE adopted

CloseAudioChannelByIntent ==
    /\ apc = "idle" /\ (opened \/ openWork # "none")
    /\ Retire /\ Unlink
    /\ cleanup' = CleanupAfterPoll(IF cleanup = "none" THEN "wanted" ELSE cleanup, Busy)
    /\ UNCHANGED <<apc, inTurn, queue, completion, appVars, collected, intentVars,
                   playout, turnVars, openWork, openCount, workerState, activation,
                   audioFailure, completionWaiting>>
    /\ Uncontended /\ Frame

\* The channel opens (reconnect, wake, recovery) share StartOpenChannelWorker:
\* it retires the worker and reserves nothing while anything else is reserved.
OpenChannel ==
    /\ apc = "idle" /\ openCount < MaxOpens /\ openWork = "none"
    /\ ~opened /\ cleanup \notin {"handed", "done"}
    /\ openCount' = openCount + 1
    /\ Unlink /\ Retire
    /\ openWork' = IF Pending \/ Busy THEN "none" ELSE "queued"
    /\ UNCHANGED <<cleanup, apc, inTurn, queue, completion, appVars, collected,
                   intentVars, playout, turnVars, workerState, activation,
                   audioFailure, completionWaiting>>
    /\ Uncontended /\ Frame

\* The open worker's scheduled epilogue returns its reservation.
OpenReturned ==
    /\ apc = "idle" /\ openWork = "done"
    /\ openWork' = "none" /\ PollCleanup(reservation # 0)
    /\ UNCHANGED <<identityVars, apc, inTurn, retireVars, queue, completion, appVars,
                   collected, intentVars, playout, turnVars, openCount, workerState,
                   activation, audioFailure, completionWaiting>>
    /\ Uncontended /\ Frame

Handler == \/ RequestText \/ RequestControl \/ BeginChatListen \/ EndTurn
           \/ CloseAudioChannelByIntent \/ OpenChannel

-----------------------------------------------------------------------------
(* The network worker: OpenChannelTask *)

NetFrame == UNCHANGED <<mailboxVars, leased, workerVars, contentions, notified, captured, expired,
                        historyVars, apc, inTurn, outGeneration, appVars, collected,
                        intentVars, playout, turnVars, openCount, packets, adopted>>

\* A request overtaken by a close is dropped; otherwise BeginConnectionMutation
\* starts a new epoch under the gate.
OpenBegins ==
    /\ openWork = "queued"
    /\ \/ /\ Pending \/ opened
          /\ openWork' = "done" /\ linked' = (linked \/ ~Pending)
          /\ UNCHANGED <<epoch, healthy>>
       \/ /\ ~Pending /\ ~opened /\ ~leased
          /\ openWork' = "connecting" /\ linked' = TRUE
          /\ epoch' = epoch + 1 /\ healthy' = TRUE
    /\ UNCHANGED <<socketEpoch, opened, opening, fault, current, cleanup>>
    /\ NetFrame

\* The publication lease installs the socket and announces the connection; the
\* announcement is dropped when the application no longer waits for it.
OpenPublishes ==
    /\ openWork = "connecting" /\ healthy /\ ~leased
    /\ openWork' = "done" /\ socketEpoch' = epoch /\ opened' = TRUE
    /\ opening' = IF linked /\ ~Pending THEN epoch ELSE opening
    /\ UNCHANGED <<epoch, healthy, linked, fault, current, cleanup>>
    /\ NetFrame
OpenFails ==
    /\ openWork = "connecting" /\ ~leased
    /\ openWork' = "done" /\ healthy' = FALSE /\ opened' = FALSE
    /\ PublishFault
    /\ UNCHANGED <<epoch, socketEpoch, linked, opening, cleanup>>
    /\ NetFrame

\* RunChatProtocolCleanup(kClose): a new epoch that never becomes healthy, and
\* no socket. The protocol object is the network worker's until it is done.
RunChatProtocolCleanup ==
    /\ cleanup = "handed" /\ ~leased
    /\ cleanup' = "done" /\ epoch' = epoch + 1 /\ healthy' = FALSE
    /\ socketEpoch' = 0 /\ opened' = FALSE
    /\ UNCHANGED <<linked, opening, fault, current, openWork>>
    /\ NetFrame

Network == OpenBegins \/ OpenPublishes \/ OpenFails \/ RunChatProtocolCleanup

-----------------------------------------------------------------------------
(* The rest of the device, and the composition *)

\* A packet reaches the send queue and its callback wakes the worker.
Capture ==
    /\ packets < MaxPackets
    /\ packets' = packets + 1 /\ captured' = captured + 1 /\ notified' = TRUE
    /\ UNCHANGED <<mailboxVars, gateVars, identityVars, cleanup, workerVars, contentions, expired,
                   historyVars, apc, inTurn, outGeneration, appVars, collected,
                   intentVars, playout, turnVars, openWork, openCount>>

\* The ten seconds of a text or control run out.
Expire ==
    Cardinality(expired) < MaxExpiries /\ \E s \in {texts, controls} : \E i \in DOMAIN s :
        /\ s[i].ref \notin expired
        /\ expired' = expired \cup {s[i].ref}
        /\ UNCHANGED <<mailboxVars, gateVars, identityVars, cleanup, workerVars, contentions,
                       notified, captured, historyVars, apc, inTurn, outGeneration,
                       appVars, collected, intentVars, playout, turnVars, openWork,
                       openCount, packets>>

ApplicationStep == Poll \/ Handler \/ OpenReturned
WorkerStep ==
    /\ Wake \/ RunOnce
    /\ UNCHANGED <<apc, inTurn, outGeneration, appVars, collected, intentVars,
                   playout, turnVars, openWork, openCount, packets>>
TransportStep ==
    /\ Transport
    /\ UNCHANGED <<mailboxVars, workerVars, contentions, notified, captured, expired, historyVars,
                   apc, inTurn, outGeneration, appVars, collected, intentVars,
                   playout, turnVars, openWork, openCount, packets>>

Next == ApplicationStep \/ WorkerStep \/ Network \/ TransportStep \/ Capture \/ Expire

Spec == Init /\ [][Next]_vars
\* Both tasks, the event loop's scheduled work and the network worker run
\* again and again; a scheduled closure is run although polls come between.
\* Nothing is assumed of the user, the server, the transport or the capture,
\* and a failed try_lock is repeated at most MaxContentions times.
Fairness ==
    /\ WF_vars(Poll) /\ WF_vars(WorkerStep) /\ WF_vars(Network)
    /\ SF_vars(OpenReturned)
FairSpec == Spec /\ Fairness

\* With the clock: a deadline that is set passes.
TimedSpec == FairSpec /\ WF_vars(Expire)

-----------------------------------------------------------------------------
(* Properties *)

Intents(refs, outcomes) ==
    [ref : refs, owner : Nat, id : Nat, gen : 0 .. Exhausted, admitted : BOOLEAN,
     reservation : 0 .. Exhausted, outcome : outcomes]
TextIntents == Intents(Texts, {"Pending", "Sent", "Failed", "Cancelled"})
ControlIntents == Intents(Controls, {"Pending", "Failed", "Superseded"})
Jobs == [id : Nat, gen : 0 .. Exhausted, epoch : Nat, kind : {"text", "control"},
         ref : Refs, source : Nat]
Completions == [job : Jobs, result : Results, stale : BOOLEAN] \cup {NoCompletion}

Writes == [ref : Refs, kind : {"text", "control"}, owner : Nat, socket : Nat]

FlagTypes ==
    /\ healthy \in BOOLEAN /\ leased \in BOOLEAN /\ opened \in BOOLEAN
    /\ linked \in BOOLEAN /\ tick \in BOOLEAN /\ notified \in BOOLEAN
    /\ packet \in BOOLEAN /\ audioFailure \in BOOLEAN
    /\ completionWaiting \in BOOLEAN /\ inTurn \in BOOLEAN /\ outFault \in BOOLEAN
MailboxTypes ==
    /\ generation \in 0 .. Exhausted /\ queue \in Seq(Jobs)
    /\ active \in Jobs \cup {NoJob} /\ completion \in Completions
ConnectionTypes ==
    /\ epoch \in Nat /\ socketEpoch \in Nat /\ current \in Nat /\ opening \in Nat
    /\ adopted \in {"never", "no", "yes"} /\ fault \in {"none", "new", "handled"}
    /\ cleanup \in {"none", "wanted", "handed", "done"}
WorkerTypes ==
    /\ pc \in {"sleep", "start", "take", "check", "lease", "format", "write", "finish",
              "complete", "lastFinish", "lastComplete", "retire", "idle", "pop",
              "idleAfter", "audio", "audioSend"}
    /\ workerState \in {0, 1, 2} /\ activation \in [epoch : Nat, gen : 0 .. Exhausted]
    /\ workerJob \in Jobs \cup {NoJob} /\ workerResult \in Results
    /\ contentions \in Nat /\ captured \in Nat /\ packets \in Nat
    /\ ahead \subseteq Nat /\ expired \subseteq Refs
    /\ wire \in Seq(Writes)
ApplicationTypes ==
    /\ apc \in {"idle", "signals", "start", "outbound", "deliver", "retire", "turn",
               "controls", "messages", "submit", "cleanup"}
    /\ outGeneration \in 0 .. Exhausted /\ outEpoch \in Nat
    /\ reservation \in 0 .. Exhausted /\ requestId \in Nat /\ lastAdmitted \in Nat
    /\ collected \in Completions
    /\ playout \in {"none", "live", "stale", "recovery"}
    /\ responseEpoch \in Nat /\ obsolete \in 0 .. Exhausted
    /\ openWork \in {"none", "queued", "connecting", "done"}
    /\ openCount \in Nat /\ turnCount \in Nat
IntentTypes ==
    /\ texts \in Seq(TextIntents) /\ controls \in Seq(ControlIntents)
    /\ textCount \in 0 .. MaxTexts /\ controlCount \in 0 .. MaxControls
    /\ told \in [Texts -> {"none", "Sent", "Failed", "Cancelled"}]
\* The type of every variable of the composition.
TypeOK == /\ FlagTypes /\ MailboxTypes /\ ConnectionTypes
          /\ WorkerTypes /\ ApplicationTypes /\ IntentTypes

\* While the network worker owns the protocol object, to close or destroy it,
\* no open is running and the outbound worker is not using it: it has given its
\* reservation back and is between two rounds.
ProtocolUnderOneOwner ==
    cleanup \in {"handed", "done"} =>
        openWork = "none" /\ workerState = 0 /\ pc \in {"sleep", "start"}

\* No submitted text is lost: its attempt is in the mailbox or between
\* collection and delivery, or its reservation is being retired, which frees it.
SubmittedAccounted ==
    \A i \in DOMAIN texts : texts[i].admitted =>
        \/ texts[i].id \in PendingIds \cup {collected.job.id}
        \/ texts[i].reservation = reservation /\ outGeneration = 0

\* Every completion the application collects has an intent waiting for it, so
\* the turn is never failed by an orphan.
CompletionClaimed ==
    apc = "deliver" => IsText(collected) \/ IsControlOf(collected)

\* Audio captured after a job was submitted never goes out before that job is
\* finished.
AudioNeverOvertakes == pc = "audioSend" => ahead \cap PendingIds = {}

\* While the worker holds the lease, the socket stays the one it was granted
\* for and the connection stays healthy: nothing is torn down under a send.
LeaseKeepsConnection ==
    leased => /\ healthy /\ socketEpoch = epoch
              /\ epoch = IF pc = "audioSend" THEN activation.epoch ELSE workerJob.epoch

\* No write is begun for a control after a server START has superseded it: the
\* generation the worker compares decides what happened to the intent.
NoSupersededWrite ==
    [][pc # "write" /\ pc' = "write" =>
        \A i \in DOMAIN controls : controls[i].ref = workerJob.ref =>
                                     controls[i].outcome # "Superseded"]_vars

\* The connection texts implement TextDelivery.
TextWrites == {w \in Writes : w.kind = "text"}
TextLog == LET log == Only(wire, TextWrites) IN [i \in DOMAIN log |-> log[i].ref]
Delivery == INSTANCE TextDelivery WITH accepted <- textCount, log <- TextLog
DeliveredOnce == Delivery!DeliverySpec
EveryTextAnswered == Delivery!FairDeliverySpec

\* A retired activation is returned: no lost wake-up leaves the worker asleep on
\* a reservation the application waits for.
RetirementCompletes == (reservation # 0 /\ outGeneration = 0) ~> (reservation = 0)

\* A requested close is carried out although texts, controls, audio and an open
\* may be in flight.
CloseServed == (cleanup = "wanted") ~> (cleanup = "none")

\* Captured audio does not wait for a wake-up that was consumed by a control.
AudioDrains == (captured > 0 /\ workerState = 1 /\ ~audioFailure)
               ~> (captured = 0 \/ workerState # 1 \/ audioFailure)

\* A control does not block the intents behind it for ever.
ControlsSettle == (controls # <<>>) ~> (controls = <<>>)

\* A text of the current connection that is in nobody's hands, with no worker
\* reserved, is submitted; it does not sit there until its deadline.
TextRebound ==
    (texts # <<>> /\ Head(texts).owner = current /\ ~Head(texts).admitted
        /\ controls = <<>> /\ reservation = 0)
    ~> (texts = <<>> \/ Head(texts).owner # current \/ Head(texts).admitted \/ ~opened)
=============================================================================
