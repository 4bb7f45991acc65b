------------------------------ MODULE ChatReceiver ------------------------------
(***************************************************************************)
(* The server's replies on their way in: the websocket receiver hands each *)
(* START to the application through ChatStartHandoff and each STOP through *)
(* ChatPlayoutIntake, and pushes the audio between them to the decoder;    *)
(* the application polls both, gives every reply a generation and a reset  *)
(* token, and takes the reply away again on a recovery, an abort or a      *)
(* listen of the user's.                                                   *)
(*                                                                         *)
(* A source stands for the identity the code compares (source, epoch,      *)
(* protocol and connect generation).  Snapshots that detect tearing by a   *)
(* second read of their serial are one step.  Numbers saturate at          *)
(* Exhausted as the code's do at UINT32_MAX.  The event loop runs its      *)
(* polls in the code's order; what the outbound side, the audio worker or  *)
(* a clock may answer there is a choice.                                   *)
(***************************************************************************)
EXTENDS Integers, Sequences, SequenceFilter

CONSTANTS
    Exhausted,     \* UINT32_MAX
    QueueDepth,    \* MAX_DECODE_PACKETS_IN_QUEUE
    MaxEvents      \* bound: STOPs of the server, acts of the user and losses of the source

ASSUME ReceiverAssumption ==
    /\ Exhausted \in Nat /\ Exhausted > 2
    /\ QueueDepth \in Nat \ {0} /\ MaxEvents \in Nat

VARIABLES
    link,      \* the published source (0: none, or owned by a cleanup), those so far
    handoff,   \* ChatStartHandoff; late: 250 ms have passed since its request
    intake,    \* ChatPlayoutIntake; seq counts by one what the code counts by two
    rx,        \* the receiver: its place, what it carries, start_audio
    turn,      \* speaking_generation_, the reset token requested, tts_audio_accepting_
    sound,     \* the reset completed, the packets not yet played
    app,       \* the event loop: its place, the START serials it has dealt with
    play,      \* chat_playout_* and chat_listen_origin_
    face,      \* chat_rearm_phase_, the device state, the authorized uplink
    tally      \* the events so far, the clock of a STOP
vars == <<link, handoff, intake, rx, turn, sound, app, play, face, tally>>

Numbers == 0..Exhausted
Sources == 0..MaxEvents + 1
Clock == 0..MaxEvents
Packets == [gen : Numbers, token : Numbers, start : Numbers]

NoRequest == [serial |-> 0, source |-> 0]
NoAdmission == [serial |-> 0, gen |-> 0, token |-> 0]
NoAudio == [source |-> 0, gen |-> 0, token |-> 0]
\* What a STOP says: a drain of one identity or another, an interrupt, a refresh
\* of a listener, the end of one, or a drain that names no identity.
Forms == {"drainA", "drainB", "interrupt", "keepalive", "manual", "nameless"}
NoStop == [stamp |-> 0, form |-> "nameless", received |-> 0, captured |-> FALSE]

Init ==
    /\ link = [source |-> 1, opened |-> 1]
    /\ handoff = [req |-> NoRequest, late |-> FALSE, admitted |-> NoAdmission,
                  expired |-> 0, confirmed |-> 0]
    /\ intake = [seq |-> 0, source |-> 0, gen |-> 0, token |-> 0, fault |-> 0,
                 writing |-> 0, stop |-> NoStop, conflict |-> FALSE, lock |-> "free",
                 idle |-> 0]
    /\ rx = [at |-> "idle", onTime |-> FALSE, stop |-> NoStop, audio |-> NoAudio,
             speech |-> 0, ended |-> [stamp |-> 0, received |-> 0]]
    /\ turn = [gen |-> 0, token |-> 0, accepting |-> FALSE, owner |-> 0]
    /\ sound = [done |-> 0, queue |-> << >>]
    /\ app = [at |-> "start", adm |-> NoRequest, placed |-> FALSE, handled |-> 0,
              failed |-> 0, effects |-> 0]
    /\ play = [stamp |-> 0, source |-> 0, gen |-> 0, token |-> 0, origin |-> "drain",
               begun |-> FALSE, recovery |-> FALSE, blamed |-> FALSE, received |-> 0]
    /\ face = [phase |-> "none", device |-> "idle", uplink |-> FALSE]
    /\ tally = 0

-----------------------------------------------------------------------------
(* ChatPlaybackReset and ChatStartHandoff. *)

NextTokenWrapping(t) == t + 1              \* variant: does not saturate
NextToken(t) == IF t = Exhausted THEN t ELSE t + 1
NextGeneration(g) == IF g = Exhausted THEN g ELSE g + 1

TokenCurrent(t) == t \notin {0, Exhausted} /\ t = turn.token
ResetPending == turn.token = Exhausted \/ turn.token # sound.done
AllowsDecode(t) == TokenCurrent(t) /\ sound.done = t

\* Expired, by a clock that has seen the deadline or not.
Expired(r, onTime) == handoff.expired = r.serial \/ ~onTime
Admitted(r) == r.serial # 0 /\ handoff.admitted.serial = r.serial /\ handoff.req = r

-----------------------------------------------------------------------------
(* The receiver.  Its gate lets one callback in at a time. *)

Event == tally < MaxEvents /\ tally' = tally + 1
Mine(r) == link.source # 0 /\ r.source = link.source

SealedAudioKept == rx.audio                \* variant: the next reply's audio is not yet its own
SealedAudio == NoAudio

\* HandleChatStart up to the publication.  Serials of an earlier request in the
\* handoff's words match nothing any more and stand as 0; the last serial is
\* published and refused.
HearStart ==
    /\ rx.at = "idle" /\ link.source # 0 /\ handoff.req.serial < Exhausted
    /\ LET serial == handoff.req.serial + 1 IN
       /\ handoff' = [req |-> [serial |-> serial, source |-> link.source], late |-> FALSE,
                      admitted |-> NoAdmission, expired |-> 0, confirmed |-> 0]
       /\ rx' = [rx EXCEPT !.at = IF serial = Exhausted THEN "idle" ELSE "await",
                           !.audio = SealedAudio, !.speech = serial]
    /\ UNCHANGED <<link, intake, turn, sound, app, play, face, tally>>

\* The loop reads the clock it will judge by.
SampleClock ==
    /\ rx.at = "await"
    /\ rx' = [rx EXCEPT !.at = "decide", !.onTime = ~handoff.late]
    /\ UNCHANGED <<link, handoff, intake, turn, sound, app, play, face, tally>>

Confirm ==
    /\ rx.at = "decide" /\ Admitted(handoff.req) /\ ~Expired(handoff.req, rx.onTime)
    /\ handoff' = [handoff EXCEPT !.confirmed = handoff.req.serial]
    /\ rx' = [rx EXCEPT !.at = "idle",
                        !.onTime = FALSE,
                        !.audio = [source |-> handoff.req.source, gen |-> handoff.admitted.gen,
                                   token |-> handoff.admitted.token]]
    /\ UNCHANGED <<link, intake, turn, sound, app, play, face, tally>>

\* No admission yet: wait a tick, or give the START up for good.
Await ==
    /\ rx.at = "decide" /\ (~Admitted(handoff.req) \/ Expired(handoff.req, rx.onTime))
    /\ IF Expired(handoff.req, rx.onTime) \/ ~Mine(handoff.req)
       THEN /\ handoff' = [handoff EXCEPT !.expired = handoff.req.serial, !.late = TRUE]
            /\ rx' = [rx EXCEPT !.at = "idle", !.onTime = FALSE]
       ELSE rx' = [rx EXCEPT !.at = "await", !.onTime = FALSE] /\ UNCHANGED handoff
    /\ UNCHANGED <<link, intake, turn, sound, app, play, face, tally>>

Joins(packet) == TokenCurrent(packet.token) /\ packet.gen = turn.gen
Joining == {packet \in Packets : Joins(packet)}

\* HandleChatAudio and PushPacketToDecodeQueue, which makes the same checks
\* again: packets of any other reply make room first.
HearAudio ==
    /\ rx.at = "idle" /\ Mine(rx.audio) /\ turn.accepting /\ Joins(rx.audio)
    /\ LET kept == Only(sound.queue, Joining)
           packet == [gen |-> rx.audio.gen, token |-> rx.audio.token, start |-> rx.speech] IN
       sound' = [sound EXCEPT !.queue = IF Len(kept) < QueueDepth
                                        THEN Append(kept, packet) ELSE kept]
    /\ UNCHANGED <<link, handoff, intake, rx, turn, app, play, face, tally>>

-----------------------------------------------------------------------------
(* HandleChatTerminalStop and ChatPlayoutIntake. *)

StampCurrent(s) == s \notin {0, Exhausted} /\ s = intake.seq

\* A refresh of a listener at work, or of a reply that has completed to idle.
Satisfied(form) ==
    /\ form \in {"keepalive", "manual"}
    /\ rx.audio.token = 0 /\ TokenCurrent(intake.token)
    /\ \/ form = "keepalive" /\ face.device = "listening" /\ face.uplink
       \/ face.device = "idle" /\ StampCurrent(intake.seq) /\ intake.idle = intake.seq

\* What PublishStop can use: an interrupt, or a named drain with the decoder reset.
Understood(form, captured) ==
    IF form = "interrupt" \/ (captured /\ form \in {"drainA", "drainB"})
    THEN form ELSE "nameless"

\* HandleChatTerminalStop, and PublishStop up to the marker that announces the
\* writing.  Whatever becomes of the STOP, no audio after it belongs to the reply.
HearStop(form) ==
    /\ rx.at = "idle" /\ link.source # 0 /\ Event
    /\ IF /\ StampCurrent(intake.seq) /\ Mine(intake) /\ intake.gen = turn.gen
          /\ ~Satisfied(form)
       THEN LET captured == AllowsDecode(intake.token)
                stop == [stamp |-> intake.seq, form |-> Understood(form, captured),
                         received |-> tally', captured |-> captured]
                first == [stamp |-> intake.seq, received |-> tally']
                faulted == intake.fault = intake.seq \/ stop.form = "nameless" IN
            /\ rx' = [rx EXCEPT !.at = IF faulted THEN "idle" ELSE "lock",
                                !.stop = IF faulted THEN NoStop ELSE stop,
                                !.audio = SealedAudio, !.speech = 0,
                                !.ended = IF @.stamp = intake.seq THEN @ ELSE first]
            /\ intake' = IF faulted THEN [intake EXCEPT !.fault = intake.seq]
                         ELSE [intake EXCEPT !.writing = intake.seq]
       ELSE rx' = [rx EXCEPT !.speech = 0] /\ UNCHANGED intake
    /\ UNCHANGED <<link, handoff, turn, sound, app, play, face>>

PutDown == rx' = [rx EXCEPT !.at = "idle", !.stop = NoStop]

ContendedSilent == PutDown /\ UNCHANGED intake     \* variant: drops the STOP
Contended == PutDown /\ intake' = [intake EXCEPT !.fault = rx.stop.stamp]

\* The try_lock: a collector at work turns the STOP into a fault.
LockStop ==
    /\ rx.at = "lock"
    /\ \/ intake.lock = "app" /\ Contended
       \/ /\ intake.lock = "free"
          /\ rx' = [rx EXCEPT !.at = "write"]
          /\ intake' = [intake EXCEPT !.lock = "receiver"]
    /\ UNCHANGED <<link, handoff, turn, sound, app, play, face, tally>>

DifferentNewClock(stop) == stop            \* variant: the clock starts again
\* A STOP that differs from the one stored keeps the clock of the first.
Different(stop) == [stop EXCEPT !.received = intake.stop.received]

WriteStop ==
    /\ rx.at = "write"
    /\ PutDown
    /\ LET stop == rx.stop  old == intake.stop  free == [intake EXCEPT !.lock = "free"] IN
       intake' =
         IF ~StampCurrent(stop.stamp) THEN free
         ELSE IF old.stamp # stop.stamp THEN [free EXCEPT !.stop = stop, !.conflict = FALSE]
         ELSE IF old.form = "interrupt" \/ intake.conflict \/ old.form = stop.form THEN free
         ELSE [free EXCEPT !.stop = Different(stop), !.conflict = stop.form # "interrupt"]
    /\ UNCHANGED <<link, handoff, turn, sound, app, play, face, tally>>

-----------------------------------------------------------------------------
(* The audio worker and the decoder. *)

CompleteReset ==
    /\ ResetPending /\ turn.token # Exhausted
    /\ sound' = [done |-> turn.token, queue |-> Only(sound.queue, Joining)]
    /\ UNCHANGED <<link, handoff, intake, rx, turn, app, play, face, tally>>

\* The decode's last claim: only what passes it is played.
Playable(packet) == packet.gen = turn.gen /\ AllowsDecode(packet.token)

\* A packet leaves the queue, is decoded and claimed again: played or dropped.
PlayPacket ==
    /\ sound.queue # << >> /\ ~ResetPending
    /\ sound' = [sound EXCEPT !.queue = Tail(@)]
    /\ UNCHANGED <<link, handoff, intake, rx, turn, app, play, face, tally>>

-----------------------------------------------------------------------------
(* The event loop: recovery, and the reply it establishes. *)

At(place) == app.at = place
Go(place) == app' = [app EXCEPT !.at = place]
Same(v) == v' = v

Leave == app' = [app EXCEPT !.at = "playout", !.adm = NoRequest, !.placed = FALSE]

Abandoned == [gen |-> NextGeneration(turn.gen), token |-> NextToken(turn.token),
              accepting |-> FALSE, owner |-> 0]

\* RecoverChatPlayout; blame: a STOP is the reason.
RecoverPlayout(blame) ==
    IF play.recovery THEN Same(turn) /\ Same(play) /\ Same(face)
    ELSE /\ turn' = Abandoned
         /\ play' = [play EXCEPT !.recovery = TRUE, !.blamed = blame]
         /\ face' = [face EXCEPT !.phase = "recovery", !.uplink = FALSE]

\* RecoverChatStart, which a request that is no longer the one in hand does not reach.
RecoverStart(r, seen) ==
    IF handoff.req = r /\ Mine(r) /\ app.failed # r.serial
    THEN /\ app' = [app EXCEPT !.at = "playout", !.handled = seen, !.failed = r.serial,
                               !.adm = NoRequest, !.placed = FALSE]
         /\ turn' = Abandoned
         /\ play' = [play EXCEPT !.recovery = TRUE, !.blamed = FALSE, !.source = r.source]
         /\ face' = [face EXCEPT !.phase = "recovery", !.uplink = FALSE]
    ELSE Leave /\ Same(turn) /\ Same(play) /\ Same(face)

CanEstablish == intake.seq < Exhausted - 1

\* ChatPlayoutIntake::Establish, and the response the application keeps of it.
Opened(t) ==
    IF CanEstablish
    THEN [intake EXCEPT !.seq = @ + 1, !.source = link.source, !.gen = t.gen, !.token = t.token]
    ELSE [intake EXCEPT !.seq = Exhausted]
Established(t) ==
    [stamp |-> intake.seq + 1, source |-> link.source, gen |-> t.gen, token |-> t.token,
     origin |-> "drain", begun |-> FALSE, recovery |-> FALSE, blamed |-> FALSE, received |-> 0]

-----------------------------------------------------------------------------
(* PollChatStart. *)

OutdatedUnhandled(r) ==                    \* variant: not once it has been handled
    /\ app.handled # r.serial
    /\ r.serial = Exhausted \/ (handoff.confirmed # r.serial /\ Expired(r, ~handoff.late))
Outdated(r) ==
    r.serial = Exhausted \/ (handoff.confirmed # r.serial /\ Expired(r, ~handoff.late))
EffectsDue(r) ==
    /\ handoff.confirmed = r.serial /\ app.handled = r.serial
    /\ r.serial \notin {app.failed, app.effects}
Fresh(r) == r.serial \notin {app.handled, app.failed}
StartDue == LET r == handoff.req IN
    Mine(r) /\ app.failed # r.serial /\ (Outdated(r) \/ EffectsDue(r) \/ Fresh(r))

RefuseOutdated ==
    /\ Outdated(handoff.req)
    /\ RecoverStart(handoff.req, app.handled) /\ Same(intake)

ApplyEffects ==
    /\ ~Outdated(handoff.req) /\ EffectsDue(handoff.req)
    /\ app' = [app EXCEPT !.at = "playout", !.effects = handoff.req.serial]
    /\ face' = [face EXCEPT !.device = "speaking"]
    /\ Same(intake) /\ Same(turn) /\ Same(play)

\* A generation and a token of its own for the reply; realtime keeps the uplink.
PlaceReply(placed, realtime) ==
    LET r == handoff.req
        t == [gen |-> turn.gen + 1, token |-> NextToken(turn.token), accepting |-> TRUE,
              owner |-> r.serial] IN
    /\ ~Outdated(r) /\ Fresh(r) /\ turn.gen < Exhausted - 1
    /\ placed => CanEstablish /\ t.token # Exhausted
    /\ turn' = t
    /\ app' = [app EXCEPT !.at = "admit", !.adm = r, !.handled = r.serial, !.placed = placed]
    /\ intake' = IF placed \/ (t.token # Exhausted /\ ~CanEstablish) THEN Opened(t) ELSE intake
    /\ play' = IF placed THEN Established(t) ELSE play
    /\ face' = [face EXCEPT !.phase = IF placed THEN "none" ELSE @, !.uplink = @ /\ realtime]

\* No generation is left, or something else has failed.
RefuseReply ==
    /\ ~Outdated(handoff.req) /\ Fresh(handoff.req)
    /\ RecoverStart(handoff.req, handoff.req.serial) /\ Same(intake)

PollStart ==
    /\ At("start") /\ StartDue
    /\ \/ RefuseOutdated \/ ApplyEffects \/ RefuseReply
       \/ \E placed, realtime \in BOOLEAN : PlaceReply(placed, realtime)
    /\ UNCHANGED <<link, handoff, rx, sound, tally>>

\* Admit, judged by a clock of its own and again by what the receiver did meanwhile.
Admit ==
    /\ At("admit")
    /\ IF /\ app.placed /\ handoff.req = app.adm /\ ~Expired(app.adm, ~handoff.late)
       THEN /\ handoff' = [handoff EXCEPT !.admitted = [serial |-> app.adm.serial,
                                                        gen |-> turn.gen, token |-> turn.token]]
            /\ Go("review") /\ Same(turn) /\ Same(play) /\ Same(face)
       ELSE RecoverStart(app.adm, app.handled) /\ Same(handoff)
    /\ UNCHANGED <<link, intake, rx, sound, tally>>

ReviewAdmission ==
    /\ At("review")
    /\ IF handoff.req = app.adm /\ handoff.expired # app.adm.serial
       THEN Leave /\ Same(turn) /\ Same(play) /\ Same(face)
       ELSE RecoverStart(app.adm, app.handled)
    /\ UNCHANGED <<link, handoff, intake, rx, sound, tally>>

-----------------------------------------------------------------------------
(* PollChatPlayout, which comes after PollChatStart in a round of the loop.    *)
(* AdvanceChatRearm's look at the intake is one more of its polls.             *)

OwnReply == play.gen = turn.gen /\ TokenCurrent(play.token)
Undisturbed == StampCurrent(play.stamp) /\ Mine(play) /\ OwnReply
Polling == play.stamp # 0 /\ ~play.recovery

\* TryCollect up to the lock: what it says without the STOP's contents.
Told == IF intake.fault = play.stamp
             \/ (intake.lock = "receiver" /\ play.stamp \in {intake.writing, intake.stop.stamp})
        THEN "fault" ELSE IF intake.lock = "receiver" THEN "none" ELSE "read"

NothingPolled ==
    /\ At("playout") /\ ~(Polling /\ Undisturbed /\ play.origin = "drain" /\ Told # "none")
    /\ Polling => Undisturbed
    /\ Go("start") /\ Same(intake) /\ Same(turn) /\ Same(play) /\ Same(face)

\* The source is lost: a reply of its own is recovered, a successor's left alone.
ReplyLost ==
    /\ Polling /\ ~Undisturbed
    /\ Go("start") /\ Same(intake)
    /\ IF OwnReply THEN RecoverPlayout(FALSE)
       ELSE play' = [play EXCEPT !.stamp = 0] /\ Same(turn) /\ Same(face)

\* The ten seconds of a drain, or a fault of the outbound side or the audio worker.
ReplyFails ==
    /\ Polling /\ Undisturbed
    /\ Go("start") /\ Same(intake) /\ RecoverPlayout(FALSE)

StopFault ==
    /\ Polling /\ Undisturbed /\ play.origin = "drain" /\ Told = "fault"
    /\ Go("start") /\ Same(intake) /\ RecoverPlayout(TRUE)

LockIntake ==
    /\ Polling /\ Undisturbed /\ play.origin = "drain" /\ Told = "read"
    /\ Go("collect") /\ intake' = [intake EXCEPT !.lock = "app"]
    /\ Same(turn) /\ Same(play) /\ Same(face)

PollPlayout ==
    /\ At("playout") \/ (At("start") /\ ~StartDue)
    /\ NothingPolled \/ ReplyLost \/ ReplyFails \/ StopFault \/ LockIntake
    /\ UNCHANGED <<link, handoff, rx, sound, tally>>

\* HandleChatPlayoutInterrupt: the listen the user already had goes on under a
\* new generation and token, by the clock of the STOP.
Continue(stop) ==
    /\ stop.form = "interrupt" /\ stop.captured /\ ~intake.conflict /\ Undisturbed
    /\ turn.gen < Exhausted - 1
    /\ face.device \in {"speaking", "listening"} /\ face.phase \notin {"idle", "recovery"}
    /\ turn' = Abandoned
    /\ play' = [play EXCEPT !.gen = Abandoned.gen, !.token = Abandoned.token, !.begun = FALSE,
                            !.origin = "interrupt", !.received = stop.received]
    /\ face' = [phase |-> "pending", device |-> "speaking", uplink |-> FALSE]

\* The STOP of this stamp, if there is one: the first drain begins, an interrupt
\* or a second, different drain ends the reply.
CollectStop ==
    /\ At("collect") /\ Go("start")
    /\ intake' = [intake EXCEPT !.lock = "free"]
    /\ LET stop == intake.stop IN
       IF stop.stamp # play.stamp THEN Same(turn) /\ Same(play) /\ Same(face)
       ELSE IF stop.form = "interrupt" \/ intake.conflict
       THEN Continue(stop) \/ RecoverPlayout(TRUE)
       ELSE IF play.begun THEN Same(turn) /\ Same(play) /\ Same(face)
       ELSE \/ /\ play' = [play EXCEPT !.begun = TRUE, !.received = stop.received]
               /\ Same(turn) /\ Same(face)
            \/ RecoverPlayout(TRUE)               \* too old, or the controller refuses
    /\ UNCHANGED <<link, handoff, rx, sound, tally>>

-----------------------------------------------------------------------------
(* AdvanceChatRearm, in the same rounds. *)

\* The device state follows a recovery the source has outlived.
SettleRecovery ==
    /\ At("start") /\ ~StartDue /\ face.phase = "recovery" /\ link.source \in {0, play.source}
    /\ face.device # "idle"
    /\ face' = [face EXCEPT !.device = "idle"]
    /\ UNCHANGED <<link, handoff, intake, rx, turn, sound, app, play, tally>>

MayRearm ==
    /\ At("start") /\ ~StartDue /\ play.stamp # 0 /\ Mine(play) /\ OwnReply
    /\ play.origin = "drain" /\ StampCurrent(play.stamp) =>
         Told # "fault" /\ (intake.stop.stamp = play.stamp =>
                              intake.stop.form # "interrupt" /\ ~intake.conflict)
\* The controller has seen the reply played out.
MayEnd == MayRearm /\ face.phase = "none" /\ play.begun /\ play.origin = "drain"

\* The reply or its listener is over: the mark for the receiver comes before the
\* device state it reads first, which Quiet sets.
GoQuiet(complete) ==
    /\ Go("quiet")
    /\ face' = [face EXCEPT !.phase = "idle", !.uplink = FALSE]
    /\ intake' = IF complete
                 THEN [intake EXCEPT !.idle = IF StampCurrent(play.stamp) THEN play.stamp ELSE 0]
                 ELSE intake

EndReply ==
    /\ MayEnd /\ GoQuiet(TRUE)
    /\ UNCHANGED <<link, handoff, rx, turn, sound, play, tally>>

Quiet ==
    /\ At("quiet") /\ Go("start")
    /\ face' = [face EXCEPT !.device = "idle"]
    /\ UNCHANGED <<link, handoff, intake, rx, turn, sound, play, tally>>

\* From the reply to a listen request, and from its delivery to an armed listener.
RequestListen ==
    /\ MayEnd
    /\ face' = [phase |-> "pending", device |-> "speaking", uplink |-> FALSE]
    /\ UNCHANGED <<link, handoff, intake, rx, turn, sound, app, play, tally>>

ArmListener ==
    /\ MayRearm /\ face.phase = "pending" /\ face.device = "speaking" /\ ~ResetPending
    /\ face' = [phase |-> "armed", device |-> "listening", uplink |-> TRUE]
    /\ UNCHANGED <<link, handoff, intake, rx, turn, sound, app, play, tally>>

-----------------------------------------------------------------------------
(* What the user does, between two rounds of the loop. *)

\* BeginChatListen: an own reply is kept, any other gives way to a new one
\* that no START asked for.
BeginListen ==
    LET kept == play.stamp # 0 /\ Mine(play) /\ OwnReply
        t == IF kept THEN turn
             ELSE [turn EXCEPT !.gen = @ + 1, !.token = NextToken(@), !.owner = 0]
        reply == IF kept THEN play ELSE Established(t)
        seen == IF kept THEN intake ELSE Opened(t) IN
    IF face.phase = "pending" \/ (~kept /\ turn.gen >= Exhausted - 1)
    THEN Same(intake) /\ Same(turn) /\ Same(play) /\ Same(face)
    ELSE /\ turn' = t
         /\ IF kept \/ (CanEstablish /\ t.token # Exhausted)
            THEN /\ intake' = [seen EXCEPT !.idle = 0]
                 /\ play' = [reply EXCEPT !.origin = "local", !.recovery = FALSE]
                 /\ face' = [phase |-> "pending", device |-> "speaking", uplink |-> FALSE]
            ELSE /\ intake' = IF t.token = Exhausted THEN intake ELSE seen
                 /\ Same(play) /\ Same(face)

StartListening ==
    /\ At("start") /\ link.source # 0 /\ Event /\ BeginListen
    /\ UNCHANGED <<link, handoff, rx, sound, app>>

\* HandleChatAbort; resume: into a listen of its own.
Abort(resume) ==
    /\ At("start") /\ link.source # 0 /\ Event
    /\ turn' = [turn EXCEPT !.token = NextToken(@), !.accepting = FALSE, !.owner = 0]
    /\ play' = [play EXCEPT !.token = NextToken(turn.token), !.origin = "local",
                            !.begun = FALSE]
    /\ face' = [phase |-> "idle", device |-> IF resume THEN face.device ELSE "idle",
                uplink |-> FALSE]
    /\ Go(IF resume THEN "resume" ELSE "start")
    /\ UNCHANGED <<link, handoff, intake, rx, sound>>

ResumeListening ==
    /\ At("resume") /\ Go("start")
    /\ IF link.source # 0 THEN BeginListen
       ELSE Same(intake) /\ Same(turn) /\ Same(play) /\ Same(face)
    /\ UNCHANGED <<link, handoff, rx, sound, tally>>

\* HandleChatStopListening: only a listener armed after a drained reply proves
\* that reply complete.
StopListening ==
    /\ At("start") /\ link.source # 0 /\ Event /\ play.stamp # 0
    /\ face.device = "listening" \/ face.phase = "pending"
    /\ GoQuiet(face.device = "listening" /\ face.phase = "armed" /\ play.origin = "drain")
    /\ UNCHANGED <<link, handoff, rx, turn, sound, play>>

-----------------------------------------------------------------------------
(* The connection and the clock. *)

LoseSource ==
    /\ link.source # 0 /\ Event
    /\ link' = [link EXCEPT !.source = 0]
    /\ UNCHANGED <<handoff, intake, rx, turn, sound, app, play, face>>

\* SelectChatProtocolSource.
SelectSource ==
    /\ At("start") /\ link.source = 0
    /\ link' = [source |-> link.opened + 1, opened |-> link.opened + 1]
    /\ app' = [app EXCEPT !.handled = 0, !.failed = 0, !.effects = 0]
    /\ UNCHANGED <<handoff, intake, rx, turn, sound, play, face, tally>>

PassDeadline ==
    /\ handoff.req.serial # handoff.confirmed /\ ~handoff.late
    /\ handoff' = [handoff EXCEPT !.late = TRUE]
    /\ UNCHANGED <<link, intake, rx, turn, sound, app, play, face, tally>>

ReceiverStep == SampleClock \/ Confirm \/ Await \/ LockStop \/ WriteStop
Hear == HearStart \/ HearAudio \/ (\E form \in Forms : HearStop(form))
Loop ==
    \/ PollStart \/ Admit \/ ReviewAdmission \/ PollPlayout \/ CollectStop
    \/ Quiet \/ ResumeListening
Rearm == SettleRecovery \/ EndReply \/ RequestListen \/ ArmListener
User == StartListening \/ StopListening \/ (\E resume \in BOOLEAN : Abort(resume))
Next ==
    \/ ReceiverStep \/ Hear \/ CompleteReset \/ PlayPacket \/ Loop \/ Rearm \/ User
    \/ LoseSource \/ SelectSource \/ PassDeadline
Spec == Init /\ [][Next]_vars

\* The event loop and the receiver run on; 250 ms pass.
FairSpec == Spec /\ WF_vars(Loop) /\ WF_vars(ReceiverStep) /\ WF_vars(PassDeadline)

-----------------------------------------------------------------------------
(* Properties. *)

Requests == [serial : Numbers, source : Sources]
Admissions == [serial : Numbers, gen : Numbers, token : Numbers]
Stops == [stamp : Numbers, form : Forms, received : Clock, captured : BOOLEAN]

\* Every word, marker and place keeps to its range; numbers saturate.
TypeOK ==
    /\ link \in [source : Sources, opened : Sources]
    /\ handoff \in [req : Requests, late : BOOLEAN, admitted : Admissions,
                    expired : Numbers, confirmed : Numbers]
    /\ intake \in [seq : Numbers, source : Sources, gen : Numbers, token : Numbers,
                   fault : Numbers, writing : Numbers, stop : Stops, conflict : BOOLEAN,
                   lock : {"free", "app", "receiver"}, idle : Numbers]
    /\ rx \in [at : {"idle", "await", "decide", "lock", "write"}, onTime : BOOLEAN,
               stop : Stops, audio : [source : Sources, gen : Numbers, token : Numbers],
               speech : Numbers, ended : [stamp : Numbers, received : Clock]]
    /\ turn \in [gen : Numbers, token : Numbers, accepting : BOOLEAN, owner : Numbers]
    /\ sound.done \in Numbers /\ sound.queue \in Seq(Packets) /\ Len(sound.queue) <= QueueDepth
    /\ app \in [at : {"start", "admit", "review", "playout", "collect", "quiet", "resume"},
                adm : Requests, placed : BOOLEAN, handled : Numbers, failed : Numbers,
                effects : Numbers]
    /\ play \in [stamp : Numbers, source : Sources, gen : Numbers, token : Numbers,
                 origin : {"drain", "local", "interrupt"}, begun : BOOLEAN,
                 recovery : BOOLEAN, blamed : BOOLEAN, received : Clock]
    /\ face \in [phase : {"none", "pending", "armed", "idle", "recovery"},
                 device : {"idle", "listening", "speaking"}, uplink : BOOLEAN]
    /\ tally \in Clock

\* Whatever the decoder can still play was heard after the START whose reply
\* owns the generation and the token of the moment, and before its STOP: not
\* after a later START, and not once the reply was recovered, aborted,
\* interrupted or gave way to a listen.
PlayedAudioBelongs ==
    \A i \in DOMAIN sound.queue :
        Playable(sound.queue[i]) => sound.queue[i].start = turn.owner

\* A drain the application has begun, a listen that goes on after an interrupt
\* and a recovery it blames on a STOP are all for a STOP heard of this very
\* response, and the clock they keep is that of the first.
StopEndsItsOwnReply ==
    /\ play.stamp # 0 /\ (play.begun \/ play.origin = "interrupt")
         => rx.ended = [stamp |-> play.stamp, received |-> play.received]
    /\ play.recovery /\ play.blamed /\ play.stamp # 0 => rx.ended.stamp = play.stamp

StartOwed ==
    /\ handoff.req.serial # 0 /\ Mine(handoff.req)
    /\ handoff.req.serial \notin {app.effects, app.failed}

\* The START of a connection that stays ends in the application's effects or in
\* its recovery, unless a later one takes its place: neither the 250 ms nor a
\* confirmation can fall between the two tasks.
StartSettles == []<>~StartOwed

StopOwed ==
    /\ play.stamp # 0 /\ rx.ended.stamp = play.stamp
    /\ play.origin = "drain" /\ ~play.begun /\ ~play.recovery

\* A STOP heard of the reply being played, however the two tasks meet at the
\* lock, starts its drain or ends it.
StopAnswered == []<>~StopOwed
=============================================================================
