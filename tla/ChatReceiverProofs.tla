--------------------------- MODULE ChatReceiverProofs ---------------------------
(***************************************************************************)
(* The safety properties of ChatReceiver for every size of the counters    *)
(* and of the decode queue, and any number of events.                      *)
(***************************************************************************)
EXTENDS ChatReceiver, SequenceFilterProofs

\* A source is never published twice, and every loss of one is counted.
Connected ==
    /\ link.source \in {0, link.opened} /\ link.opened # 0
    /\ link.opened <= tally + 1
    /\ link.source = 0 => link.opened <= tally

\* The response the application plays is the one of the intake's stamp, and
\* whatever the intake keeps is of the last response a STOP was heard of.
Stamped ==
    /\ play.stamp \in {0, intake.seq} \/ intake.seq = Exhausted
    /\ rx.ended.stamp <= intake.seq /\ rx.ended.stamp # Exhausted
    /\ play.stamp # 0 => rx.ended.stamp <= play.stamp
    /\ intake.stop.stamp <= rx.ended.stamp
    /\ intake.fault <= rx.ended.stamp
    /\ intake.writing <= rx.ended.stamp

\* The first STOP of a response is stored, lost to a fault, or in the receiver's hands.
Clocked ==
    /\ intake.stop.stamp = rx.ended.stamp => intake.stop.received = rx.ended.received
    /\ rx.at \in {"lock", "write"} =>
         /\ rx.stop.stamp = rx.ended.stamp /\ rx.ended.stamp # 0
         /\ intake.stop.stamp = rx.ended.stamp \/ rx.stop.received = rx.ended.received
    /\ rx.at \notin {"lock", "write"} =>
         rx.ended.stamp \in {intake.stop.stamp, intake.fault} \/ rx.ended.stamp # intake.seq

\* The reply of the moment is the one the intake listens for, from a source.
Heard(s) == StampCurrent(intake.seq) /\ intake.source = s /\ intake.gen = turn.gen

\* Tokens only grow: what joins the reply of the moment was given its numbers.
TokensBehind ==
    /\ handoff.admitted.token <= turn.token
    /\ rx.audio.token <= turn.token
    /\ \A i \in DOMAIN sound.queue : sound.queue[i].token <= turn.token

Admitting ==
    /\ handoff.admitted.serial \in {0, handoff.req.serial}
    /\ app.at = "admit" =>
         turn.owner = app.adm.serial /\ (app.placed => Heard(app.adm.source))
    /\ handoff.admitted.serial # 0 /\ Joins(handoff.admitted) =>
         turn.owner = handoff.admitted.serial /\ Heard(handoff.req.source)
    /\ rx.at \in {"await", "decide"} => rx.speech = handoff.req.serial

\* The audio that joins it was heard after its START, unless its source is gone.
Speaking ==
    /\ handoff.req.source <= link.opened /\ rx.audio.source <= link.opened
    /\ Joins(rx.audio) =>
         /\ Heard(rx.audio.source)
         /\ rx.speech = turn.owner \/ rx.audio.source < link.opened

QueueBelongs ==
    \A i \in DOMAIN sound.queue :
        Joins(sound.queue[i]) => sound.queue[i].start = turn.owner

RInv ==
    /\ TypeOK /\ Connected
    /\ Stamped /\ Clocked /\ StopEndsItsOwnReply
    /\ TokensBehind /\ Admitting /\ Speaking /\ QueueBelongs

-----------------------------------------------------------------------------
(* The numbers. *)

\* The constants, in the form the proofs use them.
LEMMA ReceiverConstants ==
    /\ Exhausted \in Nat /\ Exhausted > 2 /\ MaxEvents \in Nat
    /\ QueueDepth \in Nat /\ QueueDepth # 0
<1>. QED BY ReceiverAssumption DEF ReceiverAssumption

\* The constant records of the model have the types of the words they fill.
LEMMA EmptyWords ==
    /\ 0 \in Numbers /\ Exhausted \in Numbers /\ 0 \in Sources /\ 1 \in Sources /\ 0 \in Clock
    /\ NoRequest \in Requests /\ NoAdmission \in Admissions /\ NoStop \in Stops
    /\ NoAudio \in [source : Sources, gen : Numbers, token : Numbers]
<1>. QED BY ReceiverConstants DEF Numbers, Sources, Clock, NoRequest, Requests, NoAdmission,
     Admissions, NoStop, Stops, Forms, NoAudio

\* Tokens and generations saturate, and a token that is new is no token given before.
LEMMA NextNumbers ==
    ASSUME NEW n \in Numbers
    PROVE  /\ NextToken(n) \in Numbers /\ NextGeneration(n) \in Numbers
           /\ NextToken(n) > n \/ NextToken(n) = Exhausted
           /\ NextToken(n) >= n
<1>. QED BY ReceiverConstants DEF Numbers, NextToken, NextGeneration

-----------------------------------------------------------------------------
(* Types, one component of the state at a time. *)

Places == {"idle", "await", "decide", "lock", "write"}
Audios == [source : Sources, gen : Numbers, token : Numbers]
Endings == [stamp : Numbers, received : Clock]
Handoffs == [req : Requests, late : BOOLEAN, admitted : Admissions,
             expired : Numbers, confirmed : Numbers]
Intakes == [seq : Numbers, source : Sources, gen : Numbers, token : Numbers,
            fault : Numbers, writing : Numbers, stop : Stops, conflict : BOOLEAN,
            lock : {"free", "app", "receiver"}, idle : Numbers]
Receivers == [at : Places, onTime : BOOLEAN, stop : Stops, audio : Audios,
              speech : Numbers, ended : Endings]
Replies == [gen : Numbers, token : Numbers, accepting : BOOLEAN, owner : Numbers]
Loops == [at : {"start", "admit", "review", "playout", "collect", "quiet", "resume"},
          adm : Requests, placed : BOOLEAN, handled : Numbers, failed : Numbers,
          effects : Numbers]
Playouts == [stamp : Numbers, source : Sources, gen : Numbers, token : Numbers,
             origin : {"drain", "local", "interrupt"}, begun : BOOLEAN,
             recovery : BOOLEAN, blamed : BOOLEAN, received : Clock]
Faces == [phase : {"none", "pending", "armed", "idle", "recovery"},
          device : {"idle", "listening", "speaking"}, uplink : BOOLEAN]

LinkOK == link \in [source : Sources, opened : Sources]
SoundOK == sound.done \in Numbers /\ sound.queue \in Seq(Packets) /\ Len(sound.queue) <= QueueDepth

Typed ==
    /\ LinkOK /\ SoundOK
    /\ handoff \in Handoffs /\ intake \in Intakes /\ rx \in Receivers
    /\ turn \in Replies /\ app \in Loops /\ play \in Playouts /\ face \in Faces
    /\ tally \in Clock

\* The type invariant by component.
LEMMA TypeParts == TypeOK <=> Typed
<1>. QED BY DEF Typed, TypeOK, LinkOK, SoundOK, Handoffs, Intakes, Receivers, Replies, Loops, Playouts,
     Faces, Places, Audios, Endings

\* What the receiver does with the handoff keeps every word in its range.
LEMMA StartTypes ==
    ASSUME Typed, HearStart \/ SampleClock \/ Confirm \/ Await
    PROVE  Typed'
<1>. USE DEF Typed
<1>1. handoff' \in Handoffs
  <2>1. CASE HearStart
    <3>1. handoff.req.serial + 1 \in Numbers /\ link.source \in Sources
      BY <2>1, ReceiverConstants DEF HearStart, Handoffs, Requests, Numbers, LinkOK
    <3>. QED BY <2>1, <3>1, EmptyWords DEF HearStart, Handoffs, Requests
  <2>2. CASE SampleClock
    BY <2>2 DEF SampleClock
  <2>3. CASE Confirm
    BY <2>3 DEF Confirm, Handoffs, Requests
  <2>4. CASE Await
    BY <2>4 DEF Await, Handoffs, Requests
  <2>. QED BY <2>1, <2>2, <2>3, <2>4
<1>2. rx' \in Receivers
  <2>1. CASE HearStart
    <3>1. handoff.req.serial + 1 \in Numbers
      BY <2>1, ReceiverConstants DEF HearStart, Handoffs, Requests, Numbers
    <3>. QED BY <2>1, <3>1, EmptyWords DEF HearStart, SealedAudio, Receivers, Places, Audios
  <2>2. CASE SampleClock
    BY <2>2 DEF SampleClock, Receivers, Places, Handoffs
  <2>3. CASE Confirm
    BY <2>3 DEF Confirm, Receivers, Places, Audios, Handoffs, Requests, Admissions
  <2>4. CASE Await
    BY <2>4 DEF Await, Receivers, Places
  <2>. QED BY <2>1, <2>2, <2>3, <2>4
<1>3. UNCHANGED <<link, intake, turn, sound, app, play, face, tally>>
  BY DEF HearStart, SampleClock, Confirm, Await
<1>. QED BY <1>1, <1>2, <1>3 DEF LinkOK, SoundOK

\* So does what it does with a STOP.
LEMMA StopTypes ==
    ASSUME Typed, (\E form \in Forms : HearStop(form)) \/ LockStop \/ WriteStop
    PROVE  Typed'
<1>. USE DEF Typed
<1>1. rx' \in Receivers /\ intake' \in Intakes /\ tally' \in Clock
  <2>1. ASSUME NEW form \in Forms, HearStop(form)
        PROVE  rx' \in Receivers /\ intake' \in Intakes /\ tally' \in Clock
    <3>1. tally' \in Clock
      <4>1. Event
        BY <2>1 DEF HearStop
      <4>. QED BY <4>1, ReceiverConstants DEF Event, Clock
    <3>2. /\ intake.seq \in Numbers
          /\ [intake EXCEPT !.fault = intake.seq] \in Intakes
          /\ [intake EXCEPT !.writing = intake.seq] \in Intakes
      BY DEF Intakes
    <3>3. intake' \in Intakes
      BY <2>1, <3>2 DEF HearStop
    <3>4. \A c \in BOOLEAN : [stamp |-> intake.seq, form |-> Understood(form, c),
                               received |-> tally', captured |-> c] \in Stops
      BY <3>1, <3>2 DEF Stops, Understood, Forms
    <3>5. AllowsDecode(intake.token) \in BOOLEAN
      BY DEF AllowsDecode, TokenCurrent
    <3>6. [stamp |-> intake.seq, received |-> tally'] \in Endings /\ rx.ended \in Endings
      BY <3>1, <3>2 DEF Endings, Receivers
    <3>7. \A stop \in Stops, ended \in Endings, at \in {"idle", "lock"} :
             [rx EXCEPT !.at = at, !.stop = stop, !.audio = SealedAudio, !.speech = 0,
                        !.ended = ended] \in Receivers
      BY EmptyWords DEF Receivers, Places, SealedAudio, Audios
    <3>8. [rx EXCEPT !.speech = 0] \in Receivers
      BY EmptyWords DEF Receivers
    <3>9. rx' \in Receivers
      <4>. DEFINE captured == AllowsDecode(intake.token)
                  stop == [stamp |-> intake.seq, form |-> Understood(form, captured),
                           received |-> tally', captured |-> captured]
                  first == [stamp |-> intake.seq, received |-> tally']
                  faulted == intake.fault = intake.seq \/ stop.form = "nameless"
                  at == IF faulted THEN "idle" ELSE "lock"
                  kept == IF faulted THEN NoStop ELSE stop
                  ended == IF rx.ended.stamp = intake.seq THEN rx.ended ELSE first
      <4>1. stop \in Stops /\ first \in Endings
        BY <3>4, <3>5, <3>6
      <4>2. at \in {"idle", "lock"} /\ kept \in Stops /\ ended \in Endings
        BY <3>6, <4>1, EmptyWords
      <4>3. \/ rx' = [rx EXCEPT !.at = at, !.stop = kept, !.audio = SealedAudio, !.speech = 0,
                               !.ended = ended]
            \/ rx' = [rx EXCEPT !.speech = 0]
        BY <2>1, Zenon DEF HearStop
      <4>. HIDE DEF at, kept, ended
      <4>. QED BY <3>7, <3>8, <4>2, <4>3, Zenon
    <3>. QED BY <3>1, <3>3, <3>9
  <2>2. PutDown => rx' \in Receivers
    BY EmptyWords DEF PutDown, Receivers, Places
  <2>3. CASE LockStop
    <3>1. rx' \in Receivers
      BY <2>2, <2>3 DEF LockStop, Contended, Receivers, Places
    <3>2. intake' \in Intakes
      BY <2>3 DEF LockStop, Contended, Intakes, Receivers, Stops
    <3>. QED BY <2>3, <3>1, <3>2 DEF LockStop
  <2>4. CASE WriteStop
    <3>1. rx.stop \in Stops /\ intake.stop \in Stops
      BY DEF Receivers, Intakes
    <3>2. Different(rx.stop) \in Stops
      BY <3>1 DEF Different, Stops
    <3>3. \A stop \in Stops, conflict \in BOOLEAN :
             /\ [intake EXCEPT !.lock = "free"] \in Intakes
             /\ [[intake EXCEPT !.lock = "free"] EXCEPT !.stop = stop, !.conflict = conflict]
                  \in Intakes
      BY DEF Intakes
    <3>4. intake' \in Intakes
      BY <2>4, <3>1, <3>2, <3>3 DEF WriteStop
    <3>. QED BY <2>2, <2>4, <3>4 DEF WriteStop
  <2>. QED BY <2>1, <2>3, <2>4
<1>2. UNCHANGED <<link, handoff, turn, sound, app, play, face>>
  BY DEF HearStop, LockStop, WriteStop
<1>. QED BY <1>1, <1>2 DEF LinkOK, SoundOK

\* So do the audio that comes and what the decoder does with it.
LEMMA SoundTypes ==
    ASSUME Typed, HearAudio \/ CompleteReset \/ PlayPacket
    PROVE  Typed'
<1>. USE DEF Typed
<1>1. sound.queue \in Seq(Packets) /\ Len(sound.queue) <= QueueDepth /\ sound.done \in Numbers
  BY DEF SoundOK
<1>2. PICK kept \in Seq(Packets) : kept = Only(sound.queue, Joining) /\ Len(kept) <= Len(sound.queue)
  <2>1. Only(sound.queue, Joining) \in Seq(Packets \cap Joining)
    BY <1>1, OnlyType
  <2>2. Len(Only(sound.queue, Joining)) <= Len(sound.queue)
    BY <1>1, OnlyType
  <2>3. Only(sound.queue, Joining) \in Seq(Packets)
    BY <2>1
  <2>. QED BY <2>2, <2>3
<1>3. SoundOK'
  <2>1. CASE HearAudio
    <3>1. [gen |-> rx.audio.gen, token |-> rx.audio.token, start |-> rx.speech] \in Packets
      BY DEF Receivers, Audios, Packets
    <3>2. PICK packet \in Packets :
              sound' = [sound EXCEPT !.queue = IF Len(kept) < QueueDepth
                                               THEN Append(kept, packet) ELSE kept]
      BY <1>2, <2>1, <3>1 DEF HearAudio
    <3>. QED BY <1>1, <1>2, <3>2, ReceiverConstants DEF SoundOK
  <2>2. CASE CompleteReset
    <3>1. sound' = [done |-> turn.token, queue |-> kept]
      BY <1>2, <2>2 DEF CompleteReset
    <3>. QED BY <1>1, <1>2, <3>1, ReceiverConstants DEF SoundOK, Replies
  <2>3. CASE PlayPacket
    <3>1. PICK q \in Seq(Packets) : q = sound.queue /\ q # << >>
      BY <1>1, <2>3 DEF PlayPacket
    <3>2. Tail(q) \in Seq(Packets) /\ Len(Tail(q)) <= Len(q) /\ Len(q) \in Nat /\ Len(Tail(q)) \in Nat
      BY <3>1
    <3>3. sound' = [sound EXCEPT !.queue = Tail(q)]
      BY <2>3, <3>1 DEF PlayPacket
    <3>. QED BY <1>1, <3>1, <3>2, <3>3, ReceiverConstants DEF SoundOK
  <2>. QED BY <2>1, <2>2, <2>3
<1>4. UNCHANGED <<link, handoff, intake, rx, turn, app, play, face, tally>>
  BY DEF HearAudio, CompleteReset, PlayPacket
<1>. QED BY <1>3, <1>4 DEF LinkOK

\* What the loop leaves of a reply that is given up.
LEMMA GivenUp ==
    ASSUME Typed
    PROVE  Abandoned \in Replies
<1>. QED BY NextNumbers, EmptyWords DEF Typed, Abandoned, Replies

\* What the loop opens for a new reply.
LEMMA Opening ==
    ASSUME Typed, NEW t \in Replies
    PROVE  /\ Opened(t) \in Intakes
           /\ CanEstablish => Established(t) \in Playouts
<1>. USE DEF Typed
<1>1. link.source \in Sources /\ intake.seq \in Numbers
  BY DEF LinkOK, Intakes
<1>2. CanEstablish => intake.seq + 1 \in Numbers
  BY <1>1, ReceiverConstants DEF CanEstablish, Numbers
<1>3. Opened(t) \in Intakes
  BY <1>1, <1>2, EmptyWords DEF Opened, Intakes, Replies
<1>4. CanEstablish => Established(t) \in Playouts
  BY <1>1, <1>2, EmptyWords DEF Established, Playouts, Replies
<1>. QED BY <1>3, <1>4

\* A recovery keeps the types.
LEMMA RecoveryTypes ==
    ASSUME Typed
    PROVE  /\ \A blame \in BOOLEAN : RecoverPlayout(blame) =>
                 turn' \in Replies /\ play' \in Playouts /\ face' \in Faces
           /\ \A r \in Requests, seen \in Numbers : RecoverStart(r, seen) =>
                 turn' \in Replies /\ play' \in Playouts /\ face' \in Faces /\ app' \in Loops
<1>. USE DEF Typed
<1>1. /\ \A blame \in BOOLEAN :
            [play EXCEPT !.recovery = TRUE, !.blamed = blame] \in Playouts
      /\ \A s \in Sources :
            [play EXCEPT !.recovery = TRUE, !.blamed = FALSE, !.source = s] \in Playouts
  BY DEF Playouts
<1>2. [face EXCEPT !.phase = "recovery", !.uplink = FALSE] \in Faces
  BY DEF Faces
<1>3. /\ [app EXCEPT !.at = "playout", !.adm = NoRequest, !.placed = FALSE] \in Loops
      /\ \A r \in Requests, seen \in Numbers :
            [app EXCEPT !.at = "playout", !.handled = seen, !.failed = r.serial,
                        !.adm = NoRequest, !.placed = FALSE] \in Loops
  BY EmptyWords DEF Loops, Requests
<1>4. \A r \in Requests : r.source \in Sources
  BY DEF Requests
<1>5. \A blame \in BOOLEAN : RecoverPlayout(blame) =>
                 turn' \in Replies /\ play' \in Playouts /\ face' \in Faces
  BY <1>1, <1>2, GivenUp DEF RecoverPlayout, Same
<1>6. ASSUME NEW r \in Requests, NEW seen \in Numbers, RecoverStart(r, seen)
      PROVE  turn' \in Replies /\ play' \in Playouts /\ face' \in Faces /\ app' \in Loops
  <2>1. CASE handoff.req = r /\ Mine(r) /\ app.failed # r.serial
    <3>1. /\ app' = [app EXCEPT !.at = "playout", !.handled = seen, !.failed = r.serial,
                                !.adm = NoRequest, !.placed = FALSE]
          /\ turn' = Abandoned
          /\ play' = [play EXCEPT !.recovery = TRUE, !.blamed = FALSE, !.source = r.source]
          /\ face' = [face EXCEPT !.phase = "recovery", !.uplink = FALSE]
      BY <1>6, <2>1, Zenon DEF RecoverStart
    <3>2. app' \in Loops /\ r.source \in Sources
      BY <1>3, <1>4, <3>1, Zenon
    <3>3. play' \in Playouts /\ face' \in Faces
      BY <1>1, <1>2, <3>1, <3>2, Zenon
    <3>. QED BY <3>1, <3>2, <3>3, GivenUp
  <2>2. CASE ~(handoff.req = r /\ Mine(r) /\ app.failed # r.serial)
    BY <1>3, <1>6, <2>2 DEF RecoverStart, Leave, Same
  <2>. QED BY <2>1, <2>2
<1>. QED BY <1>5, <1>6

\* PollChatStart.
LEMMA PollStartTypes ==
    ASSUME Typed, PollStart
    PROVE  Typed'
<1>. USE DEF Typed
<1>1. /\ handoff.req \in Requests /\ handoff.req.serial \in Numbers /\ app.handled \in Numbers
      /\ UNCHANGED <<link, handoff, rx, sound, tally>>
  BY DEF Handoffs, Requests, Loops, PollStart
<1>2. /\ intake' \in Intakes /\ turn' \in Replies /\ app' \in Loops
      /\ play' \in Playouts /\ face' \in Faces
  <2>1. CASE RefuseOutdated
    BY <1>1, <2>1, RecoveryTypes DEF RefuseOutdated, Same
  <2>2. CASE RefuseReply
    BY <1>1, <2>2, RecoveryTypes DEF RefuseReply, Same
  <2>3. CASE ApplyEffects
    BY <1>1, <2>3 DEF ApplyEffects, Same, Loops, Faces
  <2>4. ASSUME NEW placed \in BOOLEAN, NEW realtime \in BOOLEAN, PlaceReply(placed, realtime)
        PROVE  /\ intake' \in Intakes /\ turn' \in Replies /\ app' \in Loops
               /\ play' \in Playouts /\ face' \in Faces
    <3>. DEFINE r == handoff.req
                t == [gen |-> turn.gen + 1, token |-> NextToken(turn.token), accepting |-> TRUE,
                      owner |-> r.serial]
    <3>1. t \in Replies
      <4>1. turn.gen < Exhausted - 1 /\ turn.gen \in Numbers /\ turn.token \in Numbers
        BY <2>4 DEF PlaceReply, Replies
      <4>2. turn.gen + 1 \in Numbers
        BY <4>1, ReceiverConstants DEF Numbers
      <4>. QED BY <1>1, <4>1, <4>2, NextNumbers DEF Replies
    <3>2. turn' = t /\ (placed => CanEstablish)
      BY <2>4 DEF PlaceReply
    <3>3. intake' = Opened(t) \/ intake' = intake
      BY <2>4 DEF PlaceReply
    <3>4. play' = IF placed THEN Established(t) ELSE play
      BY <2>4 DEF PlaceReply
    <3>5. app' \in Loops
      BY <1>1, <2>4 DEF PlaceReply, Loops
    <3>6. face' \in Faces
      BY <2>4 DEF PlaceReply, Faces
    <3>. HIDE DEF t
    <3>. QED BY <3>1, <3>2, <3>3, <3>4, <3>5, <3>6, Opening
  <2>. QED BY <2>1, <2>2, <2>3, <2>4 DEF PollStart
<1>. QED BY <1>1, <1>2 DEF LinkOK, SoundOK

\* The admission and its review.
LEMMA AdmitTypes ==
    ASSUME Typed, Admit \/ ReviewAdmission
    PROVE  Typed'
<1>. USE DEF Typed
<1>1. app.adm \in Requests /\ app.adm.serial \in Numbers /\ app.handled \in Numbers
  BY DEF Loops, Requests
<1>2. \A at \in {"review", "playout"} : [app EXCEPT !.at = at] \in Loops
  BY DEF Loops
<1>3. [app EXCEPT !.at = "playout", !.adm = NoRequest, !.placed = FALSE] \in Loops
  BY EmptyWords DEF Loops
<1>4. [handoff EXCEPT !.admitted = [serial |-> app.adm.serial, gen |-> turn.gen,
                                    token |-> turn.token]] \in Handoffs
  BY <1>1 DEF Handoffs, Admissions, Replies
<1>5. CASE Admit
  <2>1. /\ handoff' \in Handoffs /\ app' \in Loops /\ turn' \in Replies /\ play' \in Playouts
        /\ face' \in Faces
    BY <1>1, <1>2, <1>4, <1>5, RecoveryTypes DEF Admit, Go, Same
  <2>. QED BY <1>5, <2>1 DEF Admit, LinkOK, SoundOK
<1>6. CASE ReviewAdmission
  <2>1. app' \in Loops /\ turn' \in Replies /\ play' \in Playouts /\ face' \in Faces
    BY <1>1, <1>3, <1>6, RecoveryTypes DEF ReviewAdmission, Leave, Same
  <2>. QED BY <1>6, <2>1 DEF ReviewAdmission, LinkOK, SoundOK
<1>. QED BY <1>5, <1>6

\* The polls of the playout.
LEMMA PlayoutTypes ==
    ASSUME Typed, PollPlayout \/ CollectStop \/ Quiet
    PROVE  Typed'
<1>. USE DEF Typed
<1>1. \A at \in {"start", "collect"} : [app EXCEPT !.at = at] \in Loops
  BY DEF Loops
<1>2. CASE PollPlayout
  <2>1. [intake EXCEPT !.lock = "app"] \in Intakes
    BY DEF Intakes
  <2>2. [play EXCEPT !.stamp = 0] \in Playouts
    BY EmptyWords DEF Playouts
  <2>3. /\ intake' \in Intakes /\ app' \in Loops /\ turn' \in Replies /\ play' \in Playouts
        /\ face' \in Faces
    <3>1. CASE NothingPolled
      BY <1>1, <3>1 DEF NothingPolled, Go, Same
    <3>2. CASE ReplyLost
      BY <1>1, <2>2, <3>2, RecoveryTypes DEF ReplyLost, Go, Same
    <3>3. CASE ReplyFails \/ StopFault
      BY <1>1, <3>3, RecoveryTypes DEF ReplyFails, StopFault, Go, Same
    <3>4. CASE LockIntake
      BY <1>1, <2>1, <3>4 DEF LockIntake, Go, Same
    <3>. QED BY <1>2, <3>1, <3>2, <3>3, <3>4 DEF PollPlayout
  <2>. QED BY <1>2, <2>3 DEF PollPlayout, LinkOK, SoundOK
<1>3. CASE CollectStop
  <2>1. intake' \in Intakes /\ app' \in Loops
    BY <1>1, <1>3 DEF CollectStop, Go, Intakes
  <2>2. intake.stop.received \in Clock
    BY DEF Intakes, Stops
  <2>3. [play EXCEPT !.begun = TRUE, !.received = intake.stop.received] \in Playouts
    BY <2>2 DEF Playouts
  <2>4. Continue(intake.stop) => turn' \in Replies /\ play' \in Playouts /\ face' \in Faces
    <3>1. Abandoned.gen \in Numbers /\ Abandoned.token \in Numbers
      BY GivenUp DEF Replies
    <3>2. [play EXCEPT !.gen = Abandoned.gen, !.token = Abandoned.token, !.begun = FALSE,
                       !.origin = "interrupt", !.received = intake.stop.received] \in Playouts
      BY <2>2, <3>1 DEF Playouts
    <3>3. [phase |-> "pending", device |-> "speaking", uplink |-> FALSE] \in Faces
      BY DEF Faces
    <3>. QED BY <3>2, <3>3, GivenUp DEF Continue
  <2>5. turn' \in Replies /\ play' \in Playouts /\ face' \in Faces
    BY <1>3, <2>3, <2>4, RecoveryTypes DEF CollectStop, Same
  <2>. QED BY <1>3, <2>1, <2>5 DEF CollectStop, LinkOK, SoundOK
<1>4. CASE Quiet
  <2>1. app' \in Loops /\ face' \in Faces
    BY <1>1, <1>4 DEF Quiet, Go, Faces
  <2>. QED BY <1>4, <2>1 DEF Quiet, LinkOK, SoundOK
<1>. QED BY <1>2, <1>3, <1>4

\* The end of a reply, the listen after it, and the way to an armed listener.
LEMMA RearmTypes ==
    ASSUME Typed, Rearm \/ StopListening
    PROVE  Typed'
<1>. USE DEF Typed
<1>1. \A complete \in BOOLEAN : GoQuiet(complete) =>
          app' \in Loops /\ face' \in Faces /\ intake' \in Intakes
  <2>1. [app EXCEPT !.at = "quiet"] \in Loops
    BY DEF Loops
  <2>2. [face EXCEPT !.phase = "idle", !.uplink = FALSE] \in Faces
    BY DEF Faces
  <2>3. play.stamp \in Numbers
    BY DEF Playouts
  <2>4. \A n \in Numbers : [intake EXCEPT !.idle = n] \in Intakes
    BY DEF Intakes
  <2>. QED BY <2>1, <2>2, <2>3, <2>4, EmptyWords DEF GoQuiet, Go
<1>2. CASE SettleRecovery
  <2>1. face' \in Faces
    BY <1>2 DEF SettleRecovery, Faces
  <2>. QED BY <1>2, <2>1 DEF SettleRecovery, LinkOK, SoundOK
<1>3. CASE EndReply
  BY <1>1, <1>3 DEF EndReply, LinkOK, SoundOK
<1>4. CASE RequestListen \/ ArmListener
  <2>1. face' \in Faces
    <3>1. CASE RequestListen
      BY <3>1 DEF RequestListen, Faces
    <3>2. CASE ArmListener
      BY <3>2 DEF ArmListener, Faces
    <3>. QED BY <1>4, <3>1, <3>2
  <2>. QED BY <1>4, <2>1 DEF RequestListen, ArmListener, LinkOK, SoundOK
<1>5. CASE StopListening
  <2>1. Event
    BY <1>5 DEF StopListening
  <2>2. tally' \in Clock
    BY <2>1, ReceiverConstants DEF Event, Clock
  <2>. QED BY <1>1, <1>5, <2>2 DEF StopListening, LinkOK, SoundOK
<1>. QED BY <1>2, <1>3, <1>4, <1>5 DEF Rearm

\* A listen, whether a reply of its own is opened for it or not.
LEMMA ListenTypes ==
    ASSUME Typed, BeginListen
    PROVE  intake' \in Intakes /\ turn' \in Replies /\ play' \in Playouts /\ face' \in Faces
<1>. USE DEF Typed
<1>. DEFINE kept == play.stamp # 0 /\ Mine(play) /\ OwnReply
            new == [turn EXCEPT !.gen = @ + 1, !.token = NextToken(@), !.owner = 0]
            t == IF kept THEN turn ELSE new
            reply == IF kept THEN play ELSE Established(t)
            seen == IF kept THEN intake ELSE Opened(t)
<1>1. CASE face.phase = "pending" \/ (~kept /\ turn.gen >= Exhausted - 1)
  BY <1>1, Zenon DEF BeginListen, Same
<1>2. CASE ~(face.phase = "pending" \/ (~kept /\ turn.gen >= Exhausted - 1))
  <2>1. t \in Replies
    <3>1. ~kept => new \in Replies
      <4>1. turn.gen \in Numbers /\ turn.token \in Numbers
        BY DEF Replies
      <4>2. ~kept => turn.gen + 1 \in Numbers
        BY <1>2, <4>1, ReceiverConstants DEF Numbers
      <4>. QED BY <4>1, <4>2, NextNumbers, EmptyWords DEF Replies
    <3>. QED BY <3>1
  <2>2. /\ turn' = t
        /\ \/ /\ kept \/ (CanEstablish /\ t.token # Exhausted)
              /\ intake' = [seen EXCEPT !.idle = 0]
              /\ play' = [reply EXCEPT !.origin = "local", !.recovery = FALSE]
              /\ face' = [phase |-> "pending", device |-> "speaking", uplink |-> FALSE]
           \/ /\ ~(kept \/ (CanEstablish /\ t.token # Exhausted))
              /\ intake' \in {intake, seen} /\ play' = play /\ face' = face
    BY <1>2 DEF BeginListen, Same
  <2>. HIDE DEF t
  <2>3. seen \in Intakes
    BY <2>1, Opening
  <2>4. kept \/ (CanEstablish /\ t.token # Exhausted) => reply \in Playouts
    BY <2>1, Opening
  <2>. HIDE DEF seen, reply, kept
  <2>5. \A i \in Intakes : [i EXCEPT !.idle = 0] \in Intakes
    BY EmptyWords DEF Intakes
  <2>6. \A p \in Playouts : [p EXCEPT !.origin = "local", !.recovery = FALSE] \in Playouts
    BY DEF Playouts
  <2>7. [phase |-> "pending", device |-> "speaking", uplink |-> FALSE] \in Faces
    BY DEF Faces
  <2>. QED BY <2>1, <2>2, <2>3, <2>4, <2>5, <2>6, <2>7
<1>. QED BY <1>1, <1>2

\* What the user does.
LEMMA UserTypes ==
    ASSUME Typed, StartListening \/ ResumeListening \/ \E resume \in BOOLEAN : Abort(resume)
    PROVE  Typed'
<1>. USE DEF Typed
<1>1. Event => tally' \in Clock
  BY ReceiverConstants DEF Event, Clock
<1>2. CASE StartListening
  <2>1. BeginListen /\ Event
    BY <1>2 DEF StartListening
  <2>. QED BY <1>1, <1>2, <2>1, ListenTypes DEF StartListening, LinkOK, SoundOK
<1>3. CASE ResumeListening
  <2>1. app' \in Loops
    BY <1>3 DEF ResumeListening, Go, Loops
  <2>2. intake' \in Intakes /\ turn' \in Replies /\ play' \in Playouts /\ face' \in Faces
    BY <1>3, ListenTypes DEF ResumeListening, Same
  <2>. QED BY <1>3, <2>1, <2>2 DEF ResumeListening, LinkOK, SoundOK
<1>4. ASSUME NEW resume \in BOOLEAN, Abort(resume)
      PROVE  Typed'
  <2>1. Event
    BY <1>4 DEF Abort
  <2>2. NextToken(turn.token) \in Numbers
    BY NextNumbers DEF Replies
  <2>3. turn' \in Replies
    BY <1>4, <2>2, EmptyWords DEF Abort, Replies
  <2>4. play' \in Playouts
    BY <1>4, <2>2 DEF Abort, Playouts
  <2>5. face' \in Faces /\ app' \in Loops
    BY <1>4 DEF Abort, Faces, Go, Loops
  <2>. QED BY <1>1, <1>4, <2>1, <2>3, <2>4, <2>5 DEF Abort, LinkOK, SoundOK
<1>. QED BY <1>2, <1>3, <1>4

\* The connection and the clock.
LEMMA ConnectionTypes ==
    ASSUME Typed, Connected, LoseSource \/ SelectSource \/ PassDeadline
    PROVE  Typed'
<1>. USE DEF Typed
<1>1. CASE LoseSource
  <2>1. Event /\ link' = [link EXCEPT !.source = 0]
    BY <1>1 DEF LoseSource
  <2>2. LinkOK' /\ tally' \in Clock
    BY <2>1, EmptyWords, ReceiverConstants DEF Event, Clock, LinkOK
  <2>. QED BY <1>1, <2>2 DEF LoseSource, SoundOK
<1>2. CASE SelectSource
  <2>1. link.source = 0 /\ link' = [source |-> link.opened + 1, opened |-> link.opened + 1]
    BY <1>2 DEF SelectSource
  <2>2. link.opened + 1 \in Sources
    BY <2>1, ReceiverConstants DEF Connected, LinkOK, Sources, Clock
  <2>3. app' \in Loops
    BY <1>2, EmptyWords DEF SelectSource, Loops
  <2>. QED BY <1>2, <2>1, <2>2, <2>3 DEF SelectSource, LinkOK, SoundOK
<1>3. CASE PassDeadline
  <2>1. handoff' \in Handoffs
    BY <1>3 DEF PassDeadline, Handoffs
  <2>. QED BY <1>3, <2>1 DEF PassDeadline, LinkOK, SoundOK
<1>. QED BY <1>1, <1>2, <1>3

\* Every step keeps the types.
LEMMA TypeStep ==
    ASSUME TypeOK, Connected, Next
    PROVE  TypeOK'
<1>1. Typed
  BY TypeParts
<1>2. Typed'
  BY <1>1, StartTypes, StopTypes, SoundTypes, PollStartTypes, AdmitTypes, PlayoutTypes, RearmTypes,
     UserTypes, ConnectionTypes DEF Next, ReceiverStep, Hear, Loop, User
<1>3. Typed' => TypeOK'
  BY TypeParts, PTL
<1>. QED BY <1>2, <1>3

\* So is the count of the sources.
LEMMA ConnectedStep ==
    ASSUME Typed, Connected, Next
    PROVE  Connected'
<1>. USE DEF Typed
<1>1. link.source \in Sources /\ link.opened \in Nat /\ tally \in Nat /\ link.opened # 0
  BY ReceiverConstants DEF LinkOK, Sources, Clock, Connected
<1>2. CASE LoseSource
  <2>1. link' = [link EXCEPT !.source = 0] /\ Event
    BY <1>2 DEF LoseSource
  <2>. QED BY <1>1, <2>1 DEF Connected, Event, LinkOK
<1>3. CASE SelectSource
  <2>1. /\ link.source = 0 /\ link' = [source |-> link.opened + 1, opened |-> link.opened + 1]
        /\ tally' = tally
    BY <1>3 DEF SelectSource
  <2>. QED BY <1>1, <2>1 DEF Connected
<1>4. ASSUME UNCHANGED link, Event \/ UNCHANGED tally
      PROVE  Connected'
  BY <1>1, <1>4 DEF Connected, Event
<1>5. CASE ReceiverStep \/ HearStart \/ HearAudio \/ CompleteReset \/ PlayPacket \/ PassDeadline
  BY <1>4, <1>5 DEF ReceiverStep, HearStart, SampleClock, Confirm, Await, LockStop, WriteStop,
     HearAudio, CompleteReset, PlayPacket, PassDeadline
<1>6. CASE (\E form \in Forms : HearStop(form)) \/ User
  BY <1>4, <1>6 DEF HearStop, User, StartListening, StopListening, Abort
<1>7. CASE Loop \/ Rearm
  BY <1>4, <1>7 DEF Loop, PollStart, Admit, ReviewAdmission, PollPlayout, CollectStop, Quiet,
     ResumeListening, Rearm, SettleRecovery, EndReply, RequestListen, ArmListener
<1>. QED BY <1>2, <1>3, <1>5, <1>6, <1>7 DEF Next, Hear

-----------------------------------------------------------------------------
(* Which STOP ends which reply. *)

StopInv == Stamped /\ Clocked /\ StopEndsItsOwnReply

Writing == {"lock", "write"}

\* A step that leaves the stamps and the STOPs where they are.
SameWords ==
    /\ intake'.seq = intake.seq /\ intake'.stop = intake.stop
    /\ intake'.fault = intake.fault /\ intake'.writing = intake.writing
    /\ rx'.stop = rx.stop /\ rx'.ended = rx.ended
    /\ rx'.at \in Writing <=> rx.at \in Writing

\* What the playout says of a STOP.
Claims(p, ended) ==
    /\ p.stamp # 0 /\ (p.begun \/ p.origin = "interrupt")
         => ended = [stamp |-> p.stamp, received |-> p.received]
    /\ p.recovery /\ p.blamed /\ p.stamp # 0 => ended.stamp = p.stamp

\* The numbers the invariant compares.
LEMMA StampNumbers ==
    ASSUME Typed
    PROVE  /\ intake.seq \in Nat /\ intake.seq <= Exhausted /\ play.stamp \in Nat
           /\ rx.ended.stamp \in Nat /\ intake.stop.stamp \in Nat /\ intake.fault \in Nat
           /\ intake.writing \in Nat /\ rx.stop.stamp \in Nat
           /\ rx.ended = [stamp |-> rx.ended.stamp, received |-> rx.ended.received]
           /\ intake.stop \in Stops /\ rx.stop \in Stops
<1>1. /\ {intake.seq, intake.fault, intake.writing, play.stamp} \subseteq Numbers
      /\ intake.stop \in Stops /\ rx.stop \in Stops /\ rx.ended \in Endings
  BY DEF Typed, Intakes, Playouts, Receivers
<1>2. /\ rx.ended.stamp \in Numbers /\ intake.stop.stamp \in Numbers /\ rx.stop.stamp \in Numbers
      /\ rx.ended = [stamp |-> rx.ended.stamp, received |-> rx.ended.received]
  BY <1>1 DEF Endings, Stops
<1>. QED BY <1>1, <1>2, ReceiverConstants DEF Numbers

\* A step that only changes what the playout says of its own response.
LEMMA WordsKept ==
    ASSUME Typed, StopInv, SameWords,
           \/ play'.stamp = 0
           \/ play'.stamp = play.stamp /\ Claims(play', rx.ended)
    PROVE  StopInv'
<1>1. Stamped' /\ Clocked'
  BY StampNumbers DEF StopInv, SameWords, Stamped, Clocked, Writing
<1>2. StopEndsItsOwnReply'
  BY DEF SameWords, StopEndsItsOwnReply, Claims
<1>. QED BY <1>1, <1>2 DEF StopInv

\* A new response leaves the STOPs of the last behind.
LEMMA WordsLeft ==
    ASSUME Typed, StopInv, NEW t \in Replies,
           rx' = rx, intake'.seq = Opened(t).seq, intake'.stop = intake.stop,
           intake'.fault = intake.fault, intake'.writing = intake.writing,
           \/ ~CanEstablish /\ play' = play
           \/ /\ CanEstablish /\ play'.stamp = intake.seq + 1
              /\ ~play'.begun /\ play'.origin # "interrupt" /\ ~play'.recovery
    PROVE  StopInv'
<1>1. /\ CanEstablish => intake'.seq = intake.seq + 1
      /\ ~CanEstablish => intake'.seq = Exhausted
  BY DEF Opened, Typed, Intakes
<1>2. Stamped' /\ Clocked'
  BY <1>1, StampNumbers, ReceiverConstants DEF StopInv, Stamped, Clocked, CanEstablish
<1>3. StopEndsItsOwnReply'
  BY DEF StopInv, StopEndsItsOwnReply
<1>. QED BY <1>2, <1>3 DEF StopInv

\* The claims of the playout hold as long as nobody touches them.
LEMMA PlayKept == StopInv /\ SameWords /\ play' = play => Claims(play', rx.ended)
<1>. QED BY DEF StopInv, StopEndsItsOwnReply, Claims

\* A STOP is heard: the first of its response, a later one, or one that is a fault.
LEMMA HearStopInv ==
    ASSUME Typed, StopInv, NEW form \in Forms, HearStop(form)
    PROVE  StopInv'
<1>1. play' = play /\ rx.at = "idle"
  BY DEF HearStop
<1>2. CASE rx' = [rx EXCEPT !.speech = 0] /\ intake' = intake
  <2>1. SameWords
    BY <1>2 DEF SameWords, Typed, Receivers
  <2>. QED BY <1>1, <2>1, WordsKept, PlayKept
<1>3. CASE StampCurrent(intake.seq) /\ ~(rx' = [rx EXCEPT !.speech = 0] /\ intake' = intake)
  <2>. DEFINE captured == AllowsDecode(intake.token)
              stop == [stamp |-> intake.seq, form |-> Understood(form, captured),
                       received |-> tally', captured |-> captured]
              first == [stamp |-> intake.seq, received |-> tally']
              faulted == intake.fault = intake.seq \/ stop.form = "nameless"
              ended == IF rx.ended.stamp = intake.seq THEN rx.ended ELSE first
  <2>1. /\ rx' = [rx EXCEPT !.at = IF faulted THEN "idle" ELSE "lock",
                           !.stop = IF faulted THEN NoStop ELSE stop,
                           !.audio = SealedAudio, !.speech = 0, !.ended = ended]
        /\ intake' = IF faulted THEN [intake EXCEPT !.fault = intake.seq]
                     ELSE [intake EXCEPT !.writing = intake.seq]
    BY <1>3, Zenon DEF HearStop
  <2>2. /\ rx'.ended = ended /\ rx'.at = IF faulted THEN "idle" ELSE "lock"
        /\ ~faulted => rx'.stop = stop
    BY <2>1 DEF Typed, Receivers
  <2>3. /\ intake'.seq = intake.seq /\ intake'.stop = intake.stop
        /\ faulted => intake'.fault = intake.seq /\ intake'.writing = intake.writing
        /\ ~faulted => intake'.fault = intake.fault /\ intake'.writing = intake.seq
        /\ ~faulted => intake.fault # intake.seq
    BY <2>1 DEF Typed, Intakes
  <2>4. stop.stamp = intake.seq /\ stop.received = tally'
    OBVIOUS
  <2>5. ended.stamp = intake.seq /\ (rx.ended.stamp = intake.seq => ended = rx.ended)
        /\ (rx.ended.stamp # intake.seq => ended.received = tally')
    OBVIOUS
  <2>6. intake.seq # 0 /\ intake.seq # Exhausted
    BY <1>3 DEF StampCurrent
  <2>. HIDE DEF stop, faulted, ended
  <2>7. Stamped'
    BY <1>1, <2>2, <2>3, <2>5, <2>6, StampNumbers DEF StopInv, Stamped
  <2>8. Clocked'
    BY <1>1, <2>2, <2>3, <2>4, <2>5, <2>6, StampNumbers DEF StopInv, Stamped, Clocked
  <2>9. StopEndsItsOwnReply'
    BY <1>1, <2>2, <2>5, <2>6, StampNumbers DEF StopInv, Stamped, StopEndsItsOwnReply
  <2>. QED BY <2>7, <2>8, <2>9 DEF StopInv
<1>. QED BY <1>2, <1>3, Zenon DEF HearStop

\* The receiver gets the lock and writes what it heard, or gives it up as a fault.
LEMMA WriteStopInv ==
    ASSUME Typed, StopInv, LockStop \/ WriteStop
    PROVE  StopInv'
<1>1. play' = play
  BY DEF LockStop, WriteStop
<1>2. CASE LockStop
  <2>1. CASE rx' = [rx EXCEPT !.at = "write"] /\ intake' = [intake EXCEPT !.lock = "receiver"]
    <3>1. SameWords
      BY <1>2, <2>1 DEF LockStop, SameWords, Writing, Typed, Receivers, Intakes
    <3>. QED BY <1>1, <3>1, WordsKept, PlayKept
  <2>2. CASE Contended
    <3>1. /\ rx'.at = "idle" /\ rx'.ended = rx.ended /\ rx.at = "lock"
          /\ intake'.fault = rx.stop.stamp
          /\ intake'.seq = intake.seq /\ intake'.stop = intake.stop
          /\ intake'.writing = intake.writing
      BY <1>2, <2>2 DEF LockStop, Contended, PutDown, Typed, Receivers, Intakes
    <3>2. Stamped' /\ Clocked'
      BY <1>1, <3>1, StampNumbers DEF StopInv, Stamped, Clocked
    <3>3. StopEndsItsOwnReply'
      BY <1>1, <3>1 DEF StopInv, StopEndsItsOwnReply
    <3>. QED BY <3>2, <3>3 DEF StopInv
  <2>. QED BY <1>2, <2>1, <2>2 DEF LockStop
<1>3. CASE WriteStop
  <2>1. /\ rx'.at = "idle" /\ rx'.ended = rx.ended /\ rx.at = "write"
    BY <1>3 DEF WriteStop, PutDown, Typed, Receivers
  <2>2. /\ intake'.seq = intake.seq /\ intake'.fault = intake.fault
        /\ intake'.writing = intake.writing
        /\ \/ intake'.stop = intake.stop /\ ~StampCurrent(rx.stop.stamp)
           \/ intake'.stop = intake.stop /\ intake.stop.stamp = rx.stop.stamp
           \/ intake'.stop = rx.stop /\ intake.stop.stamp # rx.stop.stamp
           \/ intake'.stop = Different(rx.stop) /\ intake.stop.stamp = rx.stop.stamp
    <3>1. \A i \in Intakes : \A stop, conflict :
            LET j == [[i EXCEPT !.lock = "free"] EXCEPT !.stop = stop, !.conflict = conflict] IN
            j.seq = i.seq /\ j.fault = i.fault /\ j.writing = i.writing /\ j.stop = stop
      BY DEF Intakes
    <3>2. LET j == [intake EXCEPT !.lock = "free"] IN
            j.seq = intake.seq /\ j.fault = intake.fault /\ j.writing = intake.writing
            /\ j.stop = intake.stop
      BY DEF Typed, Intakes
    <3>. QED BY <1>3, <3>1, <3>2 DEF WriteStop, Typed
  <2>3. Different(rx.stop).stamp = rx.stop.stamp /\ Different(rx.stop).received = intake.stop.received
    BY StampNumbers DEF Different, Stops
  <2>4. Stamped'
    BY <1>1, <2>1, <2>2, <2>3, StampNumbers DEF StopInv, Stamped, Clocked
  <2>5. Clocked'
    BY <2>1, <2>2, <2>3, StampNumbers DEF StopInv, Stamped, Clocked, StampCurrent
  <2>6. StopEndsItsOwnReply'
    BY <1>1, <2>1 DEF StopInv, StopEndsItsOwnReply
  <2>. QED BY <2>4, <2>5, <2>6 DEF StopInv
<1>. QED BY <1>2, <1>3

\* A recovery is blamed on a STOP of its own response, or on none.
LEMMA RecoveryClaims ==
    ASSUME Typed, StopInv
    PROVE  /\ \A blame \in BOOLEAN :
                 /\ RecoverPlayout(blame)
                 /\ blame => play.stamp = 0 \/ rx.ended.stamp = play.stamp
                 => play'.stamp = play.stamp /\ Claims(play', rx.ended)
           /\ \A r \in Requests, seen \in Numbers : RecoverStart(r, seen)
                 => play'.stamp = play.stamp /\ Claims(play', rx.ended)
<1>1. Claims(play, rx.ended)
  BY DEF StopInv, StopEndsItsOwnReply, Claims
<1>2. \A blame \in BOOLEAN :
         LET p == [play EXCEPT !.recovery = TRUE, !.blamed = blame] IN
         (blame => play.stamp = 0 \/ rx.ended.stamp = play.stamp)
           => p.stamp = play.stamp /\ Claims(p, rx.ended)
  BY <1>1 DEF Typed, Playouts, Claims
<1>3. \A s : LET p == [play EXCEPT !.recovery = TRUE, !.blamed = FALSE, !.source = s] IN
         p.stamp = play.stamp /\ Claims(p, rx.ended)
  BY <1>1 DEF Typed, Playouts, Claims
<1>4. ASSUME NEW blame \in BOOLEAN, RecoverPlayout(blame),
             blame => play.stamp = 0 \/ rx.ended.stamp = play.stamp
      PROVE  play'.stamp = play.stamp /\ Claims(play', rx.ended)
  BY <1>1, <1>2, <1>4 DEF RecoverPlayout, Same
<1>5. ASSUME NEW r \in Requests, NEW seen \in Numbers, RecoverStart(r, seen)
      PROVE  play'.stamp = play.stamp /\ Claims(play', rx.ended)
  <2>1. play' = play \/ play' = [play EXCEPT !.recovery = TRUE, !.blamed = FALSE, !.source = r.source]
    BY <1>5, Zenon DEF RecoverStart, Same
  <2>. QED BY <1>1, <1>3, <2>1
<1>. QED BY <1>4, <1>5

\* The receiver's own steps besides the STOPs, the sound, the connection, the clock.
LEMMA QuietSteps ==
    ASSUME Typed, StopInv,
           \/ HearStart \/ SampleClock \/ Confirm \/ Await
           \/ HearAudio \/ CompleteReset \/ PlayPacket
           \/ LoseSource \/ SelectSource \/ PassDeadline
    PROVE  StopInv'
<1>1. play' = play
  BY DEF HearStart, SampleClock, Confirm, Await, HearAudio, CompleteReset, PlayPacket, LoseSource,
     SelectSource, PassDeadline
<1>2. SameWords
  <2>1. CASE HearStart \/ SampleClock \/ Confirm \/ Await
    <3>1. intake' = intake /\ rx.at \notin Writing
      BY <2>1 DEF HearStart, SampleClock, Confirm, Await, Writing
    <3>2. rx'.stop = rx.stop /\ rx'.ended = rx.ended /\ rx'.at \notin Writing
      BY <2>1 DEF HearStart, SampleClock, Confirm, Await, Typed, Receivers, Writing
    <3>. QED BY <3>1, <3>2 DEF SameWords
  <2>2. CASE HearAudio \/ CompleteReset \/ PlayPacket \/ LoseSource \/ SelectSource \/ PassDeadline
    BY <2>2 DEF HearAudio, CompleteReset, PlayPacket, LoseSource, SelectSource, PassDeadline, SameWords
  <2>. QED BY <2>1, <2>2
<1>. QED BY <1>1, <1>2, WordsKept, PlayKept

\* A START is polled, admitted or refused.
LEMMA StartPolls ==
    ASSUME Typed, StopInv, PollStart \/ Admit \/ ReviewAdmission
    PROVE  StopInv'
<1>1. /\ handoff.req \in Requests /\ handoff.req.serial \in Numbers
      /\ app.adm \in Requests /\ app.handled \in Numbers /\ rx' = rx
  BY DEF Typed, Handoffs, Loops, Requests, PollStart, Admit, ReviewAdmission
<1>2. ASSUME intake' = intake, play' = play \/ \E r \in Requests, seen \in Numbers : RecoverStart(r, seen)
      PROVE  StopInv'
  <2>1. SameWords
    BY <1>1, <1>2 DEF SameWords
  <2>. QED BY <1>2, <2>1, WordsKept, PlayKept, RecoveryClaims
<1>3. CASE Admit \/ ReviewAdmission
  <2>1. intake' = intake /\ (play' = play \/ RecoverStart(app.adm, app.handled))
    BY <1>3 DEF Admit, ReviewAdmission, Same
  <2>. QED BY <1>1, <1>2, <2>1
<1>4. CASE PollStart
  <2>1. CASE RefuseOutdated \/ RefuseReply \/ ApplyEffects
    <3>1. /\ intake' = intake
          /\ \/ play' = play \/ RecoverStart(handoff.req, app.handled)
             \/ RecoverStart(handoff.req, handoff.req.serial)
      BY <2>1 DEF RefuseOutdated, RefuseReply, ApplyEffects, Same
    <3>. QED BY <1>1, <1>2, <3>1
  <2>2. ASSUME NEW placed \in BOOLEAN, NEW realtime \in BOOLEAN, PlaceReply(placed, realtime)
        PROVE  StopInv'
    <3>. DEFINE t == [gen |-> turn.gen + 1, token |-> NextToken(turn.token), accepting |-> TRUE,
                      owner |-> handoff.req.serial]
    <3>1. CASE ~placed /\ intake' = intake
      <4>1. play' = play
        BY <2>2, <3>1 DEF PlaceReply
      <4>. QED BY <1>2, <3>1, <4>1
    <3>2. CASE intake' = Opened(t) /\ (placed \/ ~CanEstablish)
      <4>1. turn' = t /\ t \in Replies
        BY <1>1, <2>2, PollStartTypes, <1>4 DEF PlaceReply, Typed
      <4>2. /\ \/ ~CanEstablish /\ play' = play
               \/ CanEstablish /\ play' = Established(t)
        BY <2>2, <3>2 DEF PlaceReply
      <4>3. /\ Established(t).stamp = intake.seq + 1 /\ ~Established(t).begun
            /\ Established(t).origin = "drain" /\ ~Established(t).recovery
        BY DEF Established
      <4>4. /\ intake'.stop = intake.stop /\ intake'.fault = intake.fault
            /\ intake'.writing = intake.writing
        BY <3>2 DEF Opened, Typed, Intakes
      <4>. HIDE DEF t
      <4>. QED BY <1>1, <3>2, <4>1, <4>2, <4>3, <4>4, WordsLeft
    <3>. QED BY <2>2, <3>1, <3>2 DEF PlaceReply
  <2>. QED BY <1>4, <2>1, <2>2 DEF PollStart
<1>. QED BY <1>3, <1>4

\* The playout collects a STOP or a fault of its own response, or fails by itself.
LEMMA PlayoutPolls ==
    ASSUME Typed, StopInv, PollPlayout \/ CollectStop
    PROVE  StopInv'
<1>1. rx' = rx
  BY DEF PollPlayout, CollectStop
<1>2. CASE PollPlayout
  <2>1. SameWords
    BY <1>1, <1>2 DEF PollPlayout, NothingPolled, ReplyLost, ReplyFails, StopFault, LockIntake, Same,
       SameWords, Typed, Intakes
  <2>2. CASE NothingPolled \/ LockIntake
    BY <2>1, <2>2, WordsKept, PlayKept DEF NothingPolled, LockIntake, Same
  <2>3. CASE ReplyLost
    <3>1. RecoverPlayout(FALSE) \/ play' = [play EXCEPT !.stamp = 0]
      BY <2>3 DEF ReplyLost
    <3>2. play' = [play EXCEPT !.stamp = 0] => play'.stamp = 0
      BY DEF Typed, Playouts
    <3>. QED BY <2>1, <3>1, <3>2, WordsKept, RecoveryClaims
  <2>4. CASE ReplyFails
    BY <2>1, <2>4, WordsKept, RecoveryClaims DEF ReplyFails
  <2>5. CASE StopFault
    <3>1. RecoverPlayout(TRUE) /\ play.stamp # 0
          /\ play.stamp \in {intake.fault, intake.writing, intake.stop.stamp}
      BY <2>5 DEF StopFault, Polling, Told
    <3>2. rx.ended.stamp = play.stamp
      BY <3>1, StampNumbers DEF StopInv, Stamped
    <3>. QED BY <2>1, <3>1, <3>2, WordsKept, RecoveryClaims
  <2>. QED BY <1>2, <2>2, <2>3, <2>4, <2>5 DEF PollPlayout
<1>3. CASE CollectStop
  <2>1. SameWords
    BY <1>1, <1>3 DEF CollectStop, SameWords, Typed, Intakes
  <2>2. CASE play' = play
    BY <2>1, <2>2, WordsKept, PlayKept
  <2>3. CASE play' # play
    <3>1. intake.stop.stamp = play.stamp
      BY <1>3, <2>3 DEF CollectStop, Same
    <3>2. play.stamp # 0 => rx.ended = [stamp |-> play.stamp, received |-> intake.stop.received]
      BY <3>1, StampNumbers DEF StopInv, Stamped, Clocked
    <3>3. \/ RecoverPlayout(TRUE)
          \/ play' = [play EXCEPT !.begun = TRUE, !.received = intake.stop.received]
          \/ play' = [play EXCEPT !.gen = Abandoned.gen, !.token = Abandoned.token, !.begun = FALSE,
                                  !.origin = "interrupt", !.received = intake.stop.received]
      BY <1>3, <2>3, Zenon DEF CollectStop, Continue, Same
    <3>4. CASE RecoverPlayout(TRUE)
      <4>1. play.stamp = 0 \/ rx.ended.stamp = play.stamp
        BY <3>2
      <4>. QED BY <2>1, <3>4, <4>1, WordsKept, RecoveryClaims
    <3>5. CASE ~RecoverPlayout(TRUE)
      <4>1. /\ play'.stamp = play.stamp /\ play'.received = intake.stop.received
            /\ play'.recovery = play.recovery /\ play'.blamed = play.blamed
        BY <3>3, <3>5 DEF Typed, Playouts
      <4>2. Claims(play', rx.ended)
        BY <3>2, <4>1, PlayKept DEF Claims, StopInv, StopEndsItsOwnReply
      <4>. QED BY <2>1, <4>1, <4>2, WordsKept
    <3>. QED BY <3>4, <3>5
  <2>. QED BY <2>2, <2>3
<1>. QED BY <1>2, <1>3

\* A listen keeps the response it finds, or opens one of its own.
LEMMA ListenStops ==
    ASSUME Typed, StopInv, BeginListen, rx' = rx
    PROVE  StopInv'
<1>. DEFINE kept == play.stamp # 0 /\ Mine(play) /\ OwnReply
            new == [turn EXCEPT !.gen = @ + 1, !.token = NextToken(@), !.owner = 0]
            t == IF kept THEN turn ELSE new
            reply == IF kept THEN play ELSE Established(t)
            seen == IF kept THEN intake ELSE Opened(t)
<1>1. CASE intake' = intake /\ play' = play
  <2>1. SameWords
    BY <1>1 DEF SameWords
  <2>. QED BY <1>1, <2>1, WordsKept, PlayKept
<1>2. CASE ~(intake' = intake /\ play' = play)
  <2>1. turn' = t /\ turn' \in Replies
    BY <1>2, ListenTypes DEF BeginListen, Same
  <2>2. \/ kept /\ intake' = [intake EXCEPT !.idle = 0]
             /\ play' = [play EXCEPT !.origin = "local", !.recovery = FALSE]
        \/ ~kept /\ CanEstablish /\ intake' = [Opened(t) EXCEPT !.idle = 0]
             /\ play' = [Established(t) EXCEPT !.origin = "local", !.recovery = FALSE]
        \/ ~kept /\ ~CanEstablish /\ intake' = Opened(t) /\ play' = play
    BY <1>2 DEF BeginListen, Same
  <2>. HIDE DEF t, kept
  <2>3. CASE kept
    <3>1. SameWords
      BY <2>2, <2>3 DEF SameWords, Typed, Intakes
    <3>2. play'.stamp = play.stamp /\ play'.origin = "local" /\ ~play'.recovery
          /\ play'.begun = play.begun /\ play'.received = play.received
      BY <2>2, <2>3 DEF Typed, Playouts
    <3>3. Claims(play', rx.ended)
      BY <3>2 DEF Claims, StopInv, StopEndsItsOwnReply
    <3>. QED BY <3>1, <3>2, <3>3, WordsKept
  <2>4. CASE ~kept
    <3>1. t \in Replies
      BY <2>1
    <3>2. Opened(t) \in Intakes
      BY <3>1, Opening
    <3>3. /\ Opened(t).stop = intake.stop /\ Opened(t).fault = intake.fault
          /\ Opened(t).writing = intake.writing
      BY DEF Opened, Typed, Intakes
    <3>4. /\ intake'.seq = Opened(t).seq /\ intake'.stop = intake.stop
          /\ intake'.fault = intake.fault /\ intake'.writing = intake.writing
      BY <2>2, <2>4, <3>2, <3>3 DEF Intakes
    <3>5. /\ Established(t).stamp = intake.seq + 1 /\ ~Established(t).begun
      BY DEF Established
    <3>6. CanEstablish => /\ play'.stamp = intake.seq + 1 /\ ~play'.begun
                          /\ play'.origin = "local" /\ ~play'.recovery
      BY <2>2, <2>4, <3>5 DEF Established
    <3>. QED BY <2>2, <2>4, <3>1, <3>4, <3>6, WordsLeft
  <2>. QED BY <2>3, <2>4
<1>. QED BY <1>1, <1>2

\* The user, the rearm, and the steps between two polls.
LEMMA UserStops ==
    ASSUME Typed, StopInv, Rearm \/ User \/ Quiet \/ ResumeListening
    PROVE  StopInv'
<1>1. rx' = rx
  BY DEF Rearm, SettleRecovery, EndReply, RequestListen, ArmListener, User, StartListening,
     StopListening, Abort, Quiet, ResumeListening
<1>2. CASE Rearm \/ StopListening \/ Quiet
  <2>1. play' = play
    BY <1>2 DEF Rearm, SettleRecovery, EndReply, RequestListen, ArmListener, StopListening, Quiet
  <2>2. intake' = intake \/ GoQuiet(TRUE) \/ \E complete : GoQuiet(complete)
    BY <1>2 DEF Rearm, SettleRecovery, EndReply, RequestListen, ArmListener, StopListening, Quiet
  <2>3. SameWords
    BY <1>1, <2>2 DEF GoQuiet, SameWords, Typed, Intakes
  <2>. QED BY <2>1, <2>3, WordsKept, PlayKept
<1>3. CASE StartListening \/ ResumeListening
  <2>1. BeginListen \/ (intake' = intake /\ play' = play)
    <3>1. CASE StartListening
      BY <3>1 DEF StartListening
    <3>2. CASE ResumeListening
      BY <3>2 DEF ResumeListening, Same
    <3>. QED BY <1>3, <3>1, <3>2
  <2>2. intake' = intake /\ play' = play => SameWords
    BY <1>1 DEF SameWords
  <2>. QED BY <1>1, <2>1, <2>2, ListenStops, WordsKept, PlayKept
<1>4. ASSUME NEW resume \in BOOLEAN, Abort(resume)
      PROVE  StopInv'
  <2>1. SameWords
    BY <1>1, <1>4 DEF Abort, SameWords
  <2>2. /\ play'.stamp = play.stamp /\ ~play'.begun /\ play'.origin = "local"
        /\ play'.recovery = play.recovery /\ play'.blamed = play.blamed
    BY <1>4 DEF Abort, Typed, Playouts
  <2>3. Claims(play', rx.ended)
    BY <2>2 DEF Claims, StopInv, StopEndsItsOwnReply
  <2>. QED BY <2>1, <2>2, <2>3, WordsKept
<1>. QED BY <1>2, <1>3, <1>4 DEF User

\* Every step keeps it.
LEMMA StopStep ==
    ASSUME Typed, StopInv, Next
    PROVE  StopInv'
<1>. QED BY HearStopInv, WriteStopInv, QuietSteps, StartPolls, PlayoutPolls, UserStops
     DEF Next, ReceiverStep, Hear, Loop

-----------------------------------------------------------------------------
(* Whose audio the decoder can play. *)

AudioInv == TokensBehind /\ Admitting /\ Speaking /\ QueueBelongs

\* The words of the two tasks that say whose the audio is.
Waiting == {"await", "decide"}

SameStart == handoff'.req = handoff.req /\ handoff'.admitted = handoff.admitted
SameAudio ==
    /\ rx'.audio = rx.audio /\ rx'.speech = rx.speech
    /\ rx'.at \in Waiting => rx.at \in Waiting
SameReply ==
    /\ turn' = turn
    /\ intake'.seq = intake.seq /\ intake'.source = intake.source /\ intake'.gen = intake.gen
SameAdmission == app'.at = "admit" => app' = app

\* The numbers the invariant compares.
LEMMA TokenNumbers ==
    ASSUME Typed
    PROVE  /\ turn.token \in Numbers /\ turn.gen \in Numbers /\ turn.token \in Int
           /\ handoff.admitted.token \in Int /\ rx.audio.token \in Int
           /\ rx.audio.source \in Int /\ handoff.req.source \in Int /\ link.opened \in Int
           /\ DOMAIN sound.queue = 1..Len(sound.queue) /\ sound.queue \in Seq(Packets)
           /\ \A i \in DOMAIN sound.queue : sound.queue[i].token \in Int
<1>1. /\ turn.token \in Numbers /\ turn.gen \in Numbers /\ handoff.admitted.token \in Numbers
      /\ rx.audio.token \in Numbers /\ rx.audio.source \in Sources
      /\ handoff.req.source \in Sources /\ link.opened \in Sources
  BY DEF Typed, Replies, Handoffs, Admissions, Requests, Receivers, Audios, LinkOK
<1>2. sound.queue \in Seq(Packets)
  BY DEF Typed, SoundOK
<1>3. /\ DOMAIN sound.queue = 1..Len(sound.queue)
      /\ \A i \in DOMAIN sound.queue : sound.queue[i].token \in Numbers
  <2>1. \A p \in Packets : p.token \in Numbers
    BY DEF Packets
  <2>2. DOMAIN sound.queue = 1..Len(sound.queue)
    BY <1>2
  <2>3. \A i \in 1..Len(sound.queue) : sound.queue[i] \in Packets
    BY <1>2
  <2>. QED BY <2>1, <2>2, <2>3
<1>4. Numbers \subseteq Int /\ Sources \subseteq Int
  BY ReceiverConstants DEF Numbers, Sources
<1>. QED BY <1>1, <1>2, <1>3, <1>4

\* A step that leaves the reply, its START and its audio alone.
LEMMA AudioKept ==
    ASSUME Typed, AudioInv, SameStart, SameAudio, SameReply, SameAdmission,
           sound'.queue = sound.queue, link'.opened = link.opened
    PROVE  AudioInv'
<1>. USE DEF AudioInv, SameStart, SameAudio, SameReply, SameAdmission
<1>1. TokensBehind'
  BY DEF TokensBehind
<1>2. Admitting'
  BY DEF Admitting, Heard, StampCurrent, Joins, TokenCurrent, Waiting
<1>3. Speaking'
  BY DEF Speaking, Heard, StampCurrent, Joins, TokenCurrent
<1>4. QueueBelongs'
  BY DEF QueueBelongs, Joins, TokenCurrent
<1>. QED BY <1>1, <1>2, <1>3, <1>4

\* A step that gives the reply a new token: nothing given before joins it.
LEMMA AudioLeft ==
    ASSUME Typed, AudioInv, SameStart, SameAudio,
           turn'.token = NextToken(turn.token),
           app'.at = "admit" =>
               turn'.owner = app'.adm.serial /\ (app'.placed => Heard(app.adm.source)'),
           sound'.queue = sound.queue, link'.opened = link.opened
    PROVE  AudioInv'
<1>. USE DEF AudioInv, SameStart, SameAudio
<1>1. /\ turn'.token >= turn.token /\ turn'.token \in Int
      /\ turn'.token > turn.token \/ turn'.token = Exhausted
  <2>1. /\ turn.token \in Numbers /\ NextToken(turn.token) \in Numbers
        /\ NextToken(turn.token) > turn.token \/ NextToken(turn.token) = Exhausted
        /\ NextToken(turn.token) >= turn.token
    BY TokenNumbers, NextNumbers
  <2>. QED BY <2>1, ReceiverConstants DEF Numbers
<1>2. TokensBehind'
  BY <1>1, TokenNumbers DEF TokensBehind
<1>3. /\ ~Joins(handoff.admitted)' /\ ~Joins(rx.audio)'
      /\ \A i \in DOMAIN sound.queue : ~(Joins(sound.queue[i])')
  BY <1>1, TokenNumbers DEF TokensBehind, Joins, TokenCurrent
<1>4. Admitting'
  BY <1>3 DEF Admitting, Waiting
<1>5. Speaking' /\ QueueBelongs'
  BY <1>3 DEF Speaking, QueueBelongs
<1>. QED BY <1>2, <1>4, <1>5

\* A START is heard and waited for.
LEMMA StartAudio ==
    ASSUME Typed, Connected, AudioInv, HearStart \/ SampleClock \/ Confirm \/ Await
    PROVE  AudioInv'
<1>1. UNCHANGED <<link, intake, turn, sound, app>>
  BY DEF HearStart, SampleClock, Confirm, Await
<1>2. SameReply /\ SameAdmission /\ sound'.queue = sound.queue /\ link'.opened = link.opened
  BY <1>1 DEF SameReply, SameAdmission
<1>3. CASE HearStart
  <2>1. /\ handoff'.req.serial = handoff.req.serial + 1 /\ handoff'.req.source = link.source
        /\ handoff'.admitted = NoAdmission
    BY <1>3 DEF HearStart
  <2>2. rx'.audio = NoAudio /\ rx'.speech = handoff'.req.serial
    BY <1>3, <2>1 DEF HearStart, SealedAudio, Typed, Receivers
  <2>3. ~Joins(rx.audio)' /\ link.source <= link.opened /\ 0 <= link.opened
    BY <2>2, TokenNumbers DEF Joins, TokenCurrent, NoAudio, Connected, Typed, LinkOK, Sources
  <2>4. TokensBehind'
    BY <1>1, <2>1, <2>2, TokenNumbers DEF AudioInv, TokensBehind, NoAdmission, NoAudio, Numbers
  <2>5. Admitting'
    BY <1>1, <2>1, <2>2 DEF AudioInv, Admitting, NoAdmission, Heard, StampCurrent
  <2>6. Speaking'
    BY <1>1, <2>1, <2>2, <2>3 DEF Speaking, NoAudio
  <2>7. QueueBelongs'
    BY <1>1 DEF AudioInv, QueueBelongs, Joins, TokenCurrent
  <2>. QED BY <2>4, <2>5, <2>6, <2>7 DEF AudioInv
<1>4. CASE SampleClock \/ Await
  <2>1. SameStart /\ SameAudio
    BY <1>4 DEF SampleClock, Await, SameStart, SameAudio, Waiting, Typed, Handoffs, Receivers
  <2>. QED BY <1>2, <2>1, AudioKept
<1>5. CASE Confirm
  <2>1. /\ handoff'.req = handoff.req /\ handoff'.admitted = handoff.admitted
        /\ rx.at = "decide" /\ handoff.admitted.serial = handoff.req.serial
        /\ handoff.req.serial # 0
    BY <1>5 DEF Confirm, Admitted, Typed, Handoffs
  <2>2. /\ rx'.at = "idle" /\ rx'.speech = rx.speech
        /\ rx'.audio = [source |-> handoff.req.source, gen |-> handoff.admitted.gen,
                        token |-> handoff.admitted.token]
    BY <1>5 DEF Confirm, Typed, Receivers
  <2>3. TokensBehind'
    BY <1>1, <2>1, <2>2 DEF AudioInv, TokensBehind
  <2>4. Admitting'
    BY <1>1, <2>1, <2>2 DEF AudioInv, Admitting, Heard, StampCurrent, Joins, TokenCurrent
  <2>5. Joins(rx.audio)' => Joins(handoff.admitted)
    BY <1>1, <2>2 DEF Joins, TokenCurrent
  <2>6. Speaking'
    BY <1>1, <2>1, <2>2, <2>5 DEF AudioInv, Admitting, Speaking, Heard, StampCurrent
  <2>7. QueueBelongs'
    BY <1>1 DEF AudioInv, QueueBelongs, Joins, TokenCurrent
  <2>. QED BY <2>3, <2>4, <2>6, <2>7 DEF AudioInv
<1>. QED BY <1>3, <1>4, <1>5

\* A STOP seals the audio, or comes to a connection that has lost its reply.
LEMMA StopAudio ==
    ASSUME Typed, Connected, AudioInv, (\E form \in Forms : HearStop(form)) \/ LockStop \/ WriteStop
    PROVE  AudioInv'
<1>1. /\ UNCHANGED <<link, handoff, turn, sound, app>>
      /\ SameStart /\ SameAdmission /\ sound'.queue = sound.queue /\ link'.opened = link.opened
  BY DEF HearStop, LockStop, WriteStop, SameStart, SameAdmission
<1>2. CASE LockStop \/ WriteStop
  <2>1. SameReply
    <3>1. CASE LockStop
      BY <1>1, <3>1 DEF LockStop, Contended, SameReply, Typed, Intakes
    <3>2. CASE WriteStop
      <4>1. \A i \in Intakes : \A stop, conflict :
              LET j == [[i EXCEPT !.lock = "free"] EXCEPT !.stop = stop, !.conflict = conflict] IN
              j.seq = i.seq /\ j.source = i.source /\ j.gen = i.gen
        BY DEF Intakes
      <4>2. LET j == [intake EXCEPT !.lock = "free"] IN
              j.seq = intake.seq /\ j.source = intake.source /\ j.gen = intake.gen
        BY DEF Typed, Intakes
      <4>. QED BY <1>1, <3>2, <4>1, <4>2 DEF WriteStop, SameReply, Typed
    <3>. QED BY <1>2, <3>1, <3>2
  <2>2. SameAudio
    BY <1>2 DEF LockStop, WriteStop, Contended, PutDown, SameAudio, Waiting, Typed, Receivers
  <2>. QED BY <1>1, <2>1, <2>2, AudioKept
<1>3. ASSUME NEW form \in Forms, HearStop(form)
      PROVE  AudioInv'
  <2>1. SameReply
    BY <1>1, <1>3 DEF HearStop, SameReply, Typed, Intakes
  <2>2. rx'.at \notin Waiting
    BY <1>3 DEF HearStop, Waiting, Typed, Receivers
  <2>3. \/ rx'.audio = NoAudio
        \/ rx'.audio = rx.audio /\ (Joins(rx.audio) => ~(Heard(rx.audio.source) /\ Mine(intake)))
    <3>1. CASE rx' = [rx EXCEPT !.speech = 0]
      <4>1. rx'.audio = rx.audio
        BY <3>1 DEF Typed, Receivers
      <4>2. rx.audio = NoAudio \/ rx'.audio # NoAudio
        BY <4>1
      <4>3. \/ rx'.audio = NoAudio
            \/ ~(StampCurrent(intake.seq) /\ Mine(intake) /\ intake.gen = turn.gen /\ ~Satisfied(form))
        BY <1>3, <3>1 DEF HearStop, SealedAudio, Typed, Receivers
      <4>4. Joins(rx.audio) => ~Satisfied(form)
        BY DEF Joins, TokenCurrent, Satisfied
      <4>. QED BY <4>1, <4>3, <4>4 DEF Heard
    <3>2. CASE rx' # [rx EXCEPT !.speech = 0]
      BY <1>3, <3>2 DEF HearStop, SealedAudio, Typed, Receivers
    <3>. QED BY <3>1, <3>2
  <2>4. Joins(rx.audio) /\ ~Mine(intake) /\ Heard(rx.audio.source) => rx.audio.source < link.opened
    <3>1. link.source # 0
      BY <1>3 DEF HearStop
    <3>. QED BY <3>1, TokenNumbers DEF AudioInv, Speaking, Connected, Mine, Heard
  <2>5. TokensBehind'
    BY <1>1, <2>3, TokenNumbers DEF AudioInv, TokensBehind, NoAudio, Numbers
  <2>6. Admitting'
    BY <1>1, <2>1, <2>2 DEF AudioInv, Admitting, Heard, StampCurrent, Joins, TokenCurrent, Waiting,
       SameReply
  <2>7. Speaking'
    <3>1. CASE rx'.audio = NoAudio
      <4>1. ~Joins(rx.audio)' /\ 0 <= link.opened
        BY <3>1 DEF Joins, TokenCurrent, NoAudio, Typed, LinkOK, Sources
      <4>. QED BY <1>1, <3>1, <4>1 DEF AudioInv, Speaking, NoAudio
    <3>2. CASE rx'.audio # NoAudio
      <4>1. rx'.audio = rx.audio /\ (Joins(rx.audio)' => Joins(rx.audio))
        BY <1>1, <2>3, <3>2 DEF Joins, TokenCurrent
      <4>2. Heard(rx.audio.source) => Heard(rx.audio.source)'
        BY <1>1, <2>1, <4>1 DEF SameReply, Heard, StampCurrent
      <4>. QED BY <1>1, <2>3, <2>4, <3>2, <4>1, <4>2 DEF AudioInv, Speaking
    <3>. QED BY <3>1, <3>2
  <2>8. QueueBelongs'
    BY <1>1 DEF AudioInv, QueueBelongs, Joins, TokenCurrent
  <2>. QED BY <2>5, <2>6, <2>7, <2>8 DEF AudioInv
<1>. QED BY <1>2, <1>3

\* A packet is queued under the reply it was heard after; what leaves the queue
\* leaves the others as they are.
LEMMA QueueAudio ==
    ASSUME Typed, Connected, AudioInv, HearAudio \/ CompleteReset \/ PlayPacket
    PROVE  AudioInv'
<1>. DEFINE Fits(packet) ==
                packet.token <= turn.token /\ (Joins(packet) => packet.start = turn.owner)
<1>1. UNCHANGED <<link, handoff, intake, rx, turn, app>>
  BY DEF HearAudio, CompleteReset, PlayPacket
<1>2. PICK q \in Seq(Packets) : q = sound.queue
  BY TokenNumbers, Zenon
<1>3. \A i \in 1..Len(q) : Fits(q[i])
  BY <1>2, TokenNumbers DEF AudioInv, TokensBehind, QueueBelongs
<1>4. PICK kept \in Seq(Packets) :
              /\ kept = Only(q, Joining)
              /\ \A i \in 1..Len(kept) : \E j \in 1..Len(q) : q[j] = kept[i]
  <2>1. PICK c : c = Only(q, Joining) /\ c \in Thinned(q, Packets, Joining)
    BY OnlyFits, Zenon
  <2>2. /\ c \in Seq(Packets)
        /\ \A i \in 1..Len(c) : \E j \in 1..Len(q) : q[j] = c[i]
    BY <2>1 DEF Thinned
  <2>. QED BY <2>1, <2>2, Zenon
<1>5. \A i \in 1..Len(kept) : Fits(kept[i])
  <2>1. \A i \in 1..Len(kept) : \E j \in 1..Len(q) : q[j] = kept[i]
    BY <1>4, Zenon
  <2>. HIDE DEF Fits
  <2>. QED BY <1>3, <2>1
<1>6. PICK r \in Seq(Packets) : r = sound'.queue /\ \A i \in 1..Len(r) : Fits(r[i])
  <2>1. CASE HearAudio
    <3>. DEFINE packet == [gen |-> rx.audio.gen, token |-> rx.audio.token, start |-> rx.speech]
    <3>1. packet \in Packets
      BY DEF Typed, Receivers, Audios, Packets
    <3>2. Fits(packet)
      <4>1. Joins(rx.audio) /\ Mine(rx.audio)
        BY <2>1 DEF HearAudio
      <4>2. rx.audio.source = link.opened /\ rx.audio.token = turn.token
        BY <4>1 DEF Joins, TokenCurrent, Mine, Connected
      <4>3. rx.speech = turn.owner
        BY <4>1, <4>2, TokenNumbers DEF AudioInv, Speaking
      <4>. QED BY <4>2, <4>3, TokenNumbers
    <3>3. sound'.queue = Append(kept, packet) \/ sound'.queue = kept
      BY <1>2, <1>4, <2>1 DEF HearAudio, Typed, SoundOK
    <3>. HIDE DEF packet, Fits
    <3>4. CASE sound'.queue = kept
      BY <1>5, <3>4
    <3>5. CASE sound'.queue = Append(kept, packet)
      <4>1. /\ Append(kept, packet) \in Seq(Packets) /\ Len(Append(kept, packet)) = Len(kept) + 1
            /\ \A i \in 1..Len(kept) : Append(kept, packet)[i] = kept[i]
            /\ Append(kept, packet)[Len(kept) + 1] = packet
        BY <3>1
      <4>2. \A i \in 1..(Len(kept) + 1) : i \in 1..Len(kept) \/ i = Len(kept) + 1
        OBVIOUS
      <4>3. \A i \in 1..(Len(kept) + 1) : Fits(Append(kept, packet)[i])
        BY <1>5, <3>2, <4>1, <4>2
      <4>. QED BY <3>5, <4>1, <4>3
    <3>. QED BY <3>3, <3>4, <3>5
  <2>2. CASE CompleteReset
    <3>1. sound'.queue = kept
      BY <1>2, <1>4, <2>2 DEF CompleteReset
    <3>. HIDE DEF Fits
    <3>. QED BY <1>5, <3>1
  <2>3. CASE PlayPacket
    <3>1. sound'.queue = Tail(q) /\ q # << >>
      BY <1>2, <2>3 DEF PlayPacket, Typed, SoundOK
    <3>2. /\ Tail(q) \in Seq(Packets)
          /\ \A i \in 1..Len(Tail(q)) : i + 1 \in 1..Len(q) /\ Tail(q)[i] = q[i + 1]
      BY <3>1
    <3>. HIDE DEF Fits
    <3>3. \A i \in 1..Len(Tail(q)) : Fits(Tail(q)[i])
      BY <1>3, <3>2
    <3>. QED BY <3>1, <3>2, <3>3
  <2>. QED BY <2>1, <2>2, <2>3
<1>7. DOMAIN r = 1..Len(r)
  BY <1>6
<1>8. TokensBehind' /\ QueueBelongs'
  <2>1. /\ sound'.queue = r /\ DOMAIN r = 1..Len(r) /\ turn' = turn
        /\ rx'.audio = rx.audio /\ handoff'.admitted = handoff.admitted
    BY <1>1, <1>6, <1>7
  <2>2. \A i \in 1..Len(r) : r[i].token <= turn.token
    BY <1>6
  <2>4. \A i \in 1..Len(r) : r[i].token \notin {0, Exhausted} /\ r[i].token = turn.token
                              /\ r[i].gen = turn.gen => r[i].start = turn.owner
    BY <1>6 DEF Joins, TokenCurrent
  <2>. HIDE DEF Fits
  <2>5. TokensBehind'
    BY <2>1, <2>2 DEF AudioInv, TokensBehind
  <2>6. QueueBelongs'
    BY <2>1, <2>4 DEF QueueBelongs, Joins, TokenCurrent
  <2>. QED BY <2>5, <2>6
<1>9. Admitting' /\ Speaking'
  BY <1>1 DEF AudioInv, Admitting, Speaking, Heard, StampCurrent, Joins, TokenCurrent
<1>. QED BY <1>8, <1>9 DEF AudioInv

\* What a recovery does to the reply.
LEMMA RecoveredReply ==
    ASSUME Typed
    PROVE  /\ Abandoned.token = NextToken(turn.token)
           /\ \A blame \in BOOLEAN : RecoverPlayout(blame) => turn' \in {turn, Abandoned}
           /\ \A r \in Requests, seen \in Numbers : RecoverStart(r, seen) =>
                 turn' \in {turn, Abandoned} /\ app'.at = "playout"
<1>1. Abandoned.token = NextToken(turn.token)
  BY DEF Abandoned
<1>2. \A blame \in BOOLEAN : RecoverPlayout(blame) => turn' \in {turn, Abandoned}
  BY DEF RecoverPlayout, Same
<1>3. ASSUME NEW r \in Requests, NEW seen \in Numbers, RecoverStart(r, seen)
      PROVE  turn' \in {turn, Abandoned} /\ app'.at = "playout"
  BY <1>3 DEF RecoverStart, Leave, Same, Typed, Loops
<1>. QED BY <1>1, <1>2, <1>3

\* A step of the loop that gives the reply up or leaves it.
LEMMA LoopAudio ==
    ASSUME Typed, AudioInv,
           UNCHANGED <<handoff, rx, sound, link>>,
           \/ SameReply
           \/ turn'.token = NextToken(turn.token),
           app'.at # "admit"
    PROVE  AudioInv'
<1>1. SameStart /\ SameAudio /\ SameAdmission
  BY DEF SameStart, SameAudio, SameAdmission
<1>2. sound'.queue = sound.queue /\ link'.opened = link.opened
  OBVIOUS
<1>. QED BY <1>1, <1>2, AudioKept, AudioLeft

\* A reply of its own for the START.
LEMMA PlacedAudio ==
    ASSUME Typed, AudioInv, PollStart
    PROVE  AudioInv'
<1>1. /\ UNCHANGED <<link, handoff, rx, sound, tally>>
      /\ handoff.req \in Requests /\ handoff.req.serial \in Numbers /\ app.handled \in Numbers
  BY DEF PollStart, Typed, Handoffs, Requests, Loops
<1>2. CASE RefuseOutdated \/ RefuseReply
  <2>1. /\ intake' = intake
        /\ RecoverStart(handoff.req, app.handled) \/ RecoverStart(handoff.req, handoff.req.serial)
    BY <1>2 DEF RefuseOutdated, RefuseReply, Same
  <2>2. turn' \in {turn, Abandoned} /\ app'.at = "playout"
    BY <1>1, <2>1, RecoveredReply
  <2>. QED BY <1>1, <2>1, <2>2, LoopAudio, RecoveredReply DEF SameReply
<1>3. CASE ApplyEffects
  <2>1. intake' = intake /\ turn' = turn /\ app'.at = "playout"
    BY <1>3 DEF ApplyEffects, Same, Typed, Loops
  <2>. QED BY <1>1, <2>1, LoopAudio DEF SameReply
<1>4. ASSUME NEW placed \in BOOLEAN, NEW realtime \in BOOLEAN, PlaceReply(placed, realtime)
      PROVE  AudioInv'
  <2>. DEFINE t == [gen |-> turn.gen + 1, token |-> NextToken(turn.token), accepting |-> TRUE,
                    owner |-> handoff.req.serial]
  <2>1. /\ turn' = t /\ (placed => CanEstablish /\ intake' = Opened(t))
        /\ app' = [app EXCEPT !.at = "admit", !.adm = handoff.req, !.handled = handoff.req.serial,
                              !.placed = placed]
    BY <1>4 DEF PlaceReply
  <2>2. app'.adm = handoff.req /\ app'.placed = placed
    BY <2>1 DEF Typed, Loops
  <2>3. turn'.token = NextToken(turn.token) /\ turn'.owner = handoff.req.serial /\ turn'.gen = t.gen
    BY <2>1
  <2>4. placed => Heard(app.adm.source)'
    <3>1. handoff.req.source = link.source
      BY DEF PollStart, StartDue, Mine
    <3>. HIDE DEF t
    <3>2. placed => /\ intake'.seq = intake.seq + 1 /\ intake'.source = link.source
                    /\ intake'.gen = t.gen
      BY <2>1 DEF Opened, Typed, Intakes
    <3>. QED BY <2>1, <2>2, <2>3, <3>1, <3>2, StampNumbers, ReceiverConstants
         DEF Heard, StampCurrent, CanEstablish
  <2>5. SameStart /\ SameAudio /\ sound'.queue = sound.queue /\ link'.opened = link.opened
    BY <1>1 DEF SameStart, SameAudio
  <2>. QED BY <2>2, <2>3, <2>4, <2>5, AudioLeft
<1>. QED BY <1>2, <1>3, <1>4 DEF PollStart

\* The admission gives the START the numbers of the reply placed for it.
LEMMA AdmitAudio ==
    ASSUME Typed, AudioInv, Admit \/ ReviewAdmission
    PROVE  AudioInv'
<1>1. /\ UNCHANGED <<link, intake, rx, sound>> /\ app.adm \in Requests /\ app.handled \in Numbers
  BY DEF Admit, ReviewAdmission, Typed, Loops
<1>2. CASE handoff' = handoff /\ RecoverStart(app.adm, app.handled)
  <2>1. turn' \in {turn, Abandoned} /\ app'.at = "playout"
    BY <1>1, <1>2, RecoveredReply
  <2>. QED BY <1>1, <1>2, <2>1, LoopAudio, RecoveredReply DEF SameReply
<1>3. CASE ReviewAdmission /\ ~RecoverStart(app.adm, app.handled)
  <2>1. handoff' = handoff /\ turn' = turn /\ app'.at = "playout"
    BY <1>3 DEF ReviewAdmission, Leave, Same, Typed, Loops
  <2>. QED BY <1>1, <2>1, LoopAudio DEF SameReply
<1>4. CASE Admit /\ ~(handoff' = handoff /\ RecoverStart(app.adm, app.handled))
  <2>1. /\ app.at = "admit" /\ app.placed /\ handoff.req = app.adm
        /\ handoff' = [handoff EXCEPT !.admitted = [serial |-> app.adm.serial,
                                                   gen |-> turn.gen, token |-> turn.token]]
        /\ app' = [app EXCEPT !.at = "review"] /\ turn' = turn
    BY <1>4 DEF Admit, Go, At, Same
  <2>2. /\ handoff'.req = handoff.req
        /\ handoff'.admitted = [serial |-> app.adm.serial, gen |-> turn.gen, token |-> turn.token]
        /\ app'.at = "review"
    BY <2>1 DEF Typed, Handoffs, Loops
  <2>3. TokensBehind'
    BY <1>1, <2>1, <2>2, TokenNumbers DEF AudioInv, TokensBehind
  <2>4. turn.owner = app.adm.serial /\ Heard(app.adm.source)
    BY <2>1 DEF AudioInv, Admitting
  <2>5. Admitting'
    BY <1>1, <2>1, <2>2, <2>4 DEF AudioInv, Admitting, Heard, StampCurrent
  <2>6. Speaking' /\ QueueBelongs'
    BY <1>1, <2>1, <2>2 DEF AudioInv, Speaking, QueueBelongs, Heard, StampCurrent, Joins, TokenCurrent
  <2>. QED BY <2>3, <2>5, <2>6 DEF AudioInv
<1>. QED BY <1>2, <1>3, <1>4 DEF Admit, ReviewAdmission, Same

\* A listen keeps the reply or takes a token of its own.
LEMMA ListenAudio ==
    ASSUME Typed, AudioInv, BeginListen, UNCHANGED <<handoff, rx, sound, link>>, app'.at # "admit"
    PROVE  AudioInv'
<1>. DEFINE kept == play.stamp # 0 /\ Mine(play) /\ OwnReply
            new == [turn EXCEPT !.gen = @ + 1, !.token = NextToken(@), !.owner = 0]
<1>1. \/ turn' = turn /\ intake' = intake
      \/ turn' = turn /\ intake' = [intake EXCEPT !.idle = 0]
      \/ turn' = new
  BY DEF BeginListen, Same
<1>2. new.token = NextToken(turn.token)
  BY DEF Typed, Replies
<1>. HIDE DEF new
<1>3. SameReply \/ turn'.token = NextToken(turn.token)
  BY <1>1, <1>2 DEF SameReply, Typed, Intakes
<1>. QED BY <1>3, LoopAudio

\* The polls of the playout, the rearm and the user.
LEMMA PollAudio ==
    ASSUME Typed, AudioInv, PollPlayout \/ CollectStop \/ Quiet \/ ResumeListening \/ Rearm \/ User
    PROVE  AudioInv'
<1>1. UNCHANGED <<handoff, rx, sound, link>>
  BY DEF PollPlayout, CollectStop, Quiet, ResumeListening, Rearm, SettleRecovery, EndReply,
     RequestListen, ArmListener, User, StartListening, StopListening, Abort
<1>2. CASE PollPlayout
  <2>1. app'.at # "admit"
    BY <1>2 DEF PollPlayout, NothingPolled, ReplyLost, ReplyFails, StopFault, LockIntake, Go, Typed, Loops
  <2>2. /\ intake'.seq = intake.seq /\ intake'.source = intake.source /\ intake'.gen = intake.gen
    BY <1>2 DEF PollPlayout, NothingPolled, ReplyLost, ReplyFails, StopFault, LockIntake, Same, Typed,
       Intakes
  <2>3. turn' \in {turn, Abandoned}
    BY <1>2, RecoveredReply DEF PollPlayout, NothingPolled, ReplyLost, ReplyFails, StopFault, LockIntake,
       Same
  <2>. QED BY <1>1, <2>1, <2>2, <2>3, LoopAudio, RecoveredReply DEF SameReply
<1>3. CASE CollectStop
  <2>1. app'.at # "admit"
    BY <1>3 DEF CollectStop, Go, Typed, Loops
  <2>2. intake'.seq = intake.seq /\ intake'.source = intake.source /\ intake'.gen = intake.gen
    BY <1>3 DEF CollectStop, Typed, Intakes
  <2>3. turn' \in {turn, Abandoned}
    <3>1. turn' = turn \/ Continue(intake.stop) \/ RecoverPlayout(TRUE)
      BY <1>3 DEF CollectStop, Same
    <3>. QED BY <3>1, RecoveredReply DEF Continue
  <2>. QED BY <1>1, <2>1, <2>2, <2>3, LoopAudio, RecoveredReply DEF SameReply
<1>4. CASE Quiet \/ Rearm \/ StopListening
  <2>1. turn' = turn
    BY <1>4 DEF Quiet, Rearm, SettleRecovery, EndReply, RequestListen, ArmListener, StopListening
  <2>2. app'.at # "admit"
    BY <1>4 DEF Quiet, Rearm, SettleRecovery, EndReply, RequestListen, ArmListener, StopListening, GoQuiet,
       Go, At, MayEnd, MayRearm, Typed, Loops
  <2>3. intake'.seq = intake.seq /\ intake'.source = intake.source /\ intake'.gen = intake.gen
    BY <1>4 DEF Quiet, Rearm, SettleRecovery, EndReply, RequestListen, ArmListener, StopListening, GoQuiet,
       Typed, Intakes
  <2>. QED BY <1>1, <2>1, <2>2, <2>3, LoopAudio DEF SameReply
<1>5. CASE StartListening
  <2>1. app'.at # "admit" /\ BeginListen
    BY <1>5 DEF StartListening, At
  <2>. QED BY <1>1, <2>1, ListenAudio
<1>6. CASE ResumeListening
  <2>1. app'.at # "admit"
    BY <1>6 DEF ResumeListening, Go, Typed, Loops
  <2>2. BeginListen \/ (turn' = turn /\ intake' = intake)
    BY <1>6 DEF ResumeListening, Same
  <2>. QED BY <1>1, <2>1, <2>2, ListenAudio, LoopAudio DEF SameReply
<1>7. ASSUME NEW resume \in BOOLEAN, Abort(resume)
      PROVE  AudioInv'
  <2>1. app'.at # "admit"
    BY <1>7 DEF Abort, Go, Typed, Loops
  <2>2. turn'.token = NextToken(turn.token)
    BY <1>7 DEF Abort, Typed, Replies
  <2>. QED BY <1>1, <2>1, <2>2, LoopAudio
<1>. QED BY <1>2, <1>3, <1>4, <1>5, <1>6, <1>7 DEF User

\* Every step keeps it.
LEMMA AudioStep ==
    ASSUME Typed, Connected, AudioInv, Next
    PROVE  AudioInv'
<1>1. CASE LoseSource \/ PassDeadline
  <2>1. /\ SameStart /\ SameAudio /\ SameReply /\ SameAdmission /\ sound'.queue = sound.queue
        /\ link'.opened = link.opened
    BY <1>1 DEF LoseSource, PassDeadline, SameStart, SameAudio, SameReply, SameAdmission, Typed, LinkOK,
       Handoffs
  <2>. QED BY <2>1, AudioKept
<1>2. CASE SelectSource
  <2>1. /\ UNCHANGED <<handoff, intake, rx, turn, sound>> /\ link'.opened = link.opened + 1
        /\ app'.at = "start"
    BY <1>2 DEF SelectSource, At, Typed, Loops
  <2>2. TokensBehind' /\ Admitting' /\ QueueBelongs'
    BY <2>1 DEF AudioInv, TokensBehind, Admitting, QueueBelongs, Heard, StampCurrent, Joins, TokenCurrent
  <2>3. Speaking'
    BY <2>1, TokenNumbers DEF AudioInv, Speaking, Heard, StampCurrent, Joins, TokenCurrent
  <2>. QED BY <2>2, <2>3 DEF AudioInv
<1>. QED BY <1>1, <1>2, StartAudio, StopAudio, QueueAudio, PlacedAudio, AdmitAudio, PollAudio
     DEF Next, ReceiverStep, Hear, Loop

-----------------------------------------------------------------------------
(* The theorems. *)

\* The invariant holds at boot.
LEMMA ReceiverInit == Init => RInv
<1>. SUFFICES ASSUME Init PROVE RInv
  OBVIOUS
<1>1. sound.queue = << >> /\ sound.queue \in Seq(Packets) /\ Len(sound.queue) = 0
  BY DEF Init
<1>2. Typed
  <2>1. /\ handoff \in Handoffs /\ intake \in Intakes /\ turn \in Replies
    BY EmptyWords DEF Init, Handoffs, Intakes, Replies
  <2>2. rx \in Receivers
    BY EmptyWords DEF Init, Receivers, Places, Audios, Endings
  <2>3. app \in Loops /\ play \in Playouts
    BY EmptyWords DEF Init, Loops, Playouts
  <2>4. face \in Faces /\ tally \in Clock
    BY EmptyWords DEF Init, Faces
  <2>5. LinkOK /\ SoundOK
    BY <1>1, EmptyWords, ReceiverConstants DEF Init, LinkOK, SoundOK
  <2>. QED BY <2>1, <2>2, <2>3, <2>4, <2>5 DEF Typed
<1>3. Connected
  BY DEF Init, Connected
<1>4. Stamped /\ Clocked /\ StopEndsItsOwnReply
  BY ReceiverConstants DEF Init, Stamped, Clocked, StopEndsItsOwnReply, NoStop
<1>5. TokensBehind /\ Admitting /\ Speaking /\ QueueBelongs
  <2>1. DOMAIN sound.queue = {}
    BY <1>1
  <2>. QED BY <2>1 DEF Init, TokensBehind, Admitting, Speaking, QueueBelongs, NoAdmission, NoAudio,
       NoRequest, Joins, TokenCurrent
<1>. QED BY <1>2, <1>3, <1>4, <1>5, TypeParts DEF RInv

\* Every step keeps the invariant.
LEMMA ReceiverInvStep == RInv /\ [Next]_vars => RInv'
<1>. SUFFICES ASSUME RInv, [Next]_vars PROVE RInv'
  OBVIOUS
<1>1. CASE UNCHANGED vars
  BY <1>1 DEF vars, RInv, TypeOK, Connected, Stamped, Clocked, StopEndsItsOwnReply, TokensBehind,
     Admitting, Speaking, QueueBelongs, Heard, StampCurrent, Joins, TokenCurrent
<1>2. CASE Next
  <2>1. Typed /\ Connected /\ StopInv /\ AudioInv
    BY TypeParts DEF RInv, StopInv, AudioInv
  <2>2. TypeOK' /\ Connected' /\ StopInv' /\ AudioInv'
    BY <1>2, <2>1, TypeStep, TypeParts, ConnectedStep, StopStep, AudioStep
  <2>. QED BY <2>2 DEF RInv, StopInv, AudioInv
<1>. QED BY <1>1, <1>2

\* The invariant holds in every state of the two tasks.
THEOREM ReceiverInvariant == Spec => []RInv
<1>. QED BY ReceiverInit, ReceiverInvStep, PTL DEF Spec

\* Every word of the two tasks keeps to its type, the numbers saturate, and the
\* decode queue to its depth (ChatStartHandoff, ChatPlayoutIntake,
\* PushPacketToDecodeQueue).
THEOREM ReceiverTypeOK == Spec => []TypeOK
<1>1. RInv => TypeOK
  BY DEF RInv
<1>. QED BY <1>1, ReceiverInvariant, PTL

\* What the decoder can still play was heard after the START of the reply that
\* owns the moment, and before its STOP (HandleChatAudio, ClaimChatDecode and the
\* resets of AdvanceChatPlaybackReset).
THEOREM AudioBelongs == Spec => []PlayedAudioBelongs
<1>1. RInv => PlayedAudioBelongs
  BY DEF RInv, QueueBelongs, PlayedAudioBelongs, Playable, Joins, AllowsDecode
<1>. QED BY <1>1, ReceiverInvariant, PTL

\* A drain, a continued listen and a recovery blamed on a STOP are for a STOP of
\* their own response, by the clock of the first (PublishStop, TryCollect).
THEOREM StopsEndTheirReply == Spec => []StopEndsItsOwnReply
<1>1. RInv => StopEndsItsOwnReply
  BY DEF RInv
<1>. QED BY <1>1, ReceiverInvariant, PTL
=============================================================================
