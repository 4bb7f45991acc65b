---------------------------- MODULE LessonTransport ----------------------------
(***************************************************************************)
(* The lesson message worker and what cuts a lesson off: the tasks that    *)
(* publish a terminal transport epoch, the queue of lesson frames, the     *)
(* worker that drains publications between frames and abandons the lesson, *)
(* and the lesson files of LessonStorage the lesson holds.                 *)
(*                                                                         *)
(* One step is one atomic operation or one critical section, except that   *)
(* what only the worker sees goes with its neighbours.  The renderer of a  *)
(* lesson keeps one file open ("clip"); its timer takes a second lease     *)
(* ("frame") for a tick, under the renderer's mutex.  A mutation of the    *)
(* files can only refuse a prepare, which DropFrame covers: LessonPacks    *)
(* has the tasks that mutate.                                              *)
(***************************************************************************)
EXTENDS LessonStorage, Sequences, FiniteSetsExt

CONSTANTS
    Requesters,    \* the tasks that run RequestLessonStorageAbandonment
    DataDepth,     \* kLessonMessageDataQueueDepth; one more slot is the control's
    MaxAttempts,   \* kLessonStorageAbandonMaxAttempts
    MaxEpoch,      \* bound: the terminal epochs a run reaches
    MaxFrames      \* bound: the lesson frames the server sends

ASSUME TransportAssumption ==
    /\ DataDepth \in Nat \ {0} /\ MaxAttempts \in Nat \ {0}
    /\ MaxEpoch \in Nat \ {0} /\ MaxFrames \in Nat
    /\ Readers = {"clip", "frame"}

VARIABLES
    published, latest, pending,  \* the epoch gate and the terminal control
    asked,                       \* of each requester: its place and its epoch
    queue, inUse,                \* the queue and the data admission
    socketEpoch,                 \* the transport epoch the open channel's frames carry
    offer, sent,                 \* the network task: the admitted frame it is about to queue
    wpc, applied, frame, attempt, \* the worker: its place, the epoch it has read, its frame
    workerEpoch,
    owner, toRelease,            \* g_session's reservation and g_pending_storage_release
    born                         \* the epoch of the prepare the session began with

gateVars == <<published, latest, pending>>
queueVars == <<queue, inUse, socketEpoch, offer, sent>>
workerVars == <<wpc, applied, frame, attempt, workerEpoch>>
ownerVars == <<owner, toRelease, born>>
vars == <<storageVars, gateVars, asked, queueVars, workerVars, ownerVars>>

NoOwner == [session |-> Nobody, generation |-> 0]
Control == [kind |-> "control", session |-> Nobody, epoch |-> 0]
NoFrame == [kind |-> "none", session |-> Nobody, epoch |-> 0]
Frames == [kind : {"prepare", "stop"}, session : Sessions, epoch : 1..MaxEpoch]
Data(q) == {i \in DOMAIN q : q[i] # Control}

Init ==
    /\ StorageInit
    /\ published = 1 /\ latest = 0 /\ pending = FALSE
    /\ asked = [r \in Requesters |-> [at |-> "idle", epoch |-> 0]]
    /\ queue = << >> /\ inUse = 0 /\ socketEpoch = 1 /\ offer = NoFrame /\ sent = 0
    /\ wpc = "poll" /\ applied = 0 /\ frame = NoFrame /\ attempt = 0 /\ workerEpoch = 1
    /\ owner = NoOwner /\ toRelease = NoOwner /\ born = 0

-----------------------------------------------------------------------------
(* RequestLessonStorageAbandonment, from any task. *)

Ask(r, from, to) == asked[r].at = from /\ asked' = [asked EXCEPT ![r].at = to]

PublishEpoch(r) ==
    /\ asked[r].at = "idle" /\ published < MaxEpoch
    /\ published' = published + 1
    /\ asked' = [asked EXCEPT ![r] = [at |-> "latest", epoch |-> published + 1]]
    /\ UNCHANGED <<storageVars, latest, pending, queueVars, workerVars, ownerVars>>

\* The compare-exchange loop of Publish leaves the maximum.
RaiseLatest(r) ==
    /\ Ask(r, "latest", "flag")
    /\ latest' = Max({latest, asked[r].epoch})
    /\ UNCHANGED <<storageVars, published, pending, queueVars, workerVars, ownerVars>>

\* Who finds the flag down owns the wake-up.
RaiseFlag(r) ==
    /\ Ask(r, "flag", IF pending THEN "idle" ELSE "wake")
    /\ pending' = TRUE
    /\ UNCHANGED <<storageVars, published, latest, queueVars, workerVars, ownerVars>>

\* xQueueSendToFront, not waiting: with the queue full the worker is left to its poll.
Wake(r) ==
    /\ Ask(r, "wake", "idle")
    /\ queue' = IF Len(queue) < DataDepth + 1 THEN <<Control>> \o queue ELSE queue
    /\ UNCHANGED <<storageVars, gateVars, inUse, socketEpoch, offer, sent, workerVars, ownerVars>>

-----------------------------------------------------------------------------
(* The network side: a channel is opened and the server's frames come in. *)

\* ConnectChannelTask hands the published epoch to the channel it opens.
OpenChannel ==
    /\ socketEpoch # published
    /\ socketEpoch' = published
    /\ UNCHANGED <<storageVars, gateVars, asked, queue, inUse, offer, sent, workerVars, ownerVars>>

\* EnqueueLessonMessage up to the admission.
Admit(f) ==
    /\ offer = NoFrame /\ sent < MaxFrames /\ f.epoch = socketEpoch
    /\ sent' = sent + 1
    /\ IF Len(queue) < DataDepth /\ inUse < DataDepth
       THEN inUse' = inUse + 1 /\ offer' = f
       ELSE UNCHANGED <<inUse, offer>>
    /\ UNCHANGED <<storageVars, gateVars, asked, queue, socketEpoch, workerVars, ownerVars>>

\* Mutant: a frame the queue refuses keeps its admission.
EnqueueLeaking ==
    /\ offer # NoFrame
    /\ offer' = NoFrame
    /\ queue' = IF Len(queue) < DataDepth + 1 THEN Append(queue, offer) ELSE queue
    /\ UNCHANGED <<storageVars, gateVars, asked, inUse, socketEpoch, sent, workerVars, ownerVars>>

Enqueue ==
    /\ offer # NoFrame
    /\ offer' = NoFrame
    /\ IF Len(queue) < DataDepth + 1
       THEN queue' = Append(queue, offer) /\ UNCHANGED inUse
       ELSE inUse' = inUse - 1 /\ UNCHANGED queue
    /\ UNCHANGED <<storageVars, gateVars, asked, socketEpoch, sent, workerVars, ownerVars>>

-----------------------------------------------------------------------------
(* The worker: drain_terminal. *)

At(place) == wpc = place
To(place) == wpc' = place

\* Where a drain returns to: the frame it interrupted, or the loop.
Resume ==
    /\ To(CASE frame = NoFrame -> "receive"
            [] frame = Control -> "poll"
            [] OTHER -> "accept")
    /\ frame' = IF frame = Control THEN NoFrame ELSE frame

\* WorkerShouldDrain, before a receive or before a frame is looked at.
ShouldDrain ==
    /\ At("poll")
    /\ IF pending THEN To("read") /\ UNCHANGED frame ELSE Resume
    /\ UNCHANGED <<storageVars, gateVars, asked, queueVars, applied, attempt, workerEpoch,
                   ownerVars>>

ApplyEpoch ==
    /\ At("read")
    /\ applied' = published
    /\ workerEpoch' = Max({workerEpoch, published})
    /\ To("lower")
    /\ UNCHANGED <<storageVars, gateVars, asked, queueVars, frame, attempt, ownerVars>>

\* Mutant: the epochs are read once, before the flag goes down.
LowerFlagLast ==
    /\ At("lower")
    /\ pending' = FALSE
    /\ attempt' = 1 /\ To("discard")
    /\ UNCHANGED <<storageVars, published, latest, asked, queueVars, applied, frame, workerEpoch,
                   ownerVars>>

\* FinishWorkerDrain: the flag goes down first, then both epochs are read again.
LowerFlag ==
    /\ At("lower")
    /\ pending' = FALSE
    /\ To("again")
    /\ UNCHANGED <<storageVars, published, latest, asked, queueVars, applied, frame, attempt,
                   workerEpoch, ownerVars>>

\* Nothing newer: the drain ends; else the flag goes up again, and the loop
\* goes round unless a requester has raised it in between.
ReadLatest ==
    /\ At("again")
    /\ To(IF latest <= applied THEN "gate" ELSE "reraise")
    /\ UNCHANGED <<storageVars, gateVars, asked, queueVars, applied, frame, attempt, workerEpoch,
                   ownerVars>>

ReadGate ==
    /\ At("gate")
    /\ IF published <= applied
       THEN attempt' = 1 /\ To("discard")
       ELSE UNCHANGED attempt /\ To("reraise")
    /\ UNCHANGED <<storageVars, gateVars, asked, queueVars, applied, frame, workerEpoch, ownerVars>>

RaiseAgain ==
    /\ At("reraise")
    /\ pending' = TRUE
    /\ IF pending
       THEN attempt' = 1 /\ To("discard")
       ELSE UNCHANGED attempt /\ To("read")
    /\ UNCHANGED <<storageVars, published, latest, asked, queueVars, applied, frame, workerEpoch,
                   ownerVars>>

-----------------------------------------------------------------------------
(* AbandonLessonStorageSession, tried MaxAttempts times and once more by force. *)

\* Mutant: g_session is not reset.
DiscardKeepsOwner ==
    /\ At("discard")
    /\ owner # NoOwner => held["frame"] = 0
    /\ IF owner # NoOwner /\ held["clip"] # 0
       THEN ReleaseRead("clip")
       ELSE UNCHANGED storageVars
    /\ toRelease' = IF toRelease = NoOwner THEN owner ELSE toRelease
    /\ To("end")
    /\ UNCHANGED <<gateVars, asked, queueVars, applied, frame, attempt, workerEpoch, owner, born>>

\* Mutant: the session is ended before its files are closed.
DiscardLate ==
    /\ At("discard")
    /\ toRelease' = IF toRelease = NoOwner THEN owner ELSE toRelease
    /\ owner' = NoOwner
    /\ To("end")
    /\ UNCHANGED <<storageVars, gateVars, asked, queueVars, applied, frame, attempt, workerEpoch,
                   born>>

\* DiscardSession waits for the renderer's mutex, closes its file and leaves
\* nothing a tick could open; the session is forgotten and its reservation noted.
Discard ==
    /\ At("discard")
    /\ owner # NoOwner => held["frame"] = 0
    /\ IF owner # NoOwner /\ held["clip"] # 0
       THEN ReleaseRead("clip")
       ELSE UNCHANGED storageVars
    /\ toRelease' = IF toRelease = NoOwner THEN owner ELSE toRelease
    /\ owner' = NoOwner
    /\ To("end")
    /\ UNCHANGED <<gateVars, asked, queueVars, applied, frame, attempt, workerEpoch, born>>

Ends == toRelease # NoOwner /\ CanEnd(toRelease.session, toRelease.generation)

EndAbandoned ==
    /\ At("end")
    /\ IF Ends
       THEN EndSession(toRelease.session, toRelease.generation)
       ELSE UNCHANGED storageVars
    /\ toRelease' = IF Ends \/ ~active THEN NoOwner ELSE toRelease
    /\ IF Ends \/ attempt > MaxAttempts
       THEN attempt' = 0 /\ Resume
       ELSE /\ attempt' = attempt + 1
            /\ To(IF attempt < MaxAttempts THEN "discard" ELSE "force")
            /\ UNCHANGED frame
    /\ UNCHANGED <<gateVars, asked, queueVars, applied, workerEpoch, owner, born>>

ForceAbandoned ==
    /\ At("force")
    /\ ForceEnd
    /\ To("discard")
    /\ UNCHANGED <<gateVars, asked, queueVars, applied, frame, attempt, workerEpoch, ownerVars>>

-----------------------------------------------------------------------------
(* The worker: receiving a frame and handling it. *)

\* Mutant: a control gives back an admission too.
ReceiveReleasesAny ==
    /\ At("receive") /\ queue # << >>
    /\ frame' = Head(queue) /\ queue' = Tail(queue)
    /\ inUse' = inUse - 1
    /\ To("poll")
    /\ UNCHANGED <<storageVars, gateVars, asked, socketEpoch, offer, sent, applied, attempt,
                   workerEpoch, ownerVars>>

Receive ==
    /\ At("receive") /\ queue # << >>
    /\ frame' = Head(queue) /\ queue' = Tail(queue)
    /\ inUse' = IF Head(queue) = Control THEN inUse ELSE inUse - 1
    /\ To("poll")
    /\ UNCHANGED <<storageVars, gateVars, asked, socketEpoch, offer, sent, applied, attempt,
                   workerEpoch, ownerVars>>

\* The receive waits for 100 ms: a lost wake-up only delays a drain.
ReceiveTimesOut ==
    /\ At("receive") /\ queue = << >>
    /\ To("poll")
    /\ UNCHANGED <<storageVars, gateVars, asked, queueVars, applied, frame, attempt, workerEpoch,
                   ownerVars>>

Done == To("poll") /\ frame' = NoFrame

\* A frame of another epoch, of a request that is no longer current, or one the
\* handler refuses.
DropFrame ==
    /\ At("accept") /\ Done
    /\ UNCHANGED <<storageVars, gateVars, asked, queueVars, applied, attempt, workerEpoch,
                   ownerVars>>

Accepts(kind) == At("accept") /\ frame.kind = kind /\ frame.epoch = workerEpoch

\* lesson_prepare reserves the files before it looks at them; the same session
\* may be prepared again.
Prepare ==
    /\ Accepts("prepare")
    /\ \/ BeginSession(frame.session)
       \/ active /\ session = frame.session /\ UNCHANGED storageVars
    /\ born' = frame.epoch
    /\ To("prepared")
    /\ UNCHANGED <<gateVars, asked, queueVars, applied, frame, attempt, workerEpoch, owner,
                   toRelease>>

\* The renderer opens its file (again) under a read lease.
PrepareSucceeds ==
    /\ At("prepared") /\ held["frame"] = 0
    /\ owner' = [session |-> frame.session, generation |-> generation]
    /\ IF held["clip"] = 0 THEN Retain("clip", generation) ELSE UNCHANGED storageVars
    /\ Done
    /\ UNCHANGED <<gateVars, asked, queueVars, applied, attempt, workerEpoch, toRelease, born>>

\* The retained selection or the renderer refuses: a reservation made for this
\* prepare is given back, one it found is kept.
PrepareFails ==
    /\ At("prepared")
    /\ IF owner.generation # generation
       THEN EndSession(frame.session, generation)
       ELSE UNCHANGED storageVars
    /\ Done
    /\ UNCHANGED <<gateVars, asked, queueVars, applied, attempt, workerEpoch, ownerVars>>

\* lesson_stop of the session: the renderer first, then the reservation.
Stop ==
    /\ Accepts("stop") /\ owner.session = frame.session /\ held["frame"] = 0
    /\ IF held["clip"] # 0 THEN ReleaseRead("clip") ELSE UNCHANGED storageVars
    /\ To("stopped")
    /\ UNCHANGED <<gateVars, asked, queueVars, applied, frame, attempt, workerEpoch, ownerVars>>

EndStopped ==
    /\ At("stopped")
    /\ IF CanEnd(owner.session, owner.generation)
       THEN EndSession(owner.session, owner.generation) /\ owner' = NoOwner
       ELSE UNCHANGED <<storageVars, owner>>
    /\ Done
    /\ UNCHANGED <<gateVars, asked, queueVars, applied, attempt, workerEpoch, toRelease, born>>

-----------------------------------------------------------------------------
(* The renderer's timer. *)

elsewhere == <<gateVars, asked, queueVars, workerVars, ownerVars>>

\* A tick: the renderer's mutex is held from the one to the other.
ReadFrame == held["clip"] # 0 /\ Retain("frame", held["clip"]) /\ UNCHANGED elsewhere

EndRead == ReleaseRead("frame") /\ UNCHANGED elsewhere

-----------------------------------------------------------------------------
WorkerStep ==
    \/ ShouldDrain \/ ApplyEpoch \/ LowerFlag \/ ReadLatest \/ ReadGate \/ RaiseAgain
    \/ Discard \/ EndAbandoned \/ ForceAbandoned
    \/ Receive \/ ReceiveTimesOut \/ DropFrame
    \/ Prepare \/ PrepareSucceeds \/ PrepareFails \/ Stop \/ EndStopped

PublishStep(r) == RaiseLatest(r) \/ RaiseFlag(r) \/ Wake(r)

Next ==
    \/ WorkerStep
    \/ \E r \in Requesters : PublishEpoch(r) \/ PublishStep(r)
    \/ OpenChannel \/ (\E f \in Frames : Admit(f)) \/ Enqueue
    \/ ReadFrame \/ EndRead

Spec == Init /\ [][Next]_vars

\* Every task that has begun something goes on; nobody has to begin anything.
\* The worker is strongly fair: the renderer's mutex, which a tick takes again
\* and again, is handed to a waiting task.
FairSpec ==
    /\ Spec
    /\ SF_vars(WorkerStep) /\ WF_vars(Enqueue) /\ WF_vars(EndRead)
    /\ \A r \in Requesters : WF_vars(PublishStep(r))

-----------------------------------------------------------------------------
Places == {"poll", "receive", "read", "lower", "again", "gate", "reraise", "discard", "end",
           "force", "accept", "prepared", "stopped"}
Owners == [session : Sessions \cup {Nobody}, generation : 0..MaxGeneration]

TypeOK ==
    /\ StorageTypeOK
    /\ published \in 1..MaxEpoch /\ latest \in 0..MaxEpoch /\ pending \in BOOLEAN
    /\ asked \in [Requesters -> [at : {"idle", "latest", "flag", "wake"}, epoch : 0..MaxEpoch]]
    /\ queue \in Seq(Frames \cup {Control}) /\ Len(queue) <= DataDepth + 1
    /\ inUse \in 0..DataDepth /\ socketEpoch \in 1..MaxEpoch /\ sent \in 0..MaxFrames
    /\ offer \in Frames \cup {NoFrame} /\ frame \in Frames \cup {NoFrame, Control}
    /\ wpc \in Places /\ applied \in 0..MaxEpoch /\ workerEpoch \in 1..MaxEpoch
    /\ attempt \in 0..MaxAttempts + 1
    /\ owner \in Owners /\ toRelease \in Owners /\ born \in 0..MaxEpoch

\* The admission counts exactly the frames that are queued or about to be: a
\* slot lost on a refused send would in the end refuse every lesson frame.
AdmissionConserved ==
    inUse = Cardinality(Data(queue)) + IF offer = NoFrame THEN 0 ELSE 1

\* The lesson the handler believes in holds the files: its reservation is the
\* coordinator's, so no task changes a file under a running lesson.
OwnerHoldsFiles ==
    owner # NoOwner => active /\ session = owner.session /\ generation = owner.generation

\* No handle of a lesson is open once the lesson is over: the forced end of the
\* coordinator, which would leave the files locked behind one, finds none.
NoHandleOutlivesLesson == ~active => \A r \in Readers : held[r] = 0

\* A lesson whose transport was declared lost ends, and none of that transport
\* begins after it: no publication goes unheard, however the flag, the two
\* epochs and the queued wake-up interleave.
LostLessonEnds ==
    \A n \in 2..MaxEpoch : published = n ~> [](~(active /\ born < n))
=============================================================================
