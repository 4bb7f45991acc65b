------------------------- MODULE LessonTransportProofs -------------------------
(***************************************************************************)
(* What TLAPS proves of LessonTransport, for every number of requesters,   *)
(* frames, epochs, attempts and every depth of the queue: the worker and   *)
(* the renderer use the coordinator of LessonStorage as any callers may,   *)
(* so its invariant IInv is theirs too; on top of it, who holds the files. *)
(***************************************************************************)
EXTENDS LessonTransport, LessonStorageProofs, SequenceTheorems

\* Between two steps of the worker: a lesson that was prepared is still there,
\* and one that was discarded is not.
WorkerPlaces ==
    /\ wpc = "prepared" => active /\ session = frame.session /\ frame \in Frames
    /\ wpc \in {"end", "force"} => owner = NoOwner

\* Handles belong to a lesson the handler knows of; a session has a name.
Attended ==
    /\ owner = NoOwner => \A r \in Readers : held[r] = 0
    /\ active => session # Nobody

Lessons == OwnerHoldsFiles /\ WorkerPlaces /\ Attended

TInv == TypeOK /\ IInv /\ Lessons /\ AdmissionConserved

-----------------------------------------------------------------------------
(* The operators. *)

\* The constants, in the form the proofs use them.
LEMMA TransportConstants ==
    /\ DataDepth \in Nat \ {0} /\ MaxAttempts \in Nat \ {0}
    /\ MaxEpoch \in Nat \ {0} /\ MaxFrames \in Nat
    /\ Readers = {"clip", "frame"}
    /\ MaxGeneration \in Nat /\ Nobody \notin Sessions
<1>. QED BY TransportAssumption, Constants DEF TransportAssumption

\* The larger of two numbers is one of them.
LEMMA MaxOfTwo ==
    ASSUME NEW a \in Nat, NEW b \in Nat
    PROVE  /\ Max({a, b}) \in {a, b}
           /\ Max({a, b}) >= a /\ Max({a, b}) >= b
<1>1. \E x \in {a, b} : \A y \in {a, b} : x >= y
  OBVIOUS
<1>2. Max({a, b}) \in {a, b} /\ \A y \in {a, b} : Max({a, b}) >= y
  BY <1>1, Zenon DEF Max
<1>. QED BY <1>2

\* A control is no frame of a lesson.
LEMMA Kinds == Control \notin Frames /\ NoFrame \notin Frames /\ Control # NoFrame
<1>. QED BY DEF Control, Frames, NoFrame

\* The data positions of a queue are finitely many.
LEMMA DataFinite ==
    ASSUME NEW S, NEW q \in Seq(S)
    PROVE  IsFiniteSet(Data(q)) /\ Cardinality(Data(q)) \in Nat /\ Data(q) \subseteq 1..Len(q)
<1>1. Data(q) \subseteq 1..Len(q) /\ Len(q) \in Nat
  BY DEF Data
<1>2. IsFiniteSet(1..Len(q))
  BY <1>1, FS_Interval
<1>. QED BY <1>1, <1>2, FS_Subset, FS_CardinalityType

\* A queue that is shifted by one keeps its data positions.
LEMMA Shifted ==
    ASSUME NEW A \in SUBSET Int, NEW B \in SUBSET Int, IsFiniteSet(A),
           \A i \in Int : i \in A <=> i + 1 \in B
    PROVE  IsFiniteSet(B) /\ Cardinality(B) = Cardinality(A)
<1>. DEFINE f == [i \in A |-> i + 1]
<1>1. f \in [A -> B] /\ \A i, j \in A : f[i] = f[j] => i = j
  OBVIOUS
<1>2. ASSUME NEW b \in B PROVE \E i \in A : f[i] = b
  <2>1. b - 1 \in Int /\ (b - 1) + 1 = b
    OBVIOUS
  <2>2. b - 1 \in A
    BY <2>1
  <2>. QED BY <2>1, <2>2
<1>3. f \in Bijection(A, B)
  <2>1. DOMAIN f = A
    OBVIOUS
  <2>. HIDE DEF f
  <2>2. f \in Injection(A, B)
    BY <1>1, <2>1 DEF Injection, IsInjective
  <2>3. f \in Surjection(A, B)
    BY <1>1, <1>2 DEF Surjection
  <2>. QED BY <2>2, <2>3 DEF Bijection
<1>4. ExistsBijection(A, B)
  BY <1>3 DEF ExistsBijection
<1>. QED BY <1>4, FS_Bijection

\* A frame at the back is one more, a control at the front none.
LEMMA DataAppended ==
    ASSUME NEW S, NEW q \in Seq(S), NEW f \in S, f # Control
    PROVE  Cardinality(Data(Append(q, f))) = Cardinality(Data(q)) + 1
<1>1. Data(Append(q, f)) = Data(q) \cup {Len(q) + 1} /\ Len(q) + 1 \notin Data(q)
  BY DEF Data
<1>. QED BY <1>1, DataFinite, FS_AddElement

\* A control that goes to the front leaves the count of the frames alone.
LEMMA DataBehindControl ==
    ASSUME NEW S, NEW q \in Seq(S), Control \in S
    PROVE  Cardinality(Data(<<Control>> \o q)) = Cardinality(Data(q))
<1>1. PICK c \in Seq(S) : c = <<Control>> \o q
  <2>1. <<Control>> \in Seq(S)
    OBVIOUS
  <2>. QED BY <2>1, ConcatProperties, Zenon
<1>2. /\ Len(c) = 1 + Len(q) /\ DOMAIN c = 1..Len(c) /\ Len(q) \in Nat /\ DOMAIN q = 1..Len(q)
      /\ c[1] = Control /\ \A i \in 1..Len(q) : c[i + 1] = q[i]
  BY <1>1
<1>3. \A i \in Int : i \in Data(q) <=> i + 1 \in Data(c)
  BY <1>2 DEF Data
<1>4. Data(q) \in SUBSET Int /\ Data(c) \in SUBSET Int /\ IsFiniteSet(Data(q))
  BY DataFinite
<1>5. Cardinality(Data(c)) = Cardinality(Data(q))
  BY <1>3, <1>4, Shifted
<1>. QED BY <1>1, <1>5

\* The head that leaves takes its count with it.
LEMMA DataReceived ==
    ASSUME NEW S, NEW q \in Seq(S), q # << >>
    PROVE  Cardinality(Data(Tail(q))) =
             IF Head(q) = Control THEN Cardinality(Data(q)) ELSE Cardinality(Data(q)) - 1
<1>1. PICK t \in Seq(S) : t = Tail(q)
  BY HeadTailProperties
<1>2. /\ Len(t) = Len(q) - 1 /\ Len(q) \in Nat \ {0} /\ Head(q) = q[1]
      /\ \A i \in 1..Len(t) : t[i] = q[i + 1]
      /\ DOMAIN t = 1..Len(t) /\ DOMAIN q = 1..Len(q)
  BY <1>1, HeadTailProperties
<1>3. \A i \in Int : i \in Data(t) <=> i + 1 \in Data(q) \ {1}
  BY <1>2 DEF Data
<1>4. Data(q) \in SUBSET Int /\ Data(t) \in SUBSET Int /\ IsFiniteSet(Data(q)) /\ IsFiniteSet(Data(t))
  BY DataFinite
<1>5. Cardinality(Data(q) \ {1}) = Cardinality(Data(t))
  <2>1. Data(q) \ {1} \in SUBSET Int
    BY <1>4
  <2>. QED BY <1>3, <1>4, <2>1, Shifted
<1>6. 1 \in Data(q) <=> Head(q) # Control
  BY <1>2 DEF Data
<1>. QED BY <1>1, <1>4, <1>5, <1>6, FS_RemoveElement

-----------------------------------------------------------------------------
(* The files: what the worker and the renderer do with the coordinator. *)

\* Every action uses the coordinator as StorageNext lets any caller.
LEMMA StorageUse ==
    ASSUME TypeOK, IInv, Lessons, Next
    PROVE  [StorageNext]_storageVars
<1>. USE TransportConstants
<1>0. /\ frame \in Frames => frame.session \in Sessions
      /\ generation \in 0..MaxGeneration /\ session \in Sessions \cup {Nobody}
      /\ active => generation \in 1..MaxGeneration /\ session \in Sessions
  BY DEF Frames, TypeOK, StorageTypeOK, IInv, Generations, Lessons, Attended
<1>1. ASSUME NEW r \in Readers, ReleaseRead(r) PROVE StorageNext
  BY <1>1 DEF StorageNext
<1>2. ASSUME NEW s, NEW g, EndSession(s, g) PROVE StorageNext
  <2>1. s \in Sessions /\ g \in 1..MaxGeneration
    BY <1>0, <1>2 DEF EndSession, CanEnd
  <2>. QED BY <1>2, <2>1 DEF StorageNext
<1>3. ASSUME NEW r \in Readers, NEW g, Retain(r, g) PROVE StorageNext
  <2>1. g \in 1..MaxGeneration
    BY <1>0, <1>3 DEF Retain
  <2>. QED BY <1>3, <2>1 DEF StorageNext
<1>4. "clip" \in Readers /\ "frame" \in Readers
  OBVIOUS
<1>5. CASE Discard
  BY <1>1, <1>4, <1>5 DEF Discard
<1>6. CASE EndAbandoned
  BY <1>2, <1>6 DEF EndAbandoned
<1>7. CASE ForceAbandoned
  BY <1>7 DEF ForceAbandoned, StorageNext
<1>8. CASE Prepare
  <2>1. BeginSession(frame.session) => StorageNext
    <3>1. frame.kind = "prepare"
      BY <1>8 DEF Prepare, Accepts
    <3>2. frame \in Frames
      BY <3>1 DEF TypeOK, NoFrame, Control
    <3>. QED BY <1>0, <3>2 DEF StorageNext
  <2>. QED BY <1>8, <2>1 DEF Prepare
<1>9. CASE PrepareSucceeds
  BY <1>3, <1>4, <1>9 DEF PrepareSucceeds
<1>10. CASE PrepareFails
  BY <1>2, <1>10 DEF PrepareFails
<1>11. CASE Stop
  BY <1>1, <1>4, <1>11 DEF Stop
<1>12. CASE EndStopped
  BY <1>2, <1>12 DEF EndStopped
<1>13. CASE ReadFrame \/ EndRead
  BY <1>1, <1>3, <1>4, <1>13 DEF ReadFrame, EndRead
<1>14. CASE \/ ShouldDrain \/ ApplyEpoch \/ LowerFlag \/ ReadLatest \/ ReadGate \/ RaiseAgain
            \/ Receive \/ ReceiveTimesOut \/ DropFrame
            \/ \E r \in Requesters : PublishEpoch(r) \/ PublishStep(r)
            \/ OpenChannel \/ (\E f \in Frames : Admit(f)) \/ Enqueue
  BY <1>14 DEF ShouldDrain, ApplyEpoch, LowerFlag, ReadLatest, ReadGate, RaiseAgain, Receive,
     ReceiveTimesOut, DropFrame, PublishEpoch, PublishStep, RaiseLatest, RaiseFlag, Wake,
     OpenChannel, Admit, Enqueue
<1>. QED BY <1>5, <1>6, <1>7, <1>8, <1>9, <1>10, <1>11, <1>12, <1>13, <1>14 DEF Next, WorkerStep

\* The coordinator's own invariant holds on.
LEMMA CoordinatorStep == TInv /\ [Next]_vars => IInv'
<1>1. UNCHANGED vars => UNCHANGED storageVars
  BY DEF vars
<1>. QED BY <1>1, StorageUse, StorageStepInv DEF TInv

-----------------------------------------------------------------------------
(* The queue and its admission. *)

QueueTypes ==
    /\ queue \in Seq(Frames \cup {Control}) /\ Len(queue) <= DataDepth + 1
    /\ inUse \in 0..DataDepth /\ sent \in 0..MaxFrames
    /\ offer \in Frames \cup {NoFrame}

\* A wake-up, an admission, a frame queued or refused, and a frame received.
LEMMA QueueStep ==
    ASSUME QueueTypes, AdmissionConserved, Next
    PROVE  QueueTypes' /\ AdmissionConserved'
<1>. USE TransportConstants DEF QueueTypes
<1>. DEFINE S == Frames \cup {Control}
<1>0. /\ Control \in S /\ queue \in Seq(S) /\ Len(queue) \in Nat
      /\ Cardinality(Data(queue)) \in Nat
  BY DataFinite
<1>1. ASSUME UNCHANGED <<queue, inUse, offer, sent>> PROVE QueueTypes' /\ AdmissionConserved'
  BY <1>1 DEF AdmissionConserved, Data, Control
<1>2. ASSUME NEW r \in Requesters, Wake(r) PROVE QueueTypes' /\ AdmissionConserved'
  <2>1. UNCHANGED <<inUse, offer, sent>>
    BY <1>2 DEF Wake
  <2>2. CASE queue' = <<Control>> \o queue /\ Len(queue) < DataDepth + 1
    <3>1. queue' \in Seq(S) /\ Len(queue') = Len(queue) + 1
      BY <1>0, <2>2, ConcatProperties
    <3>2. Cardinality(Data(queue')) = Cardinality(Data(queue))
      BY <1>0, <2>2, DataBehindControl
    <3>. QED BY <1>0, <2>1, <2>2, <3>1, <3>2 DEF AdmissionConserved
  <2>. QED BY <1>1, <1>2, <2>1, <2>2 DEF Wake
<1>3. ASSUME NEW f \in Frames, Admit(f) PROVE QueueTypes' /\ AdmissionConserved'
  BY <1>3, <1>0, Kinds DEF Admit, AdmissionConserved
<1>4. CASE Enqueue
  <2>1. offer \in Frames /\ offer' = NoFrame /\ sent' = sent /\ offer # Control
    BY <1>4, Kinds DEF Enqueue
  <2>2. CASE queue' = Append(queue, offer) /\ Len(queue) < DataDepth + 1 /\ inUse' = inUse
    <3>1. queue' \in Seq(S) /\ Len(queue') = Len(queue) + 1
      BY <1>0, <2>1, <2>2, AppendProperties
    <3>2. Cardinality(Data(queue')) = Cardinality(Data(queue)) + 1
      BY <1>0, <2>1, <2>2, DataAppended
    <3>. QED BY <1>0, <1>4, <2>1, <2>2, <3>1, <3>2 DEF AdmissionConserved, Enqueue
  <2>3. CASE queue' = queue /\ inUse' = inUse - 1
    BY <1>0, <1>4, <2>1, <2>3 DEF AdmissionConserved, Enqueue
  <2>. QED BY <1>4, <2>2, <2>3 DEF Enqueue
<1>5. CASE Receive
  <2>1. queue # << >> /\ queue' = Tail(queue) /\ UNCHANGED <<offer, sent>>
    BY <1>5 DEF Receive
  <2>2. queue' \in Seq(S) /\ Len(queue') = Len(queue) - 1
    BY <1>0, <2>1, HeadTailProperties
  <2>3. Cardinality(Data(queue')) = IF Head(queue) = Control THEN Cardinality(Data(queue))
                                                             ELSE Cardinality(Data(queue)) - 1
    BY <1>0, <2>1, DataReceived
  <2>4. Cardinality(Data(queue')) \in Nat
    BY <2>2, DataFinite
  <2>. QED BY <1>0, <1>5, <2>1, <2>2, <2>3, <2>4 DEF AdmissionConserved, Receive
<1>6. ASSUME Next, ~(\E r \in Requesters : Wake(r)), ~(\E f \in Frames : Admit(f)), ~Enqueue, ~Receive
      PROVE  UNCHANGED <<queue, inUse, offer, sent>>
  BY <1>6 DEF Next, WorkerStep, PublishStep, elsewhere, queueVars, ShouldDrain, ApplyEpoch, LowerFlag,
     ReadLatest, ReadGate, RaiseAgain, Discard, EndAbandoned, ForceAbandoned, ReceiveTimesOut,
     DropFrame, Prepare, PrepareSucceeds, PrepareFails, Stop, EndStopped, PublishEpoch, RaiseLatest,
     RaiseFlag, OpenChannel, ReadFrame, EndRead
<1>. QED BY <1>1, <1>2, <1>3, <1>4, <1>5, <1>6

-----------------------------------------------------------------------------
(* The types of the rest. *)

TransportTypes ==
    /\ published \in 1..MaxEpoch /\ latest \in 0..MaxEpoch /\ pending \in BOOLEAN
    /\ asked \in [Requesters -> [at : {"idle", "latest", "flag", "wake"}, epoch : 0..MaxEpoch]]
    /\ socketEpoch \in 1..MaxEpoch
    /\ frame \in Frames \cup {NoFrame, Control}
    /\ wpc \in Places /\ applied \in 0..MaxEpoch /\ workerEpoch \in 1..MaxEpoch
    /\ attempt \in 0..MaxAttempts + 1
    /\ owner \in Owners /\ toRelease \in Owners /\ born \in 0..MaxEpoch

\* The type invariant by component.
LEMMA TypeSplit == TypeOK <=> StorageTypeOK /\ QueueTypes /\ TransportTypes
<1>. QED BY DEF TypeOK, QueueTypes, TransportTypes

\* What a requester does keeps its words in range.
LEMMA RequesterTypes ==
    ASSUME TransportTypes, NEW r \in Requesters, PublishEpoch(r) \/ PublishStep(r)
    PROVE  TransportTypes'
<1>. USE TransportConstants DEF TransportTypes, Ask, workerVars, ownerVars, queueVars, gateVars
<1>1. CASE PublishEpoch(r)
  BY <1>1 DEF PublishEpoch
<1>2. CASE RaiseLatest(r)
  <2>1. latest \in Nat /\ asked[r].epoch \in Nat /\ asked[r].epoch \in 0..MaxEpoch
    OBVIOUS
  <2>2. latest' \in 0..MaxEpoch
    BY <1>2, <2>1, MaxOfTwo DEF RaiseLatest
  <2>. QED BY <1>2, <2>2 DEF RaiseLatest
<1>3. CASE RaiseFlag(r)
  BY <1>3 DEF RaiseFlag
<1>4. CASE Wake(r)
  BY <1>4 DEF Wake
<1>. QED BY <1>1, <1>2, <1>3, <1>4 DEF PublishStep

\* So does the worker.
LEMMA WorkerTypes ==
    ASSUME TransportTypes, StorageTypeOK, QueueTypes, WorkerStep
    PROVE  TransportTypes'
<1>. USE TransportConstants DEF TransportTypes, Places, At, To, Done, Resume, Owners, NoOwner, NoFrame,
     Control, workerVars, ownerVars, queueVars, gateVars
<1>1. CASE ShouldDrain
  BY <1>1 DEF ShouldDrain
<1>2. CASE ApplyEpoch
  <2>1. workerEpoch' \in 1..MaxEpoch
    BY <1>2, MaxOfTwo DEF ApplyEpoch
  <2>. QED BY <1>2, <2>1 DEF ApplyEpoch
<1>3. CASE LowerFlag \/ ReadLatest \/ ReadGate \/ RaiseAgain
  <2>1. CASE LowerFlag
    BY <2>1 DEF LowerFlag
  <2>2. CASE ReadLatest
    BY <2>2 DEF ReadLatest
  <2>3. CASE ReadGate
    BY <2>3 DEF ReadGate
  <2>4. CASE RaiseAgain
    BY <2>4 DEF RaiseAgain
  <2>. QED BY <1>3, <2>1, <2>2, <2>3, <2>4
<1>4. CASE Discard
  BY <1>4 DEF Discard
<1>5. CASE EndAbandoned
  BY <1>5 DEF EndAbandoned
<1>6. CASE ForceAbandoned
  BY <1>6 DEF ForceAbandoned
<1>7. CASE Receive
  <2>1. frame' \in Frames \cup {Control}
    BY <1>7, HeadTailProperties DEF Receive, QueueTypes
  <2>. QED BY <1>7, <2>1 DEF Receive
<1>8. CASE ReceiveTimesOut \/ DropFrame
  BY <1>8 DEF ReceiveTimesOut, DropFrame
<1>9. frame.session \in Sessions \cup {Nobody} /\ frame.epoch \in 0..MaxEpoch
  BY DEF Frames
<1>10. CASE Prepare
  BY <1>9, <1>10 DEF Prepare
<1>11. CASE PrepareSucceeds
  BY <1>9, <1>11 DEF PrepareSucceeds, StorageTypeOK
<1>12. CASE PrepareFails \/ Stop \/ EndStopped
  BY <1>12 DEF PrepareFails, Stop, EndStopped
<1>. QED BY <1>1, <1>2, <1>3, <1>4, <1>5, <1>6, <1>7, <1>8, <1>10, <1>11, <1>12 DEF WorkerStep

\* Every step keeps the types.
LEMMA TypeStep ==
    ASSUME TransportTypes, StorageTypeOK, QueueTypes, Next
    PROVE  TransportTypes'
<1>1. CASE OpenChannel \/ (\E f \in Frames : Admit(f)) \/ Enqueue \/ ReadFrame \/ EndRead
  BY <1>1, TransportConstants DEF TransportTypes, OpenChannel, Admit, Enqueue, ReadFrame, EndRead,
     elsewhere, gateVars, queueVars, workerVars, ownerVars
<1>. QED BY <1>1, RequesterTypes, WorkerTypes DEF Next

-----------------------------------------------------------------------------
(* Who holds the files. *)

\* What the coordinator's operations do to an active session and its handles.
LEMMA Releases ==
    ASSUME IInv, NEW r \in Readers, ReleaseRead(r)
    PROVE  /\ held' = [held EXCEPT ![r] = 0]
           /\ active' = active
           /\ active => session' = session /\ generation' = generation
<1>. QED BY DEF ReleaseRead, Close, IInv, StorageTypeOK

\* A session that may end ends with every handle closed and no reservation.
LEMMA Ended ==
    ASSUME IInv, NEW s, NEW g, EndSession(s, g)
    PROVE  ~active' /\ held' = held /\ \A r \in Readers : held[r] = 0
<1>1. readers = 0
  BY DEF EndSession, CanEnd
<1>. QED BY <1>1, NoneOpen DEF EndSession, Close, IInv

\* A lesson the handler believes in keeps its reservation through every step.
LEMMA LessonStep ==
    ASSUME TypeOK, IInv, Lessons, Next
    PROVE  Lessons'
<1>. USE TransportConstants DEF Lessons, OwnerHoldsFiles, WorkerPlaces, Attended, At, To
<1>0. /\ held \in [Readers -> 0..MaxGeneration]
      /\ owner = NoOwner <=> owner.session = Nobody /\ owner.generation = 0
  BY DEF TypeOK, StorageTypeOK, Owners, NoOwner
<1>1. CASE Discard
  <2>1. owner' = NoOwner /\ wpc' = "end" /\ frame' = frame
    BY <1>1 DEF Discard
  <2>2. CASE owner # NoOwner /\ held["clip"] # 0
    <3>1. ReleaseRead("clip") /\ held["frame"] = 0
      BY <1>1, <2>2 DEF Discard
    <3>2. held' = [held EXCEPT !["clip"] = 0] /\ active' = active /\ (active => session' = session)
      BY <3>1, Releases
    <3>3. \A r \in Readers : held'[r] = 0
      BY <1>0, <3>1, <3>2
    <3>. QED BY <2>1, <3>2, <3>3
  <2>3. CASE ~(owner # NoOwner /\ held["clip"] # 0)
    <3>1. UNCHANGED storageVars /\ \A r \in Readers : held[r] = 0
      BY <1>1, <2>3 DEF Discard
    <3>. QED BY <2>1, <3>1 DEF storageVars, coordinatorVars
  <2>. QED BY <2>2, <2>3
<1>2. CASE EndAbandoned
  <2>1. owner = NoOwner /\ owner' = NoOwner /\ wpc' # "prepared"
    BY <1>2 DEF EndAbandoned, Resume
  <2>2. CASE Ends
    BY <1>2, <2>1, <2>2, Ended DEF EndAbandoned
  <2>3. CASE ~Ends
    <3>1. UNCHANGED storageVars
      BY <1>2, <2>3 DEF EndAbandoned
    <3>. QED BY <2>1, <3>1 DEF storageVars, coordinatorVars
  <2>. QED BY <2>2, <2>3
<1>3. CASE ForceAbandoned
  <2>1. owner = NoOwner /\ owner' = NoOwner /\ wpc' = "discard" /\ ~active' /\ held' = held
    BY <1>3 DEF ForceAbandoned, ForceEnd, ownerVars
  <2>. QED BY <2>1
<1>4. CASE Prepare
  <2>1. frame \in Frames /\ frame.session \in Sessions
    BY <1>4 DEF Prepare, Accepts, TypeOK, Frames, NoFrame, Control
  <2>2. UNCHANGED <<owner, frame>> /\ wpc' = "prepared"
    BY <1>4 DEF Prepare
  <2>3. CASE BeginSession(frame.session)
    <3>1. owner = NoOwner
      BY <2>3 DEF BeginSession, CanBegin
    <3>. QED BY <2>1, <2>2, <2>3, <3>1 DEF BeginSession
  <2>4. CASE active /\ session = frame.session /\ UNCHANGED storageVars
    BY <2>1, <2>2, <2>4 DEF storageVars, coordinatorVars
  <2>. QED BY <1>4, <2>3, <2>4 DEF Prepare
<1>5. CASE PrepareSucceeds
  <2>1. active /\ session = frame.session /\ frame.session \in Sessions
    BY <1>5 DEF PrepareSucceeds, Frames
  <2>2. /\ owner' = [session |-> frame.session, generation |-> generation]
        /\ wpc' = "poll" /\ UNCHANGED <<active, session, generation>>
    BY <1>5 DEF PrepareSucceeds, Done, Retain, storageVars, coordinatorVars
  <2>3. owner' # NoOwner
    BY <2>1, <2>2 DEF NoOwner
  <2>. QED BY <2>1, <2>2, <2>3
<1>6. CASE PrepareFails
  <2>1. UNCHANGED owner /\ wpc' = "poll"
    BY <1>6 DEF PrepareFails, Done, ownerVars
  <2>2. CASE owner.generation # generation
    <3>1. EndSession(frame.session, generation) /\ owner = NoOwner
      BY <1>6, <2>2 DEF PrepareFails
    <3>. QED BY <2>1, <3>1, Ended
  <2>3. CASE owner.generation = generation
    <3>1. UNCHANGED storageVars
      BY <1>6, <2>3 DEF PrepareFails
    <3>. QED BY <2>1, <3>1 DEF storageVars, coordinatorVars
  <2>. QED BY <2>2, <2>3
<1>7. CASE Stop
  <2>1. UNCHANGED <<owner, frame>> /\ wpc' = "stopped" /\ frame.session \in Sessions
    BY <1>7 DEF Stop, Accepts, TypeOK, Frames, NoFrame, Control, ownerVars
  <2>2. owner # NoOwner
    BY <1>7, <2>1 DEF Stop, NoOwner
  <2>3. active
    BY <2>2
  <2>4. /\ UNCHANGED <<active, session, generation>>
    BY <1>7, <2>3, Releases DEF Stop, storageVars, coordinatorVars
  <2>. QED BY <2>1, <2>2, <2>3, <2>4
<1>8. CASE EndStopped
  <2>1. wpc' = "poll"
    BY <1>8 DEF EndStopped, Done
  <2>2. CASE CanEnd(owner.session, owner.generation)
    BY <1>8, <2>1, <2>2, Ended DEF EndStopped
  <2>3. CASE ~CanEnd(owner.session, owner.generation)
    <3>1. UNCHANGED <<storageVars, owner>>
      BY <1>8, <2>3 DEF EndStopped
    <3>. QED BY <2>1, <3>1 DEF storageVars, coordinatorVars
  <2>. QED BY <2>2, <2>3
<1>9. CASE ReadFrame
  <2>1. UNCHANGED <<owner, frame, wpc>> /\ owner # NoOwner
    BY <1>9 DEF ReadFrame, elsewhere, workerVars, ownerVars
  <2>. QED BY <1>9, <2>1 DEF ReadFrame, Retain
<1>10. CASE EndRead
  <2>1. UNCHANGED <<owner, frame, wpc>> /\ ReleaseRead("frame")
    BY <1>10 DEF EndRead, elsewhere, workerVars, ownerVars
  <2>2. held' = [held EXCEPT !["frame"] = 0] /\ active' = active
    BY <2>1, Releases
  <2>3. active => session' = session /\ generation' = generation
    BY <2>1, Releases
  <2>4. \A r \in Readers : held[r] = 0 => held'[r] = 0
    BY <1>0, <2>2
  <2>. QED BY <2>1, <2>2, <2>3, <2>4
<1>11. ASSUME \/ ShouldDrain \/ ApplyEpoch \/ LowerFlag \/ ReadLatest \/ ReadGate \/ RaiseAgain
              \/ Receive \/ ReceiveTimesOut \/ DropFrame
              \/ \E r \in Requesters : PublishEpoch(r) \/ PublishStep(r)
              \/ OpenChannel \/ (\E f \in Frames : Admit(f)) \/ Enqueue
       PROVE  Lessons'
  <2>1. /\ UNCHANGED <<storageVars, owner>>
        /\ UNCHANGED <<wpc, frame>> \/ wpc' \notin {"prepared", "end", "force"}
    BY <1>11 DEF ShouldDrain, ApplyEpoch, LowerFlag, ReadLatest, ReadGate, RaiseAgain, Receive,
       ReceiveTimesOut, DropFrame, PublishEpoch, PublishStep, RaiseLatest, RaiseFlag, Wake,
       OpenChannel, Admit, Enqueue, Resume, Done, workerVars, ownerVars
  <2>. QED BY <2>1 DEF storageVars, coordinatorVars
<1>. QED BY <1>1, <1>2, <1>3, <1>4, <1>5, <1>6, <1>7, <1>8, <1>9, <1>10, <1>11 DEF Next, WorkerStep

-----------------------------------------------------------------------------
(* The theorems. *)

\* The invariant holds at boot.
LEMMA TransportInit == Init => TInv
<1>. SUFFICES ASSUME Init PROVE TInv
  OBVIOUS
<1>1. IInv
  BY StorageInitInv DEF Init
<1>2. Data(<< >>) = {} /\ Cardinality({}) = 0
  BY FS_EmptySet DEF Data
<1>3. QueueTypes /\ AdmissionConserved
  <2>1. queue = << >> /\ queue \in Seq(Frames \cup {Control}) /\ Len(queue) = 0
    BY EmptySeq DEF Init
  <2>2. QueueTypes
    BY <2>1, TransportConstants DEF Init, QueueTypes
  <2>3. AdmissionConserved
    <3>1. inUse = 0 /\ offer = NoFrame /\ Cardinality(Data(queue)) = 0
      BY <1>2, <2>1 DEF Init
    <3>. QED BY <3>1 DEF AdmissionConserved
  <2>. QED BY <2>2, <2>3
<1>4. TransportTypes
  <2>1. asked \in [Requesters -> [at : {"idle", "latest", "flag", "wake"}, epoch : 0..MaxEpoch]]
    BY TransportConstants DEF Init
  <2>2. NoOwner \in Owners
    BY TransportConstants DEF Owners, NoOwner
  <2>3. published \in 1..MaxEpoch /\ socketEpoch \in 1..MaxEpoch /\ workerEpoch \in 1..MaxEpoch
    BY TransportConstants DEF Init
  <2>4. /\ latest \in 0..MaxEpoch /\ applied \in 0..MaxEpoch /\ born \in 0..MaxEpoch
        /\ attempt \in 0..MaxAttempts + 1
    BY TransportConstants DEF Init
  <2>. QED BY <2>1, <2>2, <2>3, <2>4 DEF Init, TransportTypes, Places
<1>5. Lessons
  BY TransportConstants DEF Init, StorageInit, Lessons, OwnerHoldsFiles, WorkerPlaces, Attended
<1>. QED BY <1>1, <1>3, <1>4, <1>5, TypeSplit DEF TInv, IInv

\* Every step keeps the invariant.
LEMMA TransportStep == TInv /\ [Next]_vars => TInv'
<1>. SUFFICES ASSUME TInv, [Next]_vars PROVE TInv'
  OBVIOUS
<1>1. IInv'
  BY CoordinatorStep
<1>2. CASE Next
  <2>1. QueueTypes' /\ AdmissionConserved' /\ TransportTypes' /\ Lessons'
    BY <1>2, TypeSplit, QueueStep, TypeStep, LessonStep DEF TInv
  <2>2. StorageTypeOK'
    BY <1>1 DEF IInv
  <2>3. TypeOK'
    BY <2>1, <2>2 DEF TypeOK, QueueTypes, TransportTypes
  <2>. QED BY <1>1, <2>1, <2>3 DEF TInv
<1>3. CASE UNCHANGED vars
  BY <1>1, <1>3 DEF vars, storageVars, coordinatorVars, gateVars, queueVars, workerVars, ownerVars, TInv,
     TypeOK, StorageTypeOK, AdmissionConserved, Data, Control, Lessons, OwnerHoldsFiles, WorkerPlaces,
     Attended
<1>. QED BY <1>2, <1>3

\* The invariant holds in every state of the worker and those around it.
THEOREM TransportInvariant == Spec => []TInv
<1>. QED BY TransportInit, TransportStep, PTL DEF Spec

\* Every variable keeps to its type, the two epochs, the queue and the attempts
\* of an abandonment to their bounds (RequestLessonStorageAbandonment,
\* EnqueueLessonMessage, LessonMessageWorker).
THEOREM TransportTypeOK == Spec => []TypeOK
<1>1. TInv => TypeOK
  BY DEF TInv
<1>. QED BY <1>1, TransportInvariant, PTL

\* No slot of the admission is lost or given back twice, whatever wake-ups and
\* refusals come between (EnqueueLessonMessage, LessonMessageWorker).
THEOREM AdmissionKept == Spec => []AdmissionConserved
<1>1. TInv => AdmissionConserved
  BY DEF TInv
<1>. QED BY <1>1, TransportInvariant, PTL

\* A lesson the handler believes in holds the coordinator's reservation
\* (HandleLessonPrepare, AbandonLessonStorageSession).
THEOREM LessonsHoldFiles == Spec => []OwnerHoldsFiles
<1>1. TInv => OwnerHoldsFiles
  BY DEF TInv, Lessons
<1>. QED BY <1>1, TransportInvariant, PTL

\* When no session is active no file of a lesson is open (DiscardSession,
\* ForceEndLessonSession).
THEOREM HandlesEndWithLesson == Spec => []NoHandleOutlivesLesson
<1>1. TInv => NoHandleOutlivesLesson
  BY DEF TInv, Lessons, OwnerHoldsFiles, Attended, NoHandleOutlivesLesson
<1>. QED BY <1>1, TransportInvariant, PTL

\* The worker, the requesters and the renderer are callers as the coordinator
\* expects them: what is proved of StorageSpec holds of them.
THEOREM TransportUsesCoordinator == Spec => StorageSpec
<1>1. Init => StorageInit
  BY DEF Init
<1>2. TInv /\ [Next]_vars => [StorageNext]_storageVars
  BY StorageUse DEF TInv, vars
<1>. QED BY <1>1, <1>2, TransportInvariant, PTL DEF Spec, StorageSpec
=============================================================================
