-------------------------- MODULE ChatDeliveryProofs --------------------------
(* What TLAPS proves of the intents that ChatOutbound submits: no attempt is  *)
(* lost, none is reported to nobody, no superseded control is written, and     *)
(* the connection texts implement TextDelivery.                                *)
EXTENDS ChatOutboundProofs, SequenceFilterProofs

\* The generation the application believes in is the one that is published, the
\* worker's and the reservation's; a worker that has seen it retired is on its
\* way out. What was ever submitted is of this generation or of a past one.
Past(g) == g <= generation /\ (outGeneration = 0 => ~IsCurrent(g))
Generations ==
    /\ outGeneration # 0 =>
         /\ outGeneration = generation /\ generation # Exhausted
         /\ reservation = generation /\ activation.gen = generation
         /\ workerState = 1 /\ pc \notin {"lastFinish", "lastComplete", "retire"}
    /\ outFault => outGeneration = 0
    /\ \A i \in DOMAIN queue : Past(queue[i].gen)
    /\ Past(active.gen) /\ Past(completion.job.gen) /\ Past(collected.job.gen)

\* The jobs stand in line in the order of their identities: collected, then in
\* the worker's hands or completed, then queued. None is newer than the last
\* one that was admitted.
Issued(id) == 0 < id /\ id <= lastAdmitted
Line ==
    /\ Len(queue) <= 2
    /\ \A i \in DOMAIN queue :
         /\ Issued(queue[i].id)
         /\ active.id < queue[i].id /\ completion.job.id < queue[i].id
         /\ collected.job.id < queue[i].id
         /\ \A k \in DOMAIN queue : i < k => queue[i].id < queue[k].id
    /\ active = NoJob \/ completion = NoCompletion
    /\ active # NoJob => Issued(active.id) /\ collected.job.id < active.id
    /\ completion # NoCompletion =>
         /\ completion.job # NoJob /\ Issued(completion.job.id)
         /\ collected.job.id < completion.job.id
    /\ collected # NoCompletion => collected.job # NoJob /\ Issued(collected.job.id)
    /\ collected # NoCompletion <=> apc = "deliver"
    /\ collected.stale => ~IsCurrent(collected.job.gen)

\* What RunOnce keeps of its job is what the mailbox believes it has; up to the
\* write there is no result.
Placed ==
    /\ workerJob = active
    /\ pc = "take" => workerJob = NoJob
    /\ pc \in Carrying => workerResult = "Busy"

\* Only the front of a store is ever submitted, a text only for the reservation
\* that is held; a superseded control is of a generation that is retired. What
\* has been told is what has left the store of texts.
Popped == textCount - Len(texts)
TextStore ==
    /\ Len(texts) <= textCount
    /\ \A i \in DOMAIN texts :
         /\ texts[i].ref = Popped + i
         /\ texts[i].admitted =>
              /\ i = 1 /\ Issued(texts[i].id)
              /\ reservation # 0 /\ texts[i].reservation = reservation
              /\ outGeneration # 0 => texts[i].gen = outGeneration
    /\ \A r \in Texts : told[r] = "none" <=> Popped < r
    /\ apc = "submit" => ~texts[1].admitted /\ texts[1].outcome = "Pending"
ControlStore ==
    /\ \A i \in DOMAIN controls :
         /\ controls[i].ref <= MaxTexts + controlCount
         /\ \A k \in DOMAIN controls : i < k => controls[i].ref < controls[k].ref
         /\ Past(controls[i].gen)
         /\ controls[i].admitted =>
              /\ i = 1 /\ Issued(controls[i].id)
              /\ controls[i].outcome = "Superseded" => ~IsCurrent(controls[i].gen)
Apart ==
    (Len(texts) > 0 /\ Len(controls) > 0) =>
        (texts[1].admitted /\ controls[1].admitted => texts[1].id # controls[1].id)

\* Whatever can still complete has the front intent that submitted it waiting
\* for it, and a front text that was submitted can still complete, unless its
\* generation is retired.
Held == ({queue[i] : i \in {k \in DOMAIN queue : IsCurrent(queue[k].gen)}}
           \cup {active, completion.job, collected.job}) \ {NoJob}
Carries(t, j) == t.admitted /\ t.id = j.id /\ t.ref = j.ref /\ t.gen = j.gen
                 /\ t.reservation = reservation
Claimed(j) ==
    /\ reservation # 0
    /\ \/ j.kind = "text" /\ Len(texts) > 0 /\ Carries(texts[1], j)
       \/ j.kind = "control" /\ Len(controls) > 0 /\ Carries(controls[1], j)
Claims ==
    /\ \A j \in Held : Claimed(j)
    /\ (Len(texts) > 0 /\ outGeneration # 0) =>
         (texts[1].admitted => \E j \in Held : j.id = texts[1].id)

\* The wire has no text after the front one, and the front one only when it has
\* been reported or its report is on its way; what is reported sent is there.
Logged(ref) == \E i \in DOMAIN TextLog : TextLog[i] = ref
Over(r) == r \in {"Sent", "Failed"}
Reported(id) == \/ workerJob.id = id /\ Over(workerResult)
                \/ completion.job.id = id /\ Over(completion.result)
                \/ collected.job.id = id /\ Over(collected.result)
SentLogged(j, r) == j.kind = "text" /\ r = "Sent" => Logged(j.ref)
Log ==
    /\ \A i \in DOMAIN TextLog :
         TextLog[i] \in 1 .. (IF Len(texts) > 0 THEN Popped + 1 ELSE Popped)
    /\ (Len(texts) > 0 /\ Logged(Popped + 1)) =>
         IF texts[1].admitted THEN Reported(texts[1].id)
         ELSE texts[1].outcome # "Pending"
    /\ \A i \in DOMAIN texts : texts[i].outcome = "Sent" => Logged(texts[i].ref)
    /\ SentLogged(workerJob, workerResult)
    /\ SentLogged(completion.job, completion.result)
    /\ SentLogged(collected.job, collected.result)

DInv == /\ IInv /\ Generations /\ Line /\ Placed /\ TextStore /\ ControlStore /\ Apart
        /\ Claims /\ Log

-----------------------------------------------------------------------------
(* What the types say of each element *)

\* A job's numbers, the empty one's included.
LEMMA JobFacts ==
    ASSUME NEW j \in Jobs \cup {NoJob}
    PROVE  j.id \in Nat /\ j.gen \in 0 .. Exhausted
  BY MailboxAssumption DEF Jobs, NoJob

\* The jobs of the mailbox and of the two tasks.
LEMMA MailFacts ==
    ASSUME IInv
    PROVE  /\ queue \in Seq(Jobs) /\ Len(queue) \in Nat /\ DOMAIN queue = 1 .. Len(queue)
           /\ \A i \in DOMAIN queue :
                /\ queue[i] \in Jobs /\ queue[i] # NoJob
                /\ queue[i].id \in Nat /\ queue[i].gen \in 0 .. Exhausted
           /\ active \in Jobs \cup {NoJob} /\ workerJob \in Jobs \cup {NoJob}
           /\ completion.job \in Jobs \cup {NoJob} /\ collected.job \in Jobs \cup {NoJob}
           /\ active.id \in Nat /\ active.gen \in 0 .. Exhausted
           /\ completion.job.id \in Nat /\ completion.job.gen \in 0 .. Exhausted
           /\ collected.job.id \in Nat /\ collected.job.gen \in 0 .. Exhausted
           /\ lastAdmitted \in Nat
  <1>1. /\ queue \in Seq(Jobs) /\ active \in Jobs \cup {NoJob} /\ workerJob \in Jobs \cup {NoJob}
        /\ completion \in Completions /\ collected \in Completions /\ lastAdmitted \in Nat
    BY DEF IInv, TypeOK, MailboxTypes, WorkerTypes, ApplicationTypes
  <1>2. completion.job \in Jobs \cup {NoJob} /\ collected.job \in Jobs \cup {NoJob}
    BY <1>1 DEF Completions, NoCompletion
  <1>3. \A i \in DOMAIN queue : queue[i] \in Jobs
    BY <1>1
  <1>4. NoJob \notin Jobs
    BY DEF Jobs, NoJob
  <1>5. \A j \in Jobs : j # NoJob /\ j.id \in Nat /\ j.gen \in 0 .. Exhausted
    BY <1>4 DEF Jobs
  <1>6. \A i \in DOMAIN queue : queue[i] # NoJob /\ queue[i].id \in Nat /\ queue[i].gen \in 0 .. Exhausted
    BY <1>3, <1>5, Zenon
  <1>. QED BY <1>1, <1>2, <1>3, <1>6, JobFacts

\* The generations.
LEMMA NumberFacts ==
    ASSUME IInv
    PROVE  /\ generation \in 0 .. Exhausted /\ outGeneration \in 0 .. Exhausted
           /\ reservation \in 0 .. Exhausted /\ activation.gen \in 0 .. Exhausted
           /\ Exhausted \in Nat \ {0}
           /\ textCount \in Nat /\ textCount <= MaxTexts /\ controlCount \in Nat /\ MaxTexts \in Nat
  BY MailboxAssumption, WorkerAssumption
  DEF IInv, TypeOK, MailboxTypes, WorkerTypes, ApplicationTypes, IntentTypes

\* The intents of the two stores.
LEMMA IntentFacts ==
    ASSUME NEW refs, NEW outcomes, NEW t \in Intents(refs, outcomes)
    PROVE  /\ t.ref \in refs /\ t.owner \in Nat /\ t.id \in Nat /\ t.gen \in 0 .. Exhausted
           /\ t.admitted \in BOOLEAN /\ t.reservation \in 0 .. Exhausted /\ t.outcome \in outcomes
  BY DEF Intents

LEMMA TextFacts ==
    ASSUME IInv
    PROVE  /\ texts \in Seq(TextIntents) /\ Len(texts) \in Nat /\ DOMAIN texts = 1 .. Len(texts)
           /\ \A i \in DOMAIN texts :
                /\ texts[i] \in TextIntents /\ texts[i].ref \in Texts /\ texts[i].id \in Nat
                /\ texts[i].gen \in 0 .. Exhausted /\ texts[i].admitted \in BOOLEAN
                /\ texts[i].outcome \in {"Pending", "Sent", "Failed", "Cancelled"}
  <1>1. texts \in Seq(TextIntents)
    BY DEF IInv, TypeOK, IntentTypes
  <1>2. \A i \in DOMAIN texts : texts[i] \in TextIntents
    BY <1>1
  <1>. QED BY <1>1, <1>2, IntentFacts DEF TextIntents

LEMMA ControlFacts ==
    ASSUME IInv
    PROVE  /\ controls \in Seq(ControlIntents) /\ Len(controls) \in Nat
           /\ DOMAIN controls = 1 .. Len(controls)
           /\ \A i \in DOMAIN controls :
                /\ controls[i] \in ControlIntents /\ controls[i].ref \in Controls
                /\ controls[i].id \in Nat /\ controls[i].gen \in 0 .. Exhausted
                /\ controls[i].admitted \in BOOLEAN
                /\ controls[i].outcome \in {"Pending", "Failed", "Superseded"}
  <1>1. controls \in Seq(ControlIntents)
    BY DEF IInv, TypeOK, IntentTypes
  <1>2. \A i \in DOMAIN controls : controls[i] \in ControlIntents
    BY <1>1
  <1>. QED BY <1>1, <1>2, IntentFacts DEF ControlIntents

-----------------------------------------------------------------------------
(* How the generation moves *)

\* A step that leaves the worker's reservation alone publishes at most the next
\* generation, and then believes in none.
Moves ==
    /\ UNCHANGED <<reservation, activation, workerState>>
    /\ \/ UNCHANGED <<generation, outGeneration>>
       \/ generation' = Advanced(generation) /\ outGeneration' = 0
\* ActivateChatOutbound, and the acknowledgement of a retired worker.
Starts ==
    /\ reservation = 0 /\ workerState = 0 /\ workerState' = 1
    /\ generation' = Advanced(generation) /\ generation' # Exhausted
    /\ reservation' = generation' /\ outGeneration' = generation'
    /\ activation'.gen = generation'
Frees ==
    /\ workerState = 2 /\ workerState' = 0 /\ reservation' = 0
    /\ UNCHANGED <<generation, outGeneration, activation>>

\* What is of a past or of the current generation stays so, and a generation
\* that was not current does not become so.
LEMMA PastStep ==
    ASSUME IInv, NEW g \in 0 .. Exhausted, Past(g), Moves \/ Starts \/ Frees
    PROVE  /\ g <= generation'
           /\ outGeneration' = 0 => ~IsCurrentIn(g, generation')
           /\ IsCurrentIn(g, generation') => IsCurrent(g) /\ UNCHANGED <<generation, outGeneration>>
  <1>1. /\ generation \in 0 .. Exhausted /\ outGeneration \in 0 .. Exhausted /\ Exhausted \in Nat \ {0}
    BY NumberFacts
  <1>. QED BY <1>1 DEF Past, Moves, Starts, Frees, Advanced, IsCurrent, IsCurrentIn

\* The generation of the application is one of these.
LEMMA OwnPast ==
    ASSUME IInv, Generations
    PROVE  Past(outGeneration)
  BY NumberFacts DEF Generations, Past, IsCurrent, IsCurrentIn

\* What Generations says of the words alone.
Words ==
    /\ outGeneration # 0 =>
         /\ outGeneration = generation /\ generation # Exhausted
         /\ reservation = generation /\ activation.gen = generation
         /\ workerState = 1 /\ pc \notin {"lastFinish", "lastComplete", "retire"}
    /\ outFault => outGeneration = 0
LEMMA WordsStep ==
    ASSUME IInv, Generations, Moves \/ Starts \/ Frees, UNCHANGED pc,
           outFault' => outGeneration' = 0
    PROVE  Words'
  <1>1. /\ generation \in 0 .. Exhausted /\ outGeneration \in 0 .. Exhausted /\ Exhausted \in Nat \ {0}
    BY NumberFacts
  <1>2. workerState = 0 => pc \in {"sleep", "start"}
    BY DEF IInv, Ownership
  <1>. QED BY <1>1, <1>2 DEF Generations, Words, Moves, Starts, Frees, Advanced

\* Who is held.
LEMMA HeldIn ==
    \A j : j \in Held <=>
        /\ j # NoJob
        /\ \/ j = active \/ j = completion.job \/ j = collected.job
           \/ \E k \in DOMAIN queue : IsCurrent(queue[k].gen) /\ j = queue[k]
  BY DEF Held

-----------------------------------------------------------------------------
(* How the stores of intents change outside a submission and a delivery *)

\* The outcome of a front intent is decided; an attempt that is out is left alone.
Settles(s, t) ==
    /\ t.ref = s.ref /\ t.admitted = s.admitted
    /\ s.admitted => t.id = s.id /\ t.gen = s.gen /\ t.reservation = s.reservation
TextsKeep == UNCHANGED <<texts, textCount, told>>
TextsDecided ==
    /\ UNCHANGED <<textCount, told>> /\ Len(texts) > 0
    /\ \E t \in TextIntents :
         /\ texts' = [texts EXCEPT ![1] = t] /\ Settles(texts[1], t)
         /\ t.outcome \in {texts[1].outcome, "Failed", "Cancelled"}
TextsPop ==
    /\ UNCHANGED textCount /\ Len(texts) > 0 /\ texts' = Tail(texts)
    /\ ~texts[1].admitted
    /\ \E o \in {"Sent", "Failed", "Cancelled"} :
         /\ told' = [told EXCEPT ![texts[1].ref] = o]
         /\ o = "Sent" => texts[1].outcome = "Sent"
TextsAppend ==
    /\ UNCHANGED told /\ textCount' = textCount + 1
    /\ \E t \in TextIntents :
         texts' = Append(texts, t) /\ t.ref = textCount' /\ ~t.admitted /\ t.outcome = "Pending"
TextsQuiet == TextsKeep \/ TextsDecided \/ TextsPop \/ TextsAppend

ControlsKeep == UNCHANGED controls
ControlsDecided ==
    /\ Len(controls) > 0
    /\ \E c \in ControlIntents :
         /\ controls' = [controls EXCEPT ![1] = c] /\ Settles(controls[1], c)
         /\ c.gen \in {controls[1].gen, outGeneration}
         /\ c.outcome \in {controls[1].outcome, "Failed"}
ControlsSupersede == controls' = Superseded(controls) /\ outGeneration' = 0
ControlsTail == Len(controls) > 0 /\ controls' = Tail(controls)
ControlsDrop ==
    /\ ControlsTail
    /\ ~controls[1].admitted \/ controls[1].reservation # reservation
ControlsAppend ==
    \E c \in ControlIntents :
        /\ controls' = Append(controls, c) /\ c.ref = MaxTexts + controlCount'
        /\ controlCount' > controlCount /\ ~c.admitted /\ c.gen = 0
ControlsQuiet ==
    /\ controlCount' \in Nat /\ controlCount <= controlCount'
    /\ ControlsKeep \/ ControlsDecided \/ ControlsSupersede \/ ControlsDrop \/ ControlsAppend

\* A text keeps the reservation it was submitted for, if one is held at all.
Bound(t) ==
    /\ reservation # 0 /\ t.reservation = reservation
    /\ outGeneration # 0 => t.gen = outGeneration
LEMMA BoundStep ==
    ASSUME NEW t, Bound(t), Moves \/ Starts
    PROVE  /\ Moves /\ reservation' # 0 /\ t.reservation = reservation'
           /\ outGeneration' # 0 => t.gen = outGeneration'
  BY DEF Bound, Moves, Starts

\* The store of texts keeps its order and its account of what was told.
LEMMA TextStoreQuiet ==
    ASSUME IInv, TextStore, Moves \/ Starts, UNCHANGED lastAdmitted,
           \/ TextsKeep /\ (apc' = "submit" => ~texts[1].admitted /\ texts[1].outcome = "Pending")
           \/ TextsQuiet /\ apc' # "submit"
    PROVE  TextStore'
  <1>1. /\ texts \in Seq(TextIntents) /\ Len(texts) \in Nat /\ DOMAIN texts = 1 .. Len(texts)
        /\ \A i \in DOMAIN texts : texts[i] \in TextIntents /\ texts[i].ref \in Texts
        /\ textCount \in Nat /\ lastAdmitted \in Nat /\ MaxTexts \in Nat
        /\ told \in [Texts -> {"none", "Sent", "Failed", "Cancelled"}]
    BY TextFacts, NumberFacts, MailFacts DEF IInv, TypeOK, IntentTypes
  <1>2. \A i \in DOMAIN texts : texts[i].admitted => i = 1 /\ Issued(texts[i].id) /\ Bound(texts[i])
    BY DEF TextStore, Bound
  <1>3. \A i \in DOMAIN texts : texts[i].admitted =>
          /\ reservation' # 0 /\ texts[i].reservation = reservation'
          /\ outGeneration' # 0 => texts[i].gen = outGeneration'
    BY <1>2, BoundStep
  <1>5. CASE TextsKeep /\ (apc' = "submit" => ~texts[1].admitted /\ texts[1].outcome = "Pending")
    <2>1. Popped' = Popped /\ UNCHANGED <<texts, textCount, told>>
      BY <1>5 DEF TextsKeep, Popped
    <2>2. apc' = "submit" => ~texts[1].admitted /\ texts[1].outcome = "Pending"
      BY <1>5
    <2>. QED BY <1>2, <1>3, <2>1, <2>2 DEF TextStore, Issued
  <1>6. CASE TextsDecided /\ apc' # "submit"
    <2>1. PICK t \in TextIntents :
            /\ texts' = [texts EXCEPT ![1] = t] /\ Settles(texts[1], t)
            /\ UNCHANGED <<textCount, told>> /\ Len(texts) > 0
      BY <1>6 DEF TextsDecided
    <2>2. /\ Len(texts') = Len(texts) /\ DOMAIN texts' = DOMAIN texts /\ 1 \in DOMAIN texts
          /\ texts'[1] = t /\ \A i \in DOMAIN texts : i # 1 => texts'[i] = texts[i]
      BY <1>1, <2>1
    <2>3. Popped' = Popped
      BY <2>1, <2>2 DEF Popped
    <2>4. \A i \in DOMAIN texts : texts'[i].ref = Popped + i
      BY <2>1, <2>2 DEF TextStore, Settles
    <2>5. \A i \in DOMAIN texts : texts'[i].admitted =>
            /\ i = 1 /\ Issued(texts'[i].id) /\ reservation' # 0
            /\ texts'[i].reservation = reservation'
            /\ outGeneration' # 0 => texts'[i].gen = outGeneration'
      <3>1. ASSUME NEW i \in DOMAIN texts, i # 1 PROVE ~texts'[i].admitted
        BY <1>2, <2>2, <3>1
      <3>2. texts'[1].admitted => /\ texts[1].admitted /\ texts'[1].id = texts[1].id
                                  /\ texts'[1].gen = texts[1].gen
                                  /\ texts'[1].reservation = texts[1].reservation
        BY <2>1, <2>2 DEF Settles
      <3>3. texts'[1].admitted => /\ Issued(texts'[1].id) /\ reservation' # 0
                                  /\ texts'[1].reservation = reservation'
                                  /\ outGeneration' # 0 => texts'[1].gen = outGeneration'
        BY <1>2, <1>3, <2>2, <3>2
      <3>. QED BY <3>1, <3>3
    <2>. QED BY <1>6, <2>1, <2>2, <2>3, <2>4, <2>5 DEF TextStore, Issued
  <1>7. CASE TextsPop /\ apc' # "submit"
    <2>1. PICK o \in {"Sent", "Failed", "Cancelled"} :
            /\ texts' = Tail(texts) /\ UNCHANGED textCount /\ Len(texts) > 0 /\ ~texts[1].admitted
            /\ told' = [told EXCEPT ![texts[1].ref] = o]
      BY <1>7 DEF TextsPop
    <2>2. /\ Len(texts') = Len(texts) - 1 /\ DOMAIN texts' = 1 .. (Len(texts) - 1)
          /\ \A i \in DOMAIN texts' : i + 1 \in DOMAIN texts /\ texts'[i] = texts[i + 1]
          /\ 1 \in DOMAIN texts
      BY <1>1, <2>1
    <2>3. Popped' = Popped + 1 /\ Popped \in Nat /\ texts[1].ref = Popped + 1
      <3>1. Len(texts) <= textCount /\ texts[1].ref = Popped + 1
        BY <2>2 DEF TextStore
      <3>2. Popped' = textCount - Len(texts') /\ Popped = textCount - Len(texts)
        BY <2>1 DEF Popped
      <3>. HIDE DEF Popped
      <3>. QED BY <1>1, <2>2, <3>1, <3>2
    <2>4. \A i \in DOMAIN texts' : texts'[i].ref = Popped + 1 + i /\ ~texts'[i].admitted
      <3>1. ASSUME NEW i \in DOMAIN texts'
            PROVE  texts'[i].ref = Popped + 1 + i /\ ~texts'[i].admitted
        <4>1. /\ i \in Nat \ {0} /\ i + 1 \in DOMAIN texts /\ texts'[i] = texts[i + 1]
          BY <2>2, <1>1
        <4>2. texts[i + 1].ref = Popped + (i + 1) /\ ~texts[i + 1].admitted
          BY <1>2, <4>1 DEF TextStore
        <4>. QED BY <2>3, <4>1, <4>2
      <3>. QED BY <3>1
    <2>5. \A r \in Texts : told'[r] = "none" <=> Popped + 1 < r
      <3>1. told \in [Texts -> {"none", "Sent", "Failed", "Cancelled"}] /\ Popped + 1 \in Texts
        BY <1>1, <2>2, <2>3 DEF IInv, TypeOK, IntentTypes
      <3>2. \A r \in Texts : r \in Nat /\ (told[r] = "none" <=> Popped < r)
        BY DEF TextStore, Texts
      <3>3. \A r \in Texts : told'[r] = IF r = Popped + 1 THEN o ELSE told[r]
        BY <2>1, <2>3, <3>1
      <3>. QED BY <2>1, <2>3, <3>2, <3>3
    <2>7. Len(texts') <= textCount'
      BY <1>1, <2>1, <2>2 DEF TextStore
    <2>. QED BY <1>7, <2>3, <2>4, <2>5, <2>7 DEF TextStore, Issued
  <1>8. CASE TextsAppend /\ apc' # "submit"
    <2>1. PICK t \in TextIntents :
            /\ texts' = Append(texts, t) /\ t.ref = textCount + 1 /\ ~t.admitted
            /\ textCount' = textCount + 1 /\ UNCHANGED told
      BY <1>8 DEF TextsAppend
    <2>2. /\ Len(texts') = Len(texts) + 1 /\ DOMAIN texts' = 1 .. (Len(texts) + 1)
          /\ texts'[Len(texts) + 1] = t
          /\ \A i \in DOMAIN texts : texts'[i] = texts[i]
      BY <1>1, <2>1
    <2>3. Popped' = Popped /\ Popped \in Nat /\ Popped + Len(texts) + 1 = textCount + 1
      BY <1>1, <2>1, <2>2 DEF Popped, TextStore
    <2>4. \A i \in DOMAIN texts' :
            \/ i \in DOMAIN texts /\ texts'[i] = texts[i]
            \/ i = Len(texts) + 1 /\ texts'[i] = t
      BY <1>1, <2>2
    <2>5. \A i \in DOMAIN texts' :
            /\ texts'[i].ref = Popped + i
            /\ texts'[i].admitted => i \in DOMAIN texts /\ texts'[i] = texts[i]
      BY <1>1, <2>1, <2>3, <2>4 DEF TextStore
    <2>7. Len(texts') <= textCount'
      BY <1>1, <2>1, <2>2 DEF TextStore
    <2>. QED BY <1>2, <1>3, <1>8, <2>1, <2>3, <2>5, <2>7 DEF TextStore, Issued
  <1>. QED BY <1>5, <1>6, <1>7, <1>8 DEF TextsQuiet

\* The store of controls keeps its order, and what it supersedes is retired.
LEMMA ControlStoreQuiet ==
    ASSUME IInv, Generations, ControlStore, Moves \/ Starts, UNCHANGED lastAdmitted,
           ControlsQuiet \/ (ControlsTail /\ UNCHANGED controlCount)
    PROVE  ControlStore'
  <1>. DEFINE Stays(c) ==
                /\ c.ref <= MaxTexts + controlCount' /\ c.gen <= generation'
                /\ outGeneration' = 0 => ~IsCurrentIn(c.gen, generation')
                /\ c.admitted => /\ Issued(c.id)
                                 /\ c.outcome = "Superseded" => ~IsCurrentIn(c.gen, generation')
  <1>1. /\ controls \in Seq(ControlIntents) /\ Len(controls) \in Nat
        /\ DOMAIN controls = 1 .. Len(controls)
        /\ \A i \in DOMAIN controls :
              controls[i] \in ControlIntents /\ controls[i].ref \in Nat /\ controls[i].gen \in 0 .. Exhausted
    BY ControlFacts, WorkerAssumption DEF Controls
  <1>2. /\ outGeneration \in 0 .. Exhausted /\ controlCount \in Nat /\ MaxTexts \in Nat
        /\ controlCount' \in Nat /\ controlCount <= controlCount'
    BY NumberFacts DEF ControlsQuiet
  <1>3. \A g \in 0 .. Exhausted : Past(g) =>
           /\ g <= generation' /\ (outGeneration' = 0 => ~IsCurrentIn(g, generation'))
           /\ IsCurrentIn(g, generation') => IsCurrent(g)
    BY PastStep
  <1>4. /\ \A i \in DOMAIN controls : Past(controls[i].gen) /\ controls[i].ref <= MaxTexts + controlCount
        /\ \A i \in DOMAIN controls : controls[i].admitted =>
              i = 1 /\ Issued(controls[i].id)
                    /\ (controls[i].outcome = "Superseded" => ~IsCurrent(controls[i].gen))
        /\ \A i, k \in DOMAIN controls : i < k => controls[i].ref < controls[k].ref
    BY DEF ControlStore
  <1>5. \A i \in DOMAIN controls : Stays(controls[i])
    BY <1>1, <1>2, <1>3, <1>4
  <1>6. ASSUME \A i \in DOMAIN controls' : Stays(controls'[i]) /\ (controls'[i].admitted => i = 1),
               \A i, k \in DOMAIN controls' : i < k => controls'[i].ref < controls'[k].ref
        PROVE  ControlStore'
    BY <1>6 DEF ControlStore, Past, Issued, IsCurrent
  <1>7. CASE ControlsKeep
    BY <1>4, <1>5, <1>6, <1>7 DEF ControlsKeep
  <1>8. CASE ControlsDecided
    <2>1. PICK c \in ControlIntents :
            /\ controls' = [controls EXCEPT ![1] = c] /\ Settles(controls[1], c)
            /\ c.gen \in {controls[1].gen, outGeneration}
            /\ c.outcome \in {controls[1].outcome, "Failed"}
      BY <1>8 DEF ControlsDecided
    <2>2. /\ DOMAIN controls' = DOMAIN controls /\ 1 \in DOMAIN controls
          /\ controls'[1] = c /\ \A i \in DOMAIN controls : i # 1 => controls'[i] = controls[i]
      BY <1>1, <1>8, <2>1 DEF ControlsDecided
    <2>3. Past(c.gen) /\ c.gen \in 0 .. Exhausted
      BY <1>1, <1>2, <1>4, <2>1, <2>2, OwnPast
    <2>4. c.ref = controls[1].ref /\ c.admitted = controls[1].admitted
          /\ (c.admitted => c.id = controls[1].id /\ c.gen = controls[1].gen)
      BY <2>1 DEF Settles
    <2>5. Stays(c)
      BY <1>3, <1>5, <2>1, <2>2, <2>3, <2>4
    <2>6. \A i \in DOMAIN controls' : /\ controls'[i].ref = controls[i].ref
                                      /\ controls'[i].admitted = controls[i].admitted
                                      /\ Stays(controls'[i])
      BY <1>5, <2>2, <2>4, <2>5
    <2>. HIDE DEF Stays
    <2>. QED BY <1>4, <1>6, <2>2, <2>6
  <1>9. CASE ControlsSupersede
    <2>1. /\ DOMAIN controls' = DOMAIN controls
          /\ \A i \in DOMAIN controls : controls'[i] =
               IF controls[i].outcome = "Pending" THEN [controls[i] EXCEPT !.outcome = "Superseded"]
               ELSE controls[i]
      BY <1>9 DEF ControlsSupersede, Superseded
    <2>2. \A c \in ControlIntents :
            LET d == [c EXCEPT !.outcome = "Superseded"] IN
            d.ref = c.ref /\ d.gen = c.gen /\ d.admitted = c.admitted /\ d.id = c.id
      BY DEF ControlIntents, Intents
    <2>3. \A i \in DOMAIN controls : /\ controls'[i].ref = controls[i].ref
                                     /\ controls'[i].admitted = controls[i].admitted
                                     /\ controls'[i].gen = controls[i].gen
                                     /\ controls'[i].id = controls[i].id
      BY <1>1, <2>1, <2>2
    <2>4. \A i \in DOMAIN controls : Stays(controls'[i])
      BY <1>5, <1>9, <2>3 DEF ControlsSupersede
    <2>. HIDE DEF Stays
    <2>. QED BY <1>4, <1>6, <2>1, <2>3, <2>4
  <1>10. CASE ControlsTail
    <2>1. /\ DOMAIN controls' = 1 .. (Len(controls) - 1)
          /\ \A i \in DOMAIN controls' : i \in Nat \ {0} /\ i + 1 \in DOMAIN controls
                                          /\ controls'[i] = controls[i + 1]
      BY <1>1, <1>10 DEF ControlsTail
    <2>2. \A i \in DOMAIN controls' : Stays(controls'[i]) /\ ~controls'[i].admitted
      BY <1>4, <1>5, <2>1
    <2>3. \A i, k \in DOMAIN controls' : i < k => controls'[i].ref < controls'[k].ref
      BY <1>4, <2>1
    <2>. HIDE DEF Stays
    <2>. QED BY <1>6, <2>2, <2>3
  <1>11. CASE ControlsAppend
    <2>1. PICK c \in ControlIntents :
            /\ controls' = Append(controls, c) /\ c.ref = MaxTexts + controlCount'
            /\ controlCount' > controlCount /\ ~c.admitted /\ c.gen = 0
      BY <1>11 DEF ControlsAppend
    <2>2. /\ DOMAIN controls' = 1 .. (Len(controls) + 1)
          /\ controls'[Len(controls) + 1] = c
          /\ \A i \in DOMAIN controls : controls'[i] = controls[i]
      BY <1>1, <2>1
    <2>3. \A i \in DOMAIN controls' :
            \/ i \in DOMAIN controls /\ controls'[i] = controls[i]
            \/ i = Len(controls) + 1 /\ controls'[i] = c
      BY <1>1, <2>2
    <2>4. Stays(c)
      <3>1. generation' \in Nat
        BY NumberFacts DEF Moves, Starts, Advanced
      <3>2. c.ref <= MaxTexts + controlCount'
        <4>1. PICK n \in Nat : n = controlCount'
          BY <1>2, Zenon
        <4>2. c.ref = MaxTexts + n
          BY <2>1, <4>1, Zenon
        <4>3. c.ref <= MaxTexts + n
          BY <1>2, <4>2
        <4>. QED BY <4>1, <4>3
      <3>4. c.gen <= generation'
        <4>1. c.gen = 0
          BY <2>1
        <4>. QED BY <3>1, <4>1
      <3>3. ~IsCurrentIn(c.gen, generation')
        BY <2>1 DEF IsCurrentIn
      <3>. QED BY <2>1, <3>2, <3>3, <3>4, Zenon
    <2>5. \A i \in DOMAIN controls' : Stays(controls'[i]) /\ (controls'[i].admitted => i = 1)
      BY <1>4, <1>5, <2>1, <2>3, <2>4
    <2>6. \A i, k \in DOMAIN controls' : i < k => controls'[i].ref < controls'[k].ref
      <3>1. ASSUME NEW i \in DOMAIN controls', NEW k \in DOMAIN controls', i < k
            PROVE  controls'[i].ref < controls'[k].ref
        <4>1. i \in DOMAIN controls /\ controls'[i] = controls[i]
          BY <1>1, <2>2, <3>1
        <4>2. CASE k \in DOMAIN controls
          BY <1>4, <2>2, <3>1, <4>1, <4>2
        <4>3. CASE k = Len(controls) + 1
          BY <1>1, <1>2, <1>4, <2>1, <2>2, <4>1, <4>3
        <4>. QED BY <2>3, <4>2, <4>3
      <3>. QED BY <3>1
    <2>. HIDE DEF Stays
    <2>. QED BY <1>6, <2>5, <2>6
  <1>. QED BY <1>7, <1>8, <1>9, <1>10, <1>11 DEF ControlsQuiet, ControlsDrop

\* What a text keeps while it is submitted, and a control of the reservation.
Identity(t) == <<t.id, t.ref, t.gen, t.reservation>>
LEMMA FrontsQuiet ==
    ASSUME IInv, TextStore, ControlStore, TextsQuiet, ControlsQuiet
    PROVE  /\ Len(texts) > 0 /\ texts[1].admitted =>
                Len(texts') > 0 /\ texts'[1].admitted /\ Identity(texts'[1]) = Identity(texts[1])
           /\ Len(texts') > 0 /\ texts'[1].admitted =>
                Len(texts) > 0 /\ texts[1].admitted /\ Identity(texts'[1]) = Identity(texts[1])
           /\ Len(controls) > 0 /\ controls[1].admitted /\ controls[1].reservation = reservation =>
                Len(controls') > 0 /\ controls'[1].admitted /\ Identity(controls'[1]) = Identity(controls[1])
           /\ Len(controls') > 0 /\ controls'[1].admitted =>
                Len(controls) > 0 /\ controls[1].admitted /\ Identity(controls'[1]) = Identity(controls[1])
  <1>1. /\ texts \in Seq(TextIntents) /\ Len(texts) \in Nat /\ DOMAIN texts = 1 .. Len(texts)
        /\ \A i \in DOMAIN texts : texts[i].admitted => i = 1
    BY TextFacts DEF TextStore
  <1>2. /\ controls \in Seq(ControlIntents) /\ Len(controls) \in Nat
        /\ DOMAIN controls = 1 .. Len(controls)
        /\ \A i \in DOMAIN controls : controls[i].admitted => i = 1
    BY ControlFacts DEF ControlStore
  <1>3. /\ Len(texts) > 0 /\ texts[1].admitted =>
             Len(texts') > 0 /\ texts'[1].admitted /\ Identity(texts'[1]) = Identity(texts[1])
        /\ Len(texts') > 0 /\ texts'[1].admitted =>
             Len(texts) > 0 /\ texts[1].admitted /\ Identity(texts'[1]) = Identity(texts[1])
    <2>1. CASE TextsKeep
      BY <2>1 DEF TextsKeep
    <2>2. CASE TextsDecided
      <3>1. PICK t \in TextIntents :
              texts' = [texts EXCEPT ![1] = t] /\ Settles(texts[1], t) /\ Len(texts) > 0
        BY <2>2 DEF TextsDecided
      <3>2. Len(texts') = Len(texts) /\ texts'[1] = t
        BY <1>1, <3>1
      <3>. QED BY <3>1, <3>2 DEF Settles, Identity
    <2>3. CASE TextsPop
      <3>1. /\ ~texts[1].admitted /\ Len(texts') = Len(texts) - 1
            /\ Len(texts') > 0 => 2 \in DOMAIN texts /\ texts'[1] = texts[2]
        BY <1>1, <2>3 DEF TextsPop
      <3>. QED BY <1>1, <3>1
    <2>4. CASE TextsAppend
      <3>1. PICK t \in TextIntents : texts' = Append(texts, t) /\ ~t.admitted
        BY <2>4 DEF TextsAppend
      <3>2. /\ Len(texts') = Len(texts) + 1
            /\ Len(texts) > 0 => texts'[1] = texts[1]
            /\ Len(texts) = 0 => texts'[1] = t
        BY <1>1, <3>1
      <3>. QED BY <1>1, <3>1, <3>2 DEF Identity
    <2>. QED BY <2>1, <2>2, <2>3, <2>4 DEF TextsQuiet
  <1>4. /\ Len(controls) > 0 /\ controls[1].admitted /\ controls[1].reservation = reservation =>
             Len(controls') > 0 /\ controls'[1].admitted /\ Identity(controls'[1]) = Identity(controls[1])
        /\ Len(controls') > 0 /\ controls'[1].admitted =>
             Len(controls) > 0 /\ controls[1].admitted /\ Identity(controls'[1]) = Identity(controls[1])
    <2>1. CASE ControlsKeep
      BY <2>1 DEF ControlsKeep
    <2>2. CASE ControlsDecided
      <3>1. PICK c \in ControlIntents :
              controls' = [controls EXCEPT ![1] = c] /\ Settles(controls[1], c) /\ Len(controls) > 0
        BY <2>2 DEF ControlsDecided
      <3>2. Len(controls') = Len(controls) /\ controls'[1] = c
        BY <1>2, <3>1
      <3>. QED BY <3>1, <3>2 DEF Settles, Identity
    <2>3. CASE ControlsSupersede
      <3>1. /\ Len(controls') = Len(controls)
            /\ Len(controls) > 0 => /\ controls[1] \in ControlIntents
                                    /\ controls'[1] = IF controls[1].outcome = "Pending"
                                         THEN [controls[1] EXCEPT !.outcome = "Superseded"] ELSE controls[1]
        BY <1>2, <2>3 DEF ControlsSupersede, Superseded
      <3>2. \A c \in ControlIntents :
              LET d == [c EXCEPT !.outcome = "Superseded"] IN
              d.admitted = c.admitted /\ d.id = c.id /\ d.ref = c.ref /\ d.gen = c.gen
                /\ d.reservation = c.reservation
        BY DEF ControlIntents, Intents
      <3>. QED BY <3>1, <3>2 DEF Identity
    <2>4. CASE ControlsDrop
      <3>1. /\ Len(controls') = Len(controls) - 1
            /\ Len(controls') > 0 => 2 \in DOMAIN controls /\ controls'[1] = controls[2]
        BY <1>2, <2>4 DEF ControlsDrop, ControlsTail
      <3>. QED BY <1>2, <2>4, <3>1 DEF ControlsDrop, ControlsTail
    <2>5. CASE ControlsAppend
      <3>1. PICK c \in ControlIntents : controls' = Append(controls, c) /\ ~c.admitted
        BY <2>5 DEF ControlsAppend
      <3>2. /\ Len(controls') = Len(controls) + 1
            /\ Len(controls) > 0 => controls'[1] = controls[1]
            /\ Len(controls) = 0 => controls'[1] = c
        BY <1>2, <3>1
      <3>. QED BY <1>2, <3>1, <3>2 DEF Identity
    <2>. QED BY <2>1, <2>2, <2>3, <2>4, <2>5 DEF ControlsQuiet
  <1>. QED BY <1>3, <1>4

\* Outside a submission the two fronts stay apart.
LEMMA ApartQuiet ==
    ASSUME IInv, TextStore, ControlStore, Apart, TextsQuiet, ControlsQuiet
    PROVE  Apart'
  BY FrontsQuiet DEF Apart, Identity

-----------------------------------------------------------------------------
(* Steps that leave the mailbox alone *)

MailQuiet == UNCHANGED <<queue, active, completion, collected, lastAdmitted>>

\* A queued job may vanish, and does not come back.
LEMMA HeldQuiet ==
    ASSUME IInv, Generations, Moves \/ Starts, MailQuiet
    PROVE  /\ Held' \subseteq Held
           /\ outGeneration' # 0 /\ Moves => Held' = Held
  <1>1. \A k \in DOMAIN queue : IsCurrent(queue[k].gen)' => IsCurrent(queue[k].gen)
    <2>1. ASSUME NEW k \in DOMAIN queue, IsCurrent(queue[k].gen)'
          PROVE  IsCurrent(queue[k].gen)
      <3>1. queue[k].gen \in 0 .. Exhausted /\ Past(queue[k].gen)
        BY <2>1, MailFacts DEF Generations
      <3>2. IsCurrentIn(queue[k].gen, generation')
        BY <2>1 DEF IsCurrent, MailQuiet
      <3>. QED BY <3>1, <3>2, PastStep
    <2>. QED BY <2>1
  <1>2. Held' \subseteq Held
    BY <1>1 DEF Held, MailQuiet
  <1>3. ASSUME outGeneration' # 0, Moves PROVE Held' = Held
    <2>1. UNCHANGED generation
      BY <1>3 DEF Moves
    <2>. QED BY <2>1 DEF Held, MailQuiet, IsCurrent
  <1>. QED BY <1>2, <1>3

\* Whoever waited for a report still waits for it.
LEMMA ClaimsQuiet ==
    ASSUME IInv, Generations, TextStore, ControlStore, Claims, Moves \/ Starts, MailQuiet,
           TextsQuiet, ControlsQuiet
    PROVE  Claims'
  <1>1. CASE Moves
    <2>1. UNCHANGED reservation /\ Held' \subseteq Held
      BY <1>1, HeldQuiet DEF Moves
    <2>2. ASSUME NEW j \in Held' PROVE Claimed(j)'
      <3>1. Claimed(j) /\ reservation # 0
        BY <2>1, <2>2 DEF Claims, Claimed
      <3>2. CASE j.kind = "text" /\ Len(texts) > 0 /\ Carries(texts[1], j)
        <4>1. Len(texts') > 0 /\ texts'[1].admitted /\ Identity(texts'[1]) = Identity(texts[1])
          BY <3>2, FrontsQuiet DEF Carries
        <4>. QED BY <2>1, <3>1, <3>2, <4>1 DEF Claimed, Carries, Identity
      <3>3. CASE j.kind = "control" /\ Len(controls) > 0 /\ Carries(controls[1], j)
        <4>1. Len(controls') > 0 /\ controls'[1].admitted /\ Identity(controls'[1]) = Identity(controls[1])
          BY <3>3, FrontsQuiet DEF Carries
        <4>. QED BY <2>1, <3>1, <3>3, <4>1 DEF Claimed, Carries, Identity
      <3>. QED BY <3>1, <3>2, <3>3 DEF Claimed
    <2>3. ASSUME Len(texts') > 0, outGeneration' # 0, texts'[1].admitted
          PROVE  \E j \in Held' : j.id = texts'[1].id
      <3>1. Held' = Held /\ outGeneration # 0
        BY <1>1, <2>3, HeldQuiet DEF Moves
      <3>2. Len(texts) > 0 /\ texts[1].admitted /\ texts'[1].id = texts[1].id
        BY <2>3, FrontsQuiet DEF Identity
      <3>. QED BY <3>1, <3>2 DEF Claims
    <2>. QED BY <2>2, <2>3 DEF Claims
  <1>2. CASE Starts
    <2>1. reservation = 0 /\ Held' \subseteq Held
      BY <1>2, HeldQuiet DEF Starts
    <2>2. Held' = {}
      BY <2>1 DEF Claims, Claimed
    <2>3. ~(Len(texts') > 0 /\ texts'[1].admitted)
      <3>1. ~(Len(texts) > 0 /\ texts[1].admitted)
        BY <2>1, TextFacts DEF TextStore
      <3>. QED BY <3>1, FrontsQuiet
    <2>. QED BY <2>2, <2>3 DEF Claims
  <1>. QED BY <1>1, <1>2

\* The line does not move.
LEMMA LineQuiet ==
    ASSUME Line, MailQuiet, apc # "deliver", apc' # "deliver"
    PROVE  Line'
  <1>1. collected = NoCompletion /\ ~collected.stale
    BY DEF Line, NoCompletion
  <1>. QED BY <1>1 DEF Line, MailQuiet, Issued

\* The generations of what is submitted stay past.
LEMMA GenerationsQuiet ==
    ASSUME IInv, Generations, Moves \/ Starts, MailQuiet, UNCHANGED pc, outFault' => outGeneration' = 0
    PROVE  Generations'
  <1>1. Words'
    BY WordsStep
  <1>2. ASSUME NEW g \in 0 .. Exhausted, Past(g) PROVE Past(g)'
    BY <1>2, PastStep DEF Past, IsCurrent
  <1>3. /\ \A i \in DOMAIN queue : Past(queue[i].gen)'
        /\ Past(active.gen)' /\ Past(completion.job.gen)' /\ Past(collected.job.gen)'
    <2>1. /\ \A i \in DOMAIN queue : queue[i].gen \in 0 .. Exhausted /\ Past(queue[i].gen)
          /\ active.gen \in 0 .. Exhausted /\ Past(active.gen)
          /\ completion.job.gen \in 0 .. Exhausted /\ Past(completion.job.gen)
          /\ collected.job.gen \in 0 .. Exhausted /\ Past(collected.job.gen)
      BY MailFacts DEF Generations
    <2>2. \A g \in 0 .. Exhausted : Past(g) =>
            g <= generation' /\ (outGeneration' = 0 => ~IsCurrentIn(g, generation'))
      BY PastStep
    <2>. QED BY <2>1, <2>2 DEF Past, IsCurrent, MailQuiet
  <1>. QED BY <1>1, <1>3 DEF Generations, Words, MailQuiet

\* What the log says of a text survives everything but a write.
LEMMA LogQuiet ==
    ASSUME IInv, TextStore, Log, UNCHANGED <<wire, workerJob, workerResult, completion, collected>>,
           TextsQuiet
    PROVE  Log'
  <1>1. /\ texts \in Seq(TextIntents) /\ Len(texts) \in Nat /\ DOMAIN texts = 1 .. Len(texts)
        /\ \A i \in DOMAIN texts : texts[i].admitted \in BOOLEAN /\ texts[i].ref = Popped + i
        /\ textCount \in Nat /\ Len(texts) <= textCount
    BY TextFacts, NumberFacts DEF TextStore
  <1>2. TextLog' = TextLog
    BY DEF TextLog
  <1>3. /\ \A ref : Logged(ref)' <=> Logged(ref)
        /\ \A id : Reported(id)' <=> Reported(id)
        /\ SentLogged(workerJob, workerResult)' /\ SentLogged(completion.job, completion.result)'
        /\ SentLogged(collected.job, collected.result)'
    BY <1>2 DEF Log, Logged, Reported, SentLogged
  <1>4. CASE TextsKeep
    <2>1. UNCHANGED texts /\ Popped' = Popped
      BY <1>4 DEF TextsKeep, Popped
    <2>. QED BY <1>2, <1>3, <2>1 DEF Log
  <1>5. CASE TextsDecided
    <2>1. PICK t \in TextIntents :
            /\ texts' = [texts EXCEPT ![1] = t] /\ Settles(texts[1], t) /\ Len(texts) > 0
            /\ t.outcome \in {texts[1].outcome, "Failed", "Cancelled"} /\ UNCHANGED textCount
      BY <1>5 DEF TextsDecided
    <2>2. /\ Len(texts') = Len(texts) /\ DOMAIN texts' = DOMAIN texts /\ 1 \in DOMAIN texts
          /\ texts'[1] = t /\ \A i \in DOMAIN texts : i # 1 => texts'[i] = texts[i]
      BY <1>1, <2>1
    <2>3. Popped' = Popped
      BY <2>1, <2>2 DEF Popped
    <2>4. Logged(Popped + 1) => IF texts'[1].admitted THEN Reported(texts'[1].id)
                                ELSE texts'[1].outcome # "Pending"
      BY <2>1, <2>2 DEF Log, Settles
    <2>5. \A i \in DOMAIN texts' : texts'[i].outcome = "Sent" => Logged(texts'[i].ref)
      BY <2>1, <2>2 DEF Log, Settles
    <2>6. \A i \in DOMAIN TextLog' :
            TextLog'[i] \in 1 .. (IF Len(texts') > 0 THEN Popped' + 1 ELSE Popped')
      BY <1>2, <2>2, <2>3 DEF Log
    <2>. HIDE DEF Popped
    <2>. QED BY <1>3, <2>3, <2>4, <2>5, <2>6 DEF Log
  <1>6. CASE TextsPop
    <2>1. /\ texts' = Tail(texts) /\ UNCHANGED textCount /\ Len(texts) > 0
      BY <1>6 DEF TextsPop
    <2>2. /\ Len(texts') = Len(texts) - 1 /\ DOMAIN texts' = 1 .. (Len(texts) - 1)
          /\ \A i \in DOMAIN texts' : i + 1 \in DOMAIN texts /\ texts'[i] = texts[i + 1]
      BY <1>1, <2>1
    <2>3. PICK p \in Nat : p = Popped /\ Popped' = p + 1
      <3>0. Len(texts) - 1 \in Nat
        BY <1>1, <2>1
      <3>1. PICK n \in Nat : n = Len(texts') /\ n = Len(texts) - 1
        BY <2>2, <3>0, Zenon
      <3>2. Popped' = textCount - n /\ Popped = textCount - Len(texts)
        BY <2>1, <3>1 DEF Popped
      <3>3. textCount - n = (textCount - Len(texts)) + 1 /\ textCount - Len(texts) \in Nat
        BY <1>1, <3>1
      <3>. HIDE DEF Popped
      <3>. QED BY <3>2, <3>3, Zenon
    <2>4. \A i \in DOMAIN TextLog : TextLog[i] \in 1 .. (p + 1)
      BY <2>1, <2>3 DEF Log
    <2>5. ~Logged(p + 2)
      BY <2>3, <2>4 DEF Logged
    <2>6. \A i \in DOMAIN texts' : texts'[i].outcome = "Sent" => Logged(texts'[i].ref)
      BY <2>2 DEF Log
    <2>7. \A i \in DOMAIN TextLog' :
            TextLog'[i] \in 1 .. (IF Len(texts') > 0 THEN Popped' + 1 ELSE Popped')
      BY <1>2, <2>3, <2>4
    <2>8. ~Logged(Popped' + 1)
      BY <2>3, <2>5
    <2>. HIDE DEF Popped
    <2>. QED BY <1>3, <2>6, <2>7, <2>8 DEF Log
  <1>7. CASE TextsAppend
    <2>1. PICK t \in TextIntents :
            /\ texts' = Append(texts, t) /\ textCount' = textCount + 1 /\ ~t.admitted
            /\ t.outcome = "Pending"
      BY <1>7 DEF TextsAppend
    <2>2. /\ Len(texts') = Len(texts) + 1
          /\ \A i \in DOMAIN texts' : \/ i \in DOMAIN texts /\ texts'[i] = texts[i]
                                      \/ i = Len(texts) + 1 /\ texts'[i] = t
          /\ 1 \in DOMAIN texts' /\ Len(texts') > 0
      BY <1>1, <2>1
    <2>3. PICK p \in Nat : p = Popped /\ Popped' = p
      <3>1. PICK n \in Nat : n = Len(texts') /\ n = Len(texts) + 1
        BY <1>1, <2>2
      <3>2. Popped' = (textCount + 1) - n /\ Popped = textCount - Len(texts)
        BY <2>1, <3>1, Zenon DEF Popped
      <3>3. (textCount + 1) - n = textCount - Len(texts) /\ textCount - Len(texts) \in Nat
        BY <1>1, <3>1
      <3>. HIDE DEF Popped
      <3>. QED BY <3>2, <3>3, Zenon
    <2>4. \A i \in DOMAIN TextLog' :
            TextLog'[i] \in 1 .. (IF Len(texts') > 0 THEN Popped' + 1 ELSE Popped')
      BY <1>1, <1>2, <2>2, <2>3 DEF Log
    <2>5. \A i \in DOMAIN texts' : texts'[i].outcome = "Sent" => Logged(texts'[i].ref)
      BY <2>1, <2>2 DEF Log
    <2>6. Logged(p + 1) => IF texts'[1].admitted THEN Reported(texts'[1].id)
                           ELSE texts'[1].outcome # "Pending"
      <3>1. CASE Len(texts) > 0
        <4>1. texts'[1] = texts[1]
          BY <1>1, <2>1, <3>1
        <4>. QED BY <2>3, <3>1, <4>1 DEF Log
      <3>2. CASE Len(texts) = 0
        <4>1. \A i \in DOMAIN TextLog : TextLog[i] \in 1 .. p
          BY <2>3, <3>2 DEF Log
        <4>2. ~Logged(p + 1)
          BY <2>3, <4>1 DEF Logged
        <4>. QED BY <4>2
      <3>. QED BY <1>1, <3>1, <3>2
    <2>. HIDE DEF Popped
    <2>. QED BY <1>3, <2>3, <2>4, <2>5, <2>6 DEF Log
  <1>. QED BY <1>4, <1>5, <1>6, <1>7 DEF TextsQuiet

\* A quiet step of the application: nothing enters or leaves the mailbox.
Quiet ==
    /\ Moves \/ Starts
    /\ MailQuiet /\ UNCHANGED <<pc, workerJob, workerResult, wire>>
    /\ outFault' => outGeneration' = 0
    /\ apc # "deliver" /\ apc' # "deliver"
    /\ \/ TextsKeep /\ (apc' = "submit" => ~texts[1].admitted /\ texts[1].outcome = "Pending")
       \/ TextsQuiet /\ apc' # "submit"
    /\ ControlsQuiet
LEMMA QuietStep ==
    ASSUME DInv, IInv', Quiet
    PROVE  DInv'
  <1>1. TextsQuiet /\ UNCHANGED lastAdmitted
    BY DEF Quiet, TextsQuiet, MailQuiet
  <1>2. Placed'
    BY DEF DInv, Placed, Quiet, MailQuiet
  <1>3. UNCHANGED <<wire, workerJob, workerResult, completion, collected>>
    BY DEF Quiet, MailQuiet
  <1>4. Generations' /\ Line'
    BY GenerationsQuiet, LineQuiet DEF Quiet, DInv
  <1>5. TextStore' /\ ControlStore' /\ Apart'
    BY <1>1, TextStoreQuiet, ControlStoreQuiet, ApartQuiet DEF Quiet, DInv
  <1>6. Claims' /\ Log'
    BY <1>1, <1>3, ClaimsQuiet, LogQuiet DEF Quiet, DInv
  <1>. QED BY <1>2, <1>4, <1>5, <1>6 DEF DInv

\* What retires the worker leaves the application without a generation.
Rests == \/ UNCHANGED <<generation, outGeneration>>
         \/ generation' = Advanced(generation) /\ outGeneration' = 0
LEMMA RetireMoves ==
    ASSUME IInv, Generations
    PROVE  /\ Revoke => Rests /\ outGeneration' = 0
           /\ Retire => Rests /\ outGeneration' = 0
           /\ Recover => Rests /\ (playout # "recovery" => outGeneration' = 0)
           /\ UNCHANGED retireVars => Rests /\ UNCHANGED <<generation, outGeneration>>
  <1>1. outGeneration # 0 => reservation # 0
    BY DEF Generations
  <1>2. Revoke => Rests /\ outGeneration' = 0
    BY <1>1 DEF Revoke, Retiring, Rests
  <1>. QED BY <1>2 DEF Retire, Recover, Rests, retireVars

\* An activation either starts the worker or leaves it unreserved.
LEMMA ActivationMoves ==
    ASSUME IInv, Generations
    PROVE  /\ \A e : Activated(e) => Starts /\ ~outFault'
           /\ ActivationFailed =>
                /\ Rests /\ UNCHANGED <<reservation, activation, workerState>>
                /\ outFault' => outGeneration' = 0
           /\ NoActivation => UNCHANGED <<reservation, activation, workerState, outFault>>
  <1>1. ASSUME NEW e, Activated(e) PROVE Starts /\ ~outFault'
    <2>1. generation' = Advanced(generation) /\ activation' = [epoch |-> e, gen |-> generation']
      BY <1>1 DEF Activated
    <2>. QED BY <1>1, <2>1 DEF Activated, ActivationSucceeds, CanActivate, Busy, Starts
  <1>2. reservation = 0 => outGeneration = 0
    BY NumberFacts DEF Generations
  <1>3. ASSUME ActivationFailed
        PROVE  /\ Rests /\ UNCHANGED <<reservation, activation, workerState>>
               /\ outFault' => outGeneration' = 0
    BY <1>2, <1>3 DEF ActivationFailed, CanActivate, Busy, Rests, Generations
  <1>4. NoActivation => UNCHANGED <<reservation, activation, workerState, outFault>>
    BY DEF NoActivation
  <1>. QED BY <1>1, <1>3, <1>4

\* The handlers and the parts of a poll that touch no intent.
Idles ==
    /\ Moves \/ Starts
    /\ MailQuiet /\ UNCHANGED <<pc, workerJob, workerResult, wire>>
    /\ outFault' => outGeneration' = 0
    /\ apc # "deliver" /\ apc' \notin {"deliver", "submit"}
    /\ UNCHANGED <<texts, textCount, told, controls>>
    /\ controlCount' \in Nat /\ controlCount <= controlCount'
LEMMA IdleIsQuiet == Idles => Quiet
  BY DEF Idles, Quiet, TextsKeep, ControlsKeep, ControlsQuiet

\* Such a step, from what it does to the generation.
LEMMA Idle ==
    ASSUME IInv, Generations, ApplicationStep,
           \/ Rests /\ UNCHANGED <<reservation, activation, workerState>>
           \/ Starts,
           UNCHANGED <<queue, completion, collected, lastAdmitted, texts, controls, textCount, told>>,
           \/ UNCHANGED controlCount
           \/ controlCount' = controlCount + 1,
           outFault' => outGeneration' = 0,
           apc # "deliver", apc' \notin {"deliver", "submit"}
    PROVE  Quiet
  <1>1. UNCHANGED <<active, pc, workerJob, workerResult, wire>>
    BY ApplicationFrame DEF Frame, historyVars
  <1>2. controlCount \in Nat /\ controlCount' \in Nat /\ controlCount <= controlCount'
    BY NumberFacts
  <1>. QED BY <1>1, <1>2, IdleIsQuiet DEF Idles, Moves, Rests, MailQuiet


-----------------------------------------------------------------------------
(* The application's actions that leave the mailbox alone *)

\* Handlers that retire the worker, activate it or do neither.
LEMMA IdleActions ==
    ASSUME IInv, Generations, ApplicationStep,
           \/ PollChatSourceOpen \/ PollChatProtocolSignals \/ PollChatPlayoutTail
           \/ PollChatProtocolCleanup \/ BeginChatListen \/ EndTurn
           \/ CloseAudioChannelByIntent \/ OpenChannel \/ OpenReturned
    PROVE  Quiet
  <1>. DEFINE Resting == Rests /\ UNCHANGED <<reservation, activation, workerState, outFault>>
              Turning == \/ Resting
                         \/ Starts /\ ~outFault'
                         \/ /\ Rests /\ UNCHANGED <<reservation, activation, workerState>>
                            /\ outFault' => outGeneration' = 0
              Rest == UNCHANGED <<queue, completion, collected, lastAdmitted, texts, controls,
                                  textCount, told, controlCount>>
  <1>. USE RetireMoves, ActivationMoves
  <1>1. CASE PollChatSourceOpen
    <2>1. Resting /\ Rest /\ apc # "deliver" /\ apc' \notin {"deliver", "submit"}
      BY <1>1 DEF PollChatSourceOpen, appVars, intentVars
    <2>. QED BY <2>1, Idle DEF Generations, Rests
  <1>2. CASE PollChatProtocolSignals
    <2>1. Resting /\ Rest /\ apc # "deliver" /\ apc' \notin {"deliver", "submit"}
      BY <1>2 DEF PollChatProtocolSignals, appVars, intentVars
    <2>. QED BY <2>1, Idle DEF Generations, Rests
  <1>3. CASE PollChatPlayoutTail
    <2>1. Rest /\ apc # "deliver" /\ apc' \notin {"deliver", "submit"}
      BY <1>3 DEF PollChatPlayoutTail, intentVars
    <2>2. \/ Activated(responseEpoch) \/ ActivationFailed
          \/ NoActivation /\ (UNCHANGED retireVars \/ Recover)
      BY <1>3 DEF PollChatPlayoutTail
    <2>3. Turning
      <3>1. Activated(responseEpoch) => Turning
        BY ActivationMoves
      <3>2. ActivationFailed => Turning
        BY ActivationMoves
      <3>3. NoActivation /\ (UNCHANGED retireVars \/ Recover) => Turning
        BY RetireMoves, ActivationMoves
      <3>. QED BY <2>2, <3>1, <3>2, <3>3
    <2>. QED BY <2>1, <2>3, Idle DEF Generations, Rests
  <1>4. CASE PollChatProtocolCleanup
    <2>1. Resting /\ Rest /\ apc # "deliver" /\ apc' \notin {"deliver", "submit"}
      BY <1>4 DEF PollChatProtocolCleanup, appVars, intentVars
    <2>. QED BY <2>1, Idle DEF Generations, Rests
  <1>5. CASE BeginChatListen
    <2>1. Rest /\ apc # "deliver" /\ apc' \notin {"deliver", "submit"}
      BY <1>5 DEF BeginChatListen, intentVars
    <2>2. \/ Activated(current) \/ ActivationFailed
          \/ NoActivation /\ (UNCHANGED retireVars \/ Recover)
      BY <1>5 DEF BeginChatListen
    <2>3. Turning
      <3>1. Activated(current) => Turning
        BY ActivationMoves
      <3>2. ActivationFailed => Turning
        BY ActivationMoves
      <3>3. NoActivation /\ (UNCHANGED retireVars \/ Recover) => Turning
        BY RetireMoves, ActivationMoves
      <3>. QED BY <2>2, <3>1, <3>2, <3>3
    <2>. QED BY <2>1, <2>3, Idle DEF Generations, Rests
  <1>6. CASE EndTurn
    <2>1. Resting /\ Rest /\ apc # "deliver" /\ apc' \notin {"deliver", "submit"}
      BY <1>6 DEF EndTurn, appVars, intentVars
    <2>. QED BY <2>1, Idle DEF Generations, Rests
  <1>7. CASE CloseAudioChannelByIntent
    <2>1. Resting /\ Rest /\ apc # "deliver" /\ apc' \notin {"deliver", "submit"}
      BY <1>7 DEF CloseAudioChannelByIntent, appVars, intentVars
    <2>. QED BY <2>1, Idle DEF Generations, Rests
  <1>8. CASE OpenChannel
    <2>1. Resting /\ Rest /\ apc # "deliver" /\ apc' \notin {"deliver", "submit"}
      BY <1>8 DEF OpenChannel, appVars, intentVars
    <2>. QED BY <2>1, Idle DEF Generations, Rests
  <1>9. CASE OpenReturned
    <2>1. Resting /\ Rest /\ apc # "deliver" /\ apc' \notin {"deliver", "submit"}
      BY <1>9 DEF OpenReturned, appVars, intentVars
    <2>. QED BY <2>1, Idle DEF Generations, Rests
  <1>. QED BY <1>1, <1>2, <1>3, <1>4, <1>5, <1>6, <1>7, <1>8, <1>9


\* A step that works on the intents, from what it does to the two stores.
LEMMA Works ==
    ASSUME IInv, Generations, ApplicationStep,
           \/ Rests /\ UNCHANGED <<reservation, activation, workerState>>
           \/ Starts,
           UNCHANGED <<queue, completion, collected, lastAdmitted>>,
           outFault' => outGeneration' = 0,
           apc # "deliver", apc' # "deliver",
           \/ TextsKeep /\ (apc' = "submit" => ~texts[1].admitted /\ texts[1].outcome = "Pending")
           \/ TextsQuiet /\ apc' # "submit",
           ControlsQuiet
    PROVE  Quiet
  <1>1. UNCHANGED <<active, pc, workerJob, workerResult, wire>>
    BY ApplicationFrame DEF Frame, historyVars
  <1>. QED BY <1>1 DEF Quiet, Moves, Rests, MailQuiet

\* A START supersedes every control and retires the worker, which a failed one
\* has done before.
LEMMA StartQuiet ==
    ASSUME IInv, Generations, PollChatStart
    PROVE  Quiet
  <1>0. ApplicationStep /\ apc # "deliver" /\ apc' = "outbound"
    BY DEF PollChatStart, ApplicationStep, Poll
  <1>1. /\ UNCHANGED <<queue, completion, collected, lastAdmitted, reservation, activation,
                       workerState, outFault, controlCount>>
        /\ TextsKeep
    BY DEF PollChatStart, TextsKeep, appVars
  <1>2. controlCount \in Nat
    BY NumberFacts
  <1>3. /\ Rests
        /\ ControlsKeep \/ ControlsSupersede
    <2>1. CASE UNCHANGED <<controls, playout, turnVars, retireVars>>
      BY <2>1, RetireMoves DEF ControlsKeep
    <2>2. CASE controls' = Superseded(controls) /\ (IF outFault THEN Recover ELSE Retire)
      BY <2>2, RetireMoves DEF ControlsSupersede, Generations, Rests
    <2>. QED BY <2>1, <2>2 DEF PollChatStart
  <1>4. outFault' => outGeneration' = 0
    BY <1>1, <1>3 DEF Generations, Rests
  <1>5. ControlsQuiet
    BY <1>1, <1>2, <1>3 DEF ControlsQuiet
  <1>. QED BY <1>0, <1>1, <1>3, <1>4, <1>5, Works

\* A poll of the mailbox that collects nothing.
LEMMA OutboundQuiet ==
    ASSUME IInv, Generations, PollChatOutbound, apc' # "deliver"
    PROVE  Quiet
  <1>0. ApplicationStep /\ apc # "deliver" /\ apc' \notin {"deliver", "submit"}
    BY DEF PollChatOutbound, ApplicationStep, Poll
  <1>1. UNCHANGED <<queue, completion, collected, lastAdmitted, reservation, activation,
                    workerState, texts, controls, textCount, told, controlCount>>
    BY DEF PollChatOutbound, intentVars
  <1>2. \/ UNCHANGED <<retireVars, outFault>>
        \/ UNCHANGED outFault /\ (Retire \/ Recover)
        \/ outFault' = (outFault \/ audioFailure) /\ (IF audioFailure \/ Pending THEN Retire ELSE UNCHANGED retireVars)
    BY DEF PollChatOutbound, HandleChatPlayoutInterrupt
  <1>3. Rests /\ (outFault' => outGeneration' = 0)
    <2>1. Rests
      BY <1>2, RetireMoves
    <2>2. \/ outFault' = outFault
          \/ outFault' = (outFault \/ audioFailure) /\ (audioFailure => outGeneration' = 0)
      BY <1>2, RetireMoves
    <2>3. outFault => outGeneration = 0
      BY DEF Generations
    <2>4. outGeneration = 0 => outGeneration' = 0
      BY <2>1 DEF Rests
    <2>5. outFault \in BOOLEAN /\ audioFailure \in BOOLEAN
      BY DEF IInv, TypeOK, FlagTypes
    <2>6. outFault' => outFault \/ (audioFailure /\ outGeneration' = 0)
      BY <2>2, <2>5
    <2>. QED BY <2>1, <2>3, <2>4, <2>6
  <1>. QED BY <1>0, <1>1, <1>3, Idle

\* A new control takes the next number, or fails the turn.
LEMMA RequestControlQuiet ==
    ASSUME IInv, Generations, RequestControl
    PROVE  Quiet
  <1>0. /\ ApplicationStep /\ apc # "deliver" /\ apc' \notin {"deliver", "submit"}
        /\ controlCount' = controlCount + 1 /\ controlCount \in Nat /\ MaxTexts \in Nat
    BY NumberFacts DEF RequestControl, ApplicationStep, Handler
  <1>1. UNCHANGED <<queue, completion, collected, lastAdmitted, reservation, activation,
                    workerState, outFault, texts, textCount, told>>
    BY DEF RequestControl, appVars
  <1>2. CASE Len(controls) < ControlSlots
    <2>1. Rests
      BY <1>2, RetireMoves DEF RequestControl
    <2>2. Intent(MaxTexts + controlCount + 1) \in ControlIntents
      <3>1. MaxTexts + controlCount + 1 \in Controls
        BY WorkerAssumption DEF Controls, RequestControl, IInv, TypeOK, IntentTypes
      <3>. QED BY <3>1, IntentType DEF ControlIntents, IInv, TypeOK
    <2>3. \A r : Intent(r).ref = r /\ ~Intent(r).admitted /\ Intent(r).gen = 0
      BY DEF Intent
    <2>4. MaxTexts + controlCount + 1 = MaxTexts + controlCount'
      BY <1>0
    <2>5. controlCount' > controlCount /\ controlCount' \in Nat /\ controlCount <= controlCount'
      BY <1>0
    <2>6. controls' = Append(controls, Intent(MaxTexts + controlCount + 1))
      BY <1>2 DEF RequestControl
    <2>7. ControlsAppend
      BY <2>2, <2>3, <2>4, <2>5, <2>6 DEF ControlsAppend
    <2>8. ControlsQuiet /\ TextsKeep
      BY <1>1, <2>5, <2>7 DEF ControlsQuiet, TextsKeep
    <2>. QED BY <1>0, <1>1, <2>1, <2>8, Works DEF Generations, Rests
  <1>3. CASE ~(Len(controls) < ControlSlots)
    <2>1. Recover /\ UNCHANGED controls
      BY <1>3 DEF RequestControl
    <2>2. Rests
      BY <2>1, RetireMoves
    <2>. QED BY <1>0, <1>1, <2>1, <2>2, Idle DEF Generations, Rests
  <1>. QED BY <1>2, <1>3

\* A new text takes the next number, or condemns the connection.
LEMMA RequestTextQuiet ==
    ASSUME IInv, Generations, RequestText
    PROVE  Quiet
  <1>0. /\ ApplicationStep /\ apc # "deliver" /\ apc' \notin {"deliver", "submit"}
        /\ textCount \in Nat /\ textCount < MaxTexts /\ MaxTexts \in Nat /\ controlCount \in Nat
    BY NumberFacts DEF RequestText, ApplicationStep, Handler
  <1>1. UNCHANGED <<queue, completion, collected, lastAdmitted, reservation, activation,
                    workerState, outFault, controls, controlCount, told, generation, outGeneration>>
    BY DEF RequestText, appVars, retireVars
  <1>2. TextsKeep \/ TextsAppend
    <2>1. CASE Len(texts) < TextSlots
      <3>1. texts' = Append(texts, Intent(textCount + 1)) /\ textCount' = textCount + 1
        BY <2>1 DEF RequestText
      <3>2. textCount + 1 \in Texts
        BY <1>0 DEF Texts
      <3>3. Intent(textCount + 1) \in TextIntents
        BY <3>2, IntentType DEF TextIntents, IInv, TypeOK
      <3>4. \A r : Intent(r).ref = r /\ ~Intent(r).admitted /\ Intent(r).outcome = "Pending"
        BY DEF Intent
      <3>. QED BY <1>1, <3>1, <3>3, <3>4 DEF TextsAppend
    <2>2. CASE ~(Len(texts) < TextSlots)
      BY <1>1, <2>2 DEF RequestText, TextsKeep
    <2>. QED BY <2>1, <2>2
  <1>3. ControlsQuiet /\ TextsQuiet
    BY <1>0, <1>1, <1>2 DEF ControlsQuiet, ControlsKeep, TextsQuiet
  <1>4. Rests /\ (outFault' => outGeneration' = 0)
    BY <1>1 DEF Rests, Generations
  <1>. QED BY <1>0, <1>1, <1>3, <1>4, Works


\* Settling a text decides its outcome and nothing else.
LEMMA SettledFacts ==
    ASSUME NEW t \in TextIntents
    PROVE  /\ Settled(t) \in TextIntents /\ Settles(t, Settled(t))
           /\ Settled(t).outcome \in {t.outcome, "Failed", "Cancelled"}
           /\ Settled(t).outcome = "Pending" => Settled(t) = t
  <1>1. \A o \in {"Failed", "Cancelled"} :
          LET d == [t EXCEPT !.outcome = o] IN
          /\ d \in TextIntents /\ d.outcome = o /\ d.ref = t.ref /\ d.admitted = t.admitted
          /\ d.id = t.id /\ d.gen = t.gen /\ d.reservation = t.reservation
    BY DEF TextIntents, Intents
  <1>2. \/ Settled(t) = t
        \/ \E o \in {"Failed", "Cancelled"} : Settled(t) = [t EXCEPT !.outcome = o]
    BY DEF Settled
  <1>3. CASE Settled(t) = t
    BY <1>3 DEF Settles
  <1>4. ASSUME NEW o \in {"Failed", "Cancelled"}, Settled(t) = [t EXCEPT !.outcome = o]
        PROVE  /\ Settled(t) \in TextIntents /\ Settles(t, Settled(t))
               /\ Settled(t).outcome = o
    BY <1>1, <1>4 DEF Settles
  <1>. QED BY <1>2, <1>3, <1>4

\* The front text is settled, popped, or goes on to its submission.
LEMMA MessagesQuiet ==
    ASSUME IInv, Generations, PollChatConnectionMessages
    PROVE  Quiet
  <1>. DEFINE front == Settled(Head(texts))
  <1>0. /\ ApplicationStep /\ apc = "messages" /\ apc' \in {"cleanup", "submit"}
        /\ UNCHANGED <<queue, completion, collected, lastAdmitted, textCount, controls, controlCount>>
        /\ controlCount \in Nat
    BY NumberFacts DEF PollChatConnectionMessages, ApplicationStep, Poll
  <1>1. ControlsQuiet
    BY <1>0 DEF ControlsQuiet, ControlsKeep
  <1>2. texts # <<>> => /\ Head(texts) = texts[1] /\ Len(texts) > 0 /\ texts[1] \in TextIntents
                        /\ front \in TextIntents /\ Settles(texts[1], front)
                        /\ front.outcome \in {texts[1].outcome, "Failed", "Cancelled"}
                        /\ front.outcome = "Pending" => front = texts[1]
    <2>1. texts # <<>> => Head(texts) = texts[1] /\ Len(texts) > 0 /\ texts[1] \in TextIntents
      BY TextFacts
    <2>. QED BY <2>1, SettledFacts
  <1>3. \/ Rests /\ UNCHANGED <<reservation, activation, workerState, outFault>>
        \/ Starts /\ ~outFault'
        \/ /\ Rests /\ UNCHANGED <<reservation, activation, workerState>>
           /\ outFault' => outGeneration' = 0
    <2>1. \/ NoActivation /\ (Retire \/ UNCHANGED retireVars)
          \/ Activated(front.owner) \/ ActivationFailed
      BY DEF PollChatConnectionMessages
    <2>2. NoActivation /\ (Retire \/ UNCHANGED retireVars)
            => Rests /\ UNCHANGED <<reservation, activation, workerState, outFault>>
      BY RetireMoves, ActivationMoves
    <2>3. Activated(front.owner) => Starts /\ ~outFault'
      BY ActivationMoves
    <2>. HIDE DEF front
    <2>. QED BY <2>1, <2>2, <2>3, ActivationMoves
  <1>4. outFault' => outGeneration' = 0
    BY <1>3 DEF Generations, Rests
  <1>5. \/ TextsKeep /\ (apc' = "submit" => ~texts[1].admitted /\ texts[1].outcome = "Pending")
        \/ TextsQuiet /\ apc' # "submit"
    <2>1. CASE texts = <<>>
      BY <1>0, <2>1 DEF PollChatConnectionMessages, TextsKeep
    <2>2. CASE texts # <<>> /\ front.outcome # "Pending" /\ Leaves(front)
      <3>1. /\ texts' = Tail(texts) /\ told' = [told EXCEPT ![front.ref] = front.outcome]
            /\ apc' = "cleanup"
        BY <2>2 DEF PollChatConnectionMessages, PopText
      <3>2. ~texts[1].admitted /\ front.ref = texts[1].ref
        BY <1>2, <2>2 DEF Settles, Leaves
      <3>3. front.outcome \in {"Sent", "Failed", "Cancelled"}
        BY <1>2, <2>2, IntentFacts DEF TextIntents
      <3>4. front.outcome = "Sent" => texts[1].outcome = "Sent"
        BY <1>2, <2>2
      <3>. HIDE DEF front
      <3>. QED BY <1>0, <1>2, <2>2, <3>1, <3>2, <3>3, <3>4 DEF TextsPop, TextsQuiet
    <2>3. CASE texts # <<>> /\ front.outcome # "Pending" /\ ~Leaves(front)
      <3>1. texts' = [texts EXCEPT ![1] = front] /\ UNCHANGED told /\ apc' = "cleanup"
        BY <2>3 DEF PollChatConnectionMessages
      <3>. HIDE DEF front
      <3>. QED BY <1>0, <1>2, <2>3, <3>1 DEF TextsDecided, TextsQuiet
    <2>4. CASE texts # <<>> /\ front.outcome = "Pending"
      <3>1. UNCHANGED <<texts, told>> /\ (apc' = "submit" => ~front.admitted)
        BY <1>0, <2>4 DEF PollChatConnectionMessages
      <3>2. front = texts[1]
        BY <1>2, <2>4
      <3>. HIDE DEF front
      <3>. QED BY <1>0, <2>4, <3>1, <3>2 DEF TextsKeep
    <2>. QED BY <2>1, <2>2, <2>3, <2>4
  <1>. HIDE DEF front
  <1>. QED BY <1>0, <1>1, <1>3, <1>4, <1>5, Works


\* An attempt leaves an intent its number and its outcome, unless it is refused
\* for good; an identity is given once.
LEMMA AttemptFacts ==
    ASSUME ApplicationTypes, NEW refs, NEW outcomes, "Failed" \in outcomes,
           NEW intent \in Intents(refs, outcomes), NEW res
    PROVE  /\ Attempted(intent, res) \in Intents(refs, outcomes)
           /\ Attempted(intent, res).ref = intent.ref
           /\ res = "Sent" => Attempted(intent, res).admitted
           /\ res # "Sent" => ~Attempted(intent, res).admitted
           /\ Attempted(intent, res).gen \in {intent.gen, outGeneration}
           /\ Attempted(intent, res).outcome \in {intent.outcome, "Failed"}
           /\ res = "Sent" => /\ Attempted(intent, res).outcome = intent.outcome
                              /\ Attempted(intent, res).reservation = reservation
  <1>1. Attempted(intent, res) \in Intents(refs, outcomes)
    BY IdentifiedType
  <1>2. \A i \in Nat, g \in 0 .. Exhausted :
          LET d == [intent EXCEPT !.id = i, !.gen = g] IN
          /\ d \in Intents(refs, outcomes) /\ d.ref = intent.ref /\ d.gen = g
          /\ d.outcome = intent.outcome
    BY DEF Intents
  <1>3. requestId + 1 \in Nat /\ outGeneration \in 0 .. Exhausted
    BY DEF ApplicationTypes
  <1>4. /\ Identified(intent) \in Intents(refs, outcomes) /\ Identified(intent).ref = intent.ref
        /\ Identified(intent).outcome = intent.outcome
        /\ Identified(intent).gen \in {intent.gen, outGeneration}
    BY <1>2, <1>3 DEF Identified
  <1>5. PICK i \in Intents(refs, outcomes) :
          /\ i.ref = intent.ref /\ i.outcome = intent.outcome /\ i.gen \in {intent.gen, outGeneration}
          /\ Attempted(intent, res) =
               [i EXCEPT !.admitted = (res = "Sent"),
                         !.reservation = IF res = "Sent" THEN reservation ELSE @,
                         !.outcome = IF res \in {"Stale", "Failed"} THEN "Failed" ELSE @]
    BY <1>4 DEF Attempted
  <1>6. /\ Attempted(intent, res).ref = i.ref
        /\ res = "Sent" => Attempted(intent, res).admitted
        /\ res # "Sent" => ~Attempted(intent, res).admitted
        /\ Attempted(intent, res).gen = i.gen
        /\ Attempted(intent, res).outcome = IF res \in {"Stale", "Failed"} THEN "Failed" ELSE i.outcome
        /\ Attempted(intent, res).reservation = IF res = "Sent" THEN reservation ELSE i.reservation
    BY <1>5 DEF Intents
  <1>. QED BY <1>1, <1>5, <1>6

\* What a submission does when it admits nothing, and that it then returned
\* anything but Sent.
LEMMA RefusedFacts ==
    ASSUME IInv, NEW refs, NEW outcomes, "Failed" \in outcomes,
           NEW intent \in Intents(refs, outcomes), NEW kind, NEW contended, NEW res,
           res = SubmitResult(intent, kind, contended),
           Submit(intent, kind, res), UNCHANGED <<queue, lastAdmitted>>
    PROVE  /\ res # "Sent"
           /\ outFault' => outFault \/ (Admissible /\ Exhausts(intent))
  <1>1. lastAdmitted \in Nat /\ ApplicationTypes /\ outFault \in BOOLEAN
    BY DEF IInv, TypeOK, FlagTypes, ApplicationTypes
  <1>2. Identified(intent).id \in Nat
    BY <1>1, IdentifiedType DEF Intents
  <1>3. res = "Sent" => lastAdmitted' = Identified(intent).id /\ ~(Identified(intent).id <= lastAdmitted)
    BY DEF SubmitResult, Submit
  <1>4. outFault' = (outFault \/ (Admissible /\ Exhausts(intent)))
    BY DEF Submit
  <1>. QED BY <1>1, <1>2, <1>3, <1>4

\* The front control leaves, is settled or superseded, or is refused.
LEMMA ControlsStepQuiet ==
    ASSUME IInv, Generations, ControlStore, PollChatControls, UNCHANGED <<queue, lastAdmitted>>
    PROVE  Quiet
  <1>. DEFINE front == Head(controls)
  <1>0. /\ ApplicationStep /\ apc = "controls" /\ apc' = "messages"
        /\ UNCHANGED <<completion, collected, reservation, activation, workerState, texts,
                       textCount, told, controlCount>>
        /\ controlCount \in Nat /\ outFault \in BOOLEAN
    BY NumberFacts DEF PollChatControls, ApplicationStep, Poll, IInv, TypeOK, FlagTypes
  <1>1. controls # <<>> =>
          /\ front = controls[1] /\ Len(controls) > 0 /\ front \in ControlIntents
    BY ControlFacts
  <1>2. ASSUME ControlsKeep \/ ControlsDecided \/ ControlsSupersede \/ ControlsDrop, Rests,
               outFault' => outFault \/ outGeneration' = 0
        PROVE  Quiet
    <2>1. outFault' => outGeneration' = 0
      BY <1>2 DEF Generations, Rests
    <2>2. ControlsQuiet /\ TextsKeep
      BY <1>0, <1>2 DEF ControlsQuiet, TextsKeep
    <2>. QED BY <1>0, <1>2, <2>1, <2>2, Works
  <1>3. CASE UNCHANGED <<controls, retireVars, outFault>>
    <2>1. Rests /\ ControlsKeep
      BY <1>3, RetireMoves DEF ControlsKeep
    <2>. QED BY <1>2, <1>3, <2>1
  <1>4. CASE controls # <<>> /\ controls' = Tail(controls) /\ MayLeave(front) /\ UNCHANGED <<retireVars, outFault>>
    <2>1. Rests
      BY <1>4, RetireMoves
    <2>2. ControlsDrop
      BY <1>1, <1>4 DEF ControlsDrop, ControlsTail, MayLeave
    <2>. QED BY <1>2, <1>4, <2>1, <2>2
  <1>5. CASE controls' = Superseded(controls) /\ Retire /\ UNCHANGED outFault
    <2>1. Rests /\ ControlsSupersede
      BY <1>5, RetireMoves DEF ControlsSupersede
    <2>. QED BY <1>2, <1>5, <2>1
  <1>6. CASE /\ controls # <<>> /\ controls' = [controls EXCEPT ![1].outcome = "Failed"]
             /\ Recover /\ UNCHANGED outFault
    <2>1. Rests
      BY <1>6, RetireMoves
    <2>2. [controls[1] EXCEPT !.outcome = "Failed"] \in ControlIntents
          /\ Settles(controls[1], [controls[1] EXCEPT !.outcome = "Failed"])
          /\ [controls[1] EXCEPT !.outcome = "Failed"].gen = controls[1].gen
          /\ [controls[1] EXCEPT !.outcome = "Failed"].outcome = "Failed"
      BY <1>1, <1>6 DEF ControlIntents, Intents, Settles
    <2>3. controls' = [controls EXCEPT ![1] = [controls[1] EXCEPT !.outcome = "Failed"]]
      BY <1>6
    <2>4. ControlsDecided
      BY <1>1, <1>6, <2>2, <2>3 DEF ControlsDecided
    <2>. QED BY <1>2, <1>6, <2>1, <2>4
  <1>7. CASE /\ controls # <<>> /\ ~front.admitted
             /\ \E contended \in BOOLEAN :
                  LET res == SubmitResult(front, "control", contended) IN
                  /\ Submit(front, "control", res)
                  /\ controls' = [controls EXCEPT ![1] = Attempted(@, res)]
                  /\ CASE res = "Sent" -> TRUE
                       [] res = "Busy" -> UNCHANGED <<generation, outGeneration>>
                       [] OTHER -> IF Admissible /\ Exhausts(front) THEN Retire ELSE Recover
                  /\ Admissible /\ Exhausts(front) => res = "Failed"
    <2>1. PICK contended \in BOOLEAN :
                  LET res == SubmitResult(front, "control", contended) IN
                  /\ Submit(front, "control", res)
                  /\ controls' = [controls EXCEPT ![1] = Attempted(@, res)]
                  /\ CASE res = "Sent" -> TRUE
                       [] res = "Busy" -> UNCHANGED <<generation, outGeneration>>
                       [] OTHER -> IF Admissible /\ Exhausts(front) THEN Retire ELSE Recover
                  /\ Admissible /\ Exhausts(front) => res = "Failed"
      BY <1>7
    <2>. DEFINE res == SubmitResult(front, "control", contended)
    <2>2. res # "Sent" /\ (outFault' => outFault \/ (Admissible /\ Exhausts(front)))
      BY <1>1, <1>7, <2>1, RefusedFacts DEF ControlIntents
    <2>3. Rests /\ (Admissible /\ Exhausts(front) => outGeneration' = 0)
      <3>1. CASE res = "Busy"
        BY <2>1, <3>1 DEF Rests
      <3>2. CASE res # "Busy"
        <4>1. IF Admissible /\ Exhausts(front) THEN Retire ELSE Recover
          BY <2>1, <2>2, <3>2
        <4>. QED BY <4>1, RetireMoves
      <3>. QED BY <3>1, <3>2
    <2>4. /\ Attempted(controls[1], res) \in ControlIntents
          /\ Settles(controls[1], Attempted(controls[1], res))
          /\ Attempted(controls[1], res).gen \in {controls[1].gen, outGeneration}
          /\ Attempted(controls[1], res).outcome \in {controls[1].outcome, "Failed"}
      <3>1. ApplicationTypes /\ "Failed" \in {"Pending", "Failed", "Superseded"}
            /\ controls[1].admitted = FALSE
        BY <1>1, <1>7, IntentFacts DEF IInv, TypeOK, ControlIntents
      <3>2. PICK c \in Intents(Controls, {"Pending", "Failed", "Superseded"}) : c = controls[1]
        BY <1>1, <1>7 DEF ControlIntents
      <3>3. PICK r : r = res
        OBVIOUS
      <3>4. r # "Sent" /\ c.admitted = FALSE
        BY <2>2, <3>1, <3>2, <3>3
      <3>. HIDE DEF res, front
      <3>5. /\ Attempted(c, r) \in ControlIntents /\ Settles(c, Attempted(c, r))
            /\ Attempted(c, r).gen \in {c.gen, outGeneration}
            /\ Attempted(c, r).outcome \in {c.outcome, "Failed"}
        <4>1. /\ Attempted(c, r) \in Intents(Controls, {"Pending", "Failed", "Superseded"})
              /\ Attempted(c, r).ref = c.ref
              /\ r # "Sent" => ~Attempted(c, r).admitted
              /\ Attempted(c, r).gen \in {c.gen, outGeneration}
              /\ Attempted(c, r).outcome \in {c.outcome, "Failed"}
          BY <3>1, <3>2, AttemptFacts
        <4>2. Attempted(c, r).admitted = FALSE
          BY <3>4, <4>1, IntentFacts
        <4>3. Settles(c, Attempted(c, r))
          BY <3>4, <4>1, <4>2, Zenon DEF Settles
        <4>. QED BY <4>1, <4>3 DEF ControlIntents
      <3>. QED BY <3>2, <3>3, <3>5
    <2>5. controls' = [controls EXCEPT ![1] = Attempted(controls[1], res)]
      BY <2>1
    <2>. HIDE DEF res, front
    <2>6. ControlsDecided
      BY <1>1, <1>7, <2>4, <2>5 DEF ControlsDecided
    <2>. QED BY <1>2, <2>2, <2>3, <2>6
  <1>8. \/ UNCHANGED <<controls, retireVars, outFault>>
        \/ controls # <<>> /\ controls' = Tail(controls) /\ MayLeave(front) /\ UNCHANGED <<retireVars, outFault>>
        \/ controls' = Superseded(controls) /\ Retire /\ UNCHANGED outFault
        \/ /\ controls # <<>> /\ controls' = [controls EXCEPT ![1].outcome = "Failed"]
           /\ Recover /\ UNCHANGED outFault
        \/ /\ controls # <<>> /\ ~front.admitted
             /\ \E contended \in BOOLEAN :
                  LET res == SubmitResult(front, "control", contended) IN
                  /\ Submit(front, "control", res)
                  /\ controls' = [controls EXCEPT ![1] = Attempted(@, res)]
                  /\ CASE res = "Sent" -> TRUE
                       [] res = "Busy" -> UNCHANGED <<generation, outGeneration>>
                       [] OTHER -> IF Admissible /\ Exhausts(front) THEN Retire ELSE Recover
                  /\ Admissible /\ Exhausts(front) => res = "Failed"
    BY DEF PollChatControls, SubmitResult, retireVars
  <1>. QED BY <1>3, <1>4, <1>5, <1>6, <1>7, <1>8


\* The front text is refused, and settled unless the mailbox was busy.
LEMMA SubmitTextQuiet ==
    ASSUME IInv, Generations, TextStore, SubmitText, UNCHANGED <<queue, lastAdmitted>>
    PROVE  Quiet
  <1>0. /\ ApplicationStep /\ apc = "submit" /\ apc' = "cleanup"
        /\ UNCHANGED <<completion, collected, reservation, activation, workerState, controls,
                       textCount, told, controlCount>>
        /\ controlCount \in Nat /\ outFault \in BOOLEAN /\ ApplicationTypes
    BY NumberFacts DEF SubmitText, ApplicationStep, Poll, IInv, TypeOK, FlagTypes
  <1>1. /\ Head(texts) = texts[1] /\ Len(texts) > 0 /\ texts[1] \in TextIntents
        /\ texts[1].admitted = FALSE /\ 1 \in DOMAIN texts
    BY <1>0, TextFacts DEF TextStore, IInv, Carried
  <1>2. PICK contended \in BOOLEAN :
          LET res == SubmitResult(Head(texts), "text", contended) IN
          /\ Submit(Head(texts), "text", res)
          /\ texts' = [texts EXCEPT ![1] = IF res = "Busy" THEN @ ELSE Attempted(@, res)]
          /\ IF Admissible /\ Exhausts(Head(texts)) THEN Retire ELSE UNCHANGED <<generation, outGeneration>>
    BY DEF SubmitText
  <1>3. PICK t \in Intents(Texts, {"Pending", "Sent", "Failed", "Cancelled"}) : t = texts[1]
    BY <1>1 DEF TextIntents
  <1>4. PICK r : r = SubmitResult(Head(texts), "text", contended)
    OBVIOUS
  <1>5. /\ Submit(t, "text", r) /\ r = SubmitResult(t, "text", contended)
        /\ texts' = [texts EXCEPT ![1] = IF r = "Busy" THEN @ ELSE Attempted(t, r)]
        /\ IF Admissible /\ Exhausts(t) THEN Retire ELSE UNCHANGED <<generation, outGeneration>>
    BY <1>1, <1>2, <1>3, <1>4
  <1>6. r # "Sent" /\ (outFault' => outFault \/ (Admissible /\ Exhausts(t)))
    BY <1>5, RefusedFacts
  <1>7. Rests /\ (outFault' => outGeneration' = 0)
    <2>1. Rests /\ (Admissible /\ Exhausts(t) => outGeneration' = 0)
      BY <1>5, RetireMoves DEF Rests
    <2>. QED BY <1>6, <2>1 DEF Generations, Rests
  <1>8. TextsKeep \/ TextsDecided
    <2>1. CASE r = "Busy"
      <3>1. texts' = texts
        BY <1>5, <2>1, TextFacts
      <3>. QED BY <1>0, <3>1 DEF TextsKeep
    <2>2. CASE r # "Busy"
      <3>1. /\ Attempted(t, r) \in Intents(Texts, {"Pending", "Sent", "Failed", "Cancelled"})
            /\ Attempted(t, r).ref = t.ref
            /\ r # "Sent" => ~Attempted(t, r).admitted
            /\ Attempted(t, r).outcome \in {t.outcome, "Failed"}
        BY <1>0, AttemptFacts
      <3>2. Attempted(t, r).admitted = FALSE /\ t.admitted = FALSE
        BY <1>1, <1>3, <1>6, <3>1, IntentFacts
      <3>3. Settles(t, Attempted(t, r))
        BY <3>1, <3>2, Zenon DEF Settles
      <3>4. texts' = [texts EXCEPT ![1] = Attempted(t, r)]
        BY <1>5, <2>2
      <3>. QED BY <1>0, <1>1, <1>3, <3>1, <3>3, <3>4 DEF TextsDecided, TextIntents
    <2>. QED BY <2>1, <2>2
  <1>9. ControlsQuiet /\ TextsQuiet
    BY <1>0, <1>8 DEF ControlsQuiet, ControlsKeep, TextsQuiet
  <1>. QED BY <1>0, <1>7, <1>8, <1>9, Works


-----------------------------------------------------------------------------
(* What enters the mailbox *)

\* What is left of the queue when it has been compacted.
LEMMA Compacted ==
    ASSUME queue \in Seq(Jobs), Len(queue) <= 2
    PROVE  \/ CompactQueue = <<>> /\ \A k \in DOMAIN queue : ~IsCurrent(queue[k].gen)
           \/ \E k \in DOMAIN queue :
                /\ CompactQueue = <<queue[k]>> /\ IsCurrent(queue[k].gen)
                /\ \A i \in DOMAIN queue : i # k => ~IsCurrent(queue[i].gen)
           \/ /\ DOMAIN queue = {1, 2} /\ CompactQueue = <<queue[1], queue[2]>>
              /\ IsCurrent(queue[1].gen) /\ IsCurrent(queue[2].gen)
  <1>1. /\ DOMAIN queue \subseteq {1, 2}
        /\ \A n \in {1, 2} : \/ /\ Live(n) = <<>>
                                /\ ~(n \in DOMAIN queue /\ IsCurrent(queue[n].gen))
                             \/ /\ n \in DOMAIN queue /\ IsCurrent(queue[n].gen)
                                /\ queue[n] \in Jobs /\ Live(n) = <<queue[n]>>
    BY DEF Live
  <1>2. /\ Live(1) \in Seq(Jobs) /\ Live(2) \in Seq(Jobs)
        /\ Live(1) # <<>> => 1 \in DOMAIN queue /\ IsCurrent(queue[1].gen) /\ Live(1) = <<queue[1]>>
        /\ Live(2) # <<>> => 2 \in DOMAIN queue /\ IsCurrent(queue[2].gen) /\ Live(2) = <<queue[2]>>
        /\ Live(1) = <<>> => ~(1 \in DOMAIN queue /\ IsCurrent(queue[1].gen))
        /\ Live(2) = <<>> => ~(2 \in DOMAIN queue /\ IsCurrent(queue[2].gen))
    <2>1. \A n \in {1, 2} : Live(n) \in Seq(Jobs)
      BY DEF Live
    <2>2. \A n \in {1, 2} : Live(n) = <<>> => ~(n \in DOMAIN queue /\ IsCurrent(queue[n].gen))
      BY DEF Live
    <2>3. \A n \in {1, 2} : Live(n) # <<>> => /\ n \in DOMAIN queue /\ IsCurrent(queue[n].gen)
                                              /\ Live(n) = <<queue[n]>>
      BY <1>1
    <2>. QED BY <2>1, <2>2, <2>3
  <1>3. CASE Live(1) = <<>> /\ Live(2) = <<>>
    <2>1. CompactQueue = <<>>
      BY <1>2, <1>3, ConcatEmptySeq DEF CompactQueue
    <2>. QED BY <1>1, <1>2, <1>3, <2>1
  <1>4. CASE Live(1) = <<>> /\ Live(2) # <<>>
    <2>1. CompactQueue = <<queue[2]>>
      BY <1>2, <1>4, ConcatEmptySeq DEF CompactQueue
    <2>. QED BY <1>1, <1>2, <1>4, <2>1
  <1>5. CASE Live(1) # <<>> /\ Live(2) = <<>>
    <2>1. CompactQueue = <<queue[1]>>
      BY <1>2, <1>5, ConcatEmptySeq DEF CompactQueue
    <2>. QED BY <1>1, <1>2, <1>5, <2>1
  <1>6. CASE Live(1) # <<>> /\ Live(2) # <<>>
    <2>1. /\ CompactQueue \in Seq(Jobs) /\ Len(CompactQueue) = 2
          /\ CompactQueue[1] = queue[1] /\ CompactQueue[2] = queue[2]
      BY <1>2, <1>6, ConcatProperties DEF CompactQueue
    <2>2. CompactQueue = <<queue[1], queue[2]>>
      BY <2>1
    <2>. QED BY <1>1, <1>2, <1>6, <2>2
  <1>. QED BY <1>3, <1>4, <1>5, <1>6

\* A job is admitted to the back of the line, for the reservation that is held.
Admission(j) ==
    /\ UNCHANGED <<generation, outGeneration, outFault, reservation, activation, workerState,
                   active, completion, collected, pc, workerJob, workerResult, wire>>
    /\ apc # "deliver" /\ apc' \notin {"deliver", "submit"}
    /\ j \in Jobs /\ lastAdmitted < j.id /\ lastAdmitted' = j.id
    /\ j.gen = outGeneration /\ IsCurrent(j.gen) /\ outGeneration # 0 /\ reservation # 0
    /\ Len(CompactQueue) < 2 /\ queue' = Append(CompactQueue, j)

\* The line, with the admitted job at its end.
LEMMA AdmissionMail ==
    ASSUME DInv, NEW j, Admission(j)
    PROVE  /\ Generations' /\ Line' /\ Placed' /\ Held' = Held \cup {j}
           /\ j.id \in Nat /\ lastAdmitted \in Nat
  <1>. IInv /\ Generations /\ Line /\ Placed
    BY DEF DInv
  <1>1. /\ j \in Jobs /\ j # NoJob /\ j.id \in Nat /\ j.gen \in 0 .. Exhausted
        /\ lastAdmitted \in Nat /\ 0 < j.id
    <2>1. j \in Jobs /\ lastAdmitted < j.id /\ lastAdmitted \in Nat
      BY MailFacts DEF Admission
    <2>. QED BY <2>1, JobFacts DEF Jobs, NoJob
  <1>2. /\ \A i \in DOMAIN queue : queue[i] \in Jobs /\ queue[i] # NoJob /\ queue[i].id \in Nat
        /\ active.id \in Nat /\ completion.job.id \in Nat /\ collected.job.id \in Nat
        /\ queue \in Seq(Jobs) /\ Len(queue) <= 2
    BY MailFacts DEF Line
  <1>3. \/ queue' = <<j>> /\ \A k \in DOMAIN queue : ~IsCurrent(queue[k].gen)
        \/ \E k \in DOMAIN queue :
             /\ queue' = <<queue[k], j>> /\ IsCurrent(queue[k].gen)
             /\ \A i \in DOMAIN queue : i # k => ~IsCurrent(queue[i].gen)
    <2>1. CASE CompactQueue = <<>> /\ \A k \in DOMAIN queue : ~IsCurrent(queue[k].gen)
      BY <1>1, <2>1 DEF Admission
    <2>2. ASSUME NEW k \in DOMAIN queue, CompactQueue = <<queue[k]>>, IsCurrent(queue[k].gen),
                 \A i \in DOMAIN queue : i # k => ~IsCurrent(queue[i].gen)
          PROVE  queue' = <<queue[k], j>>
      <3>1. queue' = Append(<<queue[k]>>, j)
        BY <2>2 DEF Admission
      <3>2. ASSUME NEW x \in Jobs, NEW y \in Jobs PROVE Append(<<x>>, y) = <<x, y>>
        <4>1. PICK s : s = Append(<<x>>, y)
          OBVIOUS
        <4>2. <<x>> \in Seq(Jobs) /\ Len(<<x>>) = 1 /\ <<x>>[1] = x
          OBVIOUS
        <4>3. s \in Seq(Jobs) /\ Len(s) = 2 /\ s[1] = x /\ s[2] = y
          BY <4>1, <4>2
        <4>4. s = <<x, y>>
          BY <4>3
        <4>. QED BY <4>1, <4>4
      <3>. QED BY <1>1, <1>2, <3>1, <3>2
    <2>3. Len(CompactQueue) < 2
      BY DEF Admission
    <2>4. ~(CompactQueue = <<queue[1], queue[2]>>)
      BY <2>3
    <2>. QED BY <1>2, <2>1, <2>2, <2>4, Compacted
  <1>4. \A i \in DOMAIN queue' :
          \/ queue'[i] = j /\ \A k \in DOMAIN queue' : i < k => FALSE
          \/ \E k \in DOMAIN queue : queue'[i] = queue[k] /\ IsCurrent(queue[k].gen) /\ i = 1
    <2>1. CASE queue' = <<j>>
      <3>1. DOMAIN queue' = {1} /\ queue'[1] = j
        BY <2>1
      <3>. QED BY <3>1
    <2>2. ASSUME NEW k \in DOMAIN queue, queue' = <<queue[k], j>>, IsCurrent(queue[k].gen)
          PROVE  /\ \A i \in DOMAIN queue' :
                   \/ queue'[i] = j /\ \A n \in DOMAIN queue' : i < n => FALSE
                   \/ queue'[i] = queue[k] /\ i = 1
      <3>1. DOMAIN queue' = {1, 2} /\ queue'[1] = queue[k] /\ queue'[2] = j
        BY <2>2
      <3>. QED BY <3>1
    <2>. QED BY <1>3, <2>1, <2>2
  <1>5. Len(queue') <= 2
    <2>1. \A x, y : Len(<<x>>) = 1 /\ Len(<<x, y>>) = 2
      OBVIOUS
    <2>2. \/ Len(queue') = 1
          \/ Len(queue') = 2
      BY <1>3, <2>1, Zenon
    <2>3. \A n : n = 1 \/ n = 2 => n <= 2
      OBVIOUS
    <2>. QED BY <2>2, <2>3, Zenon
  <1>6. Generations'
    <2>1. Past(j.gen)
      BY OwnPast DEF Admission
    <2>2. \A i \in DOMAIN queue' : Past(queue'[i].gen)
      BY <1>4, <2>1 DEF Generations
    <2>. QED BY <2>2 DEF Generations, Past, Admission
  <1>7. Placed'
    BY DEF Placed, Admission
  <1>8. collected = NoCompletion
    BY DEF Line, Admission
  <1>9. Line'
    <2>1. \A i \in DOMAIN queue' :
            /\ queue'[i].id \in Nat /\ 0 < queue'[i].id /\ queue'[i].id <= j.id
            /\ active.id < queue'[i].id /\ completion.job.id < queue'[i].id
            /\ collected.job.id < queue'[i].id
      <3>1. active.id <= lastAdmitted /\ completion.job.id <= lastAdmitted /\ collected.job.id = 0
        BY <1>2, <1>8, <1>1 DEF Line, Issued, NoJob, NoCompletion
      <3>2. active.id < j.id /\ completion.job.id < j.id /\ collected.job.id < j.id
        BY <1>1, <1>2, <3>1 DEF Admission
      <3>3. \A k \in DOMAIN queue : /\ 0 < queue[k].id /\ queue[k].id <= j.id
                                    /\ active.id < queue[k].id /\ completion.job.id < queue[k].id
                                    /\ collected.job.id < queue[k].id
        BY <1>1, <1>2 DEF Line, Issued, Admission
      <3>. QED BY <1>1, <1>2, <1>4, <3>2, <3>3
    <2>2. \A i, k \in DOMAIN queue' : i < k => queue'[i].id < queue'[k].id
      <3>1. ASSUME NEW i \in DOMAIN queue', NEW k \in DOMAIN queue', i < k
            PROVE  queue'[i].id < queue'[k].id
        <4>1. PICK n \in DOMAIN queue : queue'[i] = queue[n] /\ i = 1
          BY <1>4, <3>1
        <4>2. k # 1
          BY <3>1, <4>1
        <4>3. queue'[k] = j
          BY <1>4, <4>2
        <4>. QED BY <1>1, <1>2, <4>1, <4>3 DEF Line, Issued, Admission
      <3>. QED BY <3>1
    <2>3. lastAdmitted' = j.id /\ lastAdmitted < j.id
          /\ UNCHANGED <<active, completion, collected>> /\ apc # "deliver" /\ apc' # "deliver"
      BY DEF Admission
    <2>4. active # NoJob => 0 < active.id /\ active.id <= j.id /\ collected.job.id < active.id
      BY <1>1, <1>2, <2>3 DEF Line, Issued
    <2>5. completion # NoCompletion =>
            /\ completion.job # NoJob /\ 0 < completion.job.id /\ completion.job.id <= j.id
            /\ collected.job.id < completion.job.id
      BY <1>1, <1>2, <2>3 DEF Line, Issued
    <2>6. active = NoJob \/ completion = NoCompletion
      BY DEF Line
    <2>. QED BY <1>5, <1>8, <2>1, <2>2, <2>3, <2>4, <2>5, <2>6 DEF Line, Issued, NoCompletion
  <1>10. Held' = Held \cup {j}
    <2>1. \E i \in DOMAIN queue' : queue'[i] = j
      <3>1. CASE queue' = <<j>>
        BY <3>1
      <3>2. ASSUME NEW k, queue' = <<k, j>> PROVE \E i \in DOMAIN queue' : queue'[i] = j
        <4>1. 2 \in DOMAIN queue' /\ queue'[2] = j
          BY <3>2
        <4>. QED BY <4>1
      <3>. QED BY <1>3, <3>1, <3>2
    <2>2. \A k \in DOMAIN queue : IsCurrent(queue[k].gen) => \E i \in DOMAIN queue' : queue'[i] = queue[k]
      <3>1. ASSUME NEW k \in DOMAIN queue, queue' = <<queue[k], j>>
            PROVE  \E i \in DOMAIN queue' : queue'[i] = queue[k]
        <4>1. 1 \in DOMAIN queue' /\ queue'[1] = queue[k]
          BY <3>1
        <4>. QED BY <4>1
      <3>. QED BY <1>3, <3>1
    <2>3. /\ UNCHANGED <<generation, active, completion, collected>>
          /\ IsCurrent(j.gen)
      BY DEF Admission
    <2>4. \A g : IsCurrent(g)' <=> IsCurrent(g)
      BY <2>3 DEF IsCurrent
    <2>5. \A i : i \in DOMAIN queue' => (IsCurrent(queue[i].gen)' <=> IsCurrent(queue'[i].gen))
      BY <2>3 DEF IsCurrent
    <2>6. \A x : (\E i \in DOMAIN queue' : IsCurrent(queue[i].gen)' /\ x = queue'[i]) <=>
                 x = j \/ \E k \in DOMAIN queue : IsCurrent(queue[k].gen) /\ x = queue[k]
      BY <1>4, <2>1, <2>2, <2>3, <2>5
    <2>7. \A x : x \in Held' <=> x \in Held \/ x = j
      BY <1>1, <2>3, <2>6 DEF Held
    <2>. QED BY <2>7
  <1>. QED BY <1>1, <1>6, <1>7, <1>9, <1>10


\* What a submission that admits its job does to the intent and the mailbox.
LEMMA AdmitFacts ==
    ASSUME IInv, NEW outcomes, "Failed" \in outcomes,
           NEW intent \in Intents(Refs, outcomes), NEW kind \in {"text", "control"},
           NEW contended, NEW r, r = SubmitResult(intent, kind, contended),
           Submit(intent, kind, r), ~UNCHANGED <<queue, lastAdmitted>>,
           NEW j, j = JobOf(Identified(intent), kind), NEW t, t = Attempted(intent, r)
    PROVE  /\ r = "Sent" /\ ~(Admissible /\ Exhausts(intent)) /\ UNCHANGED outFault
           /\ j \in Jobs /\ lastAdmitted < j.id /\ lastAdmitted' = j.id
           /\ j.gen = outGeneration /\ IsCurrent(j.gen) /\ outGeneration # 0 /\ reservation # 0
           /\ Len(CompactQueue) < 2 /\ queue' = Append(CompactQueue, j)
           /\ j.kind = kind /\ j.ref = intent.ref
           /\ t.admitted /\ t.id = j.id /\ t.ref = j.ref /\ t.gen = j.gen
           /\ t.reservation = reservation /\ t.outcome = intent.outcome
  <1>1. ApplicationTypes /\ outFault \in BOOLEAN /\ lastAdmitted \in Nat
    BY DEF IInv, TypeOK, FlagTypes, ApplicationTypes
  <1>2. r = "Sent"
    BY DEF Submit
  <1>3. PICK i : i = Identified(intent)
    OBVIOUS
  <1>4. /\ i \in Intents(Refs, outcomes) /\ i.id \in Nat
        /\ j \in Jobs /\ t \in Intents(Refs, outcomes)
    BY <1>1, <1>3, IdentifiedType, JobType, IntentFacts
  <1>5. /\ Admissible /\ ~Exhausts(intent) /\ i.gen = outGeneration /\ ~(i.id <= lastAdmitted)
        /\ CanSubmit(j)
    BY <1>2, <1>3 DEF SubmitResult
  <1>6. queue' = Append(CompactQueue, j) /\ lastAdmitted' = i.id
    BY <1>2, <1>3 DEF Submit, TrySubmit
  <1>7. j.id = i.id /\ j.gen = i.gen /\ j.kind = kind /\ j.ref = i.ref
    BY <1>3 DEF JobOf
  <1>8. t = [i EXCEPT !.admitted = TRUE, !.reservation = reservation]
    <2>1. t = [i EXCEPT !.admitted = ("Sent" = "Sent"),
                        !.reservation = IF "Sent" = "Sent" THEN reservation ELSE @,
                        !.outcome = IF "Sent" \in {"Stale", "Failed"} THEN "Failed" ELSE @]
      BY <1>2, <1>3, <1>5, Zenon DEF Attempted
    <2>. QED BY <1>4, <2>1 DEF Intents
  <1>9. /\ t.admitted /\ t.id = i.id /\ t.ref = i.ref /\ t.gen = i.gen
        /\ t.reservation = reservation /\ t.outcome = i.outcome
    BY <1>4, <1>8 DEF Intents
  <1>10. i.ref = intent.ref /\ i.outcome = intent.outcome
    BY <1>3 DEF Identified, Intents
  <1>11. UNCHANGED outFault
    <2>1. outFault' = (outFault \/ (Admissible /\ Exhausts(intent)))
      BY DEF Submit
    <2>2. outFault' = (outFault \/ FALSE)
      BY <1>5, <2>1
    <2>. QED BY <1>1, <2>2
  <1>12. lastAdmitted < j.id
    BY <1>1, <1>4, <1>5, <1>7
  <1>. QED BY <1>2, <1>4, <1>5, <1>6, <1>7, <1>9, <1>10, <1>11, <1>12
       DEF CanSubmit, Admissible


\* A text that is submitted is claimed by its job, under a new identity.
LEMMA TextAdmitted ==
    ASSUME DInv, IInv', SubmitText, ~UNCHANGED <<queue, lastAdmitted>>
    PROVE  DInv'
  <1>. IInv /\ Generations /\ Line /\ Placed /\ TextStore /\ ControlStore /\ Apart /\ Claims /\ Log
    BY DEF DInv
  <1>0. /\ apc = "submit" /\ apc' = "cleanup" /\ ApplicationStep
        /\ UNCHANGED <<completion, collected, reservation, activation, workerState, controls,
                       textCount, told, controlCount>>
    BY DEF SubmitText, ApplicationStep, Poll
  <1>1. /\ Head(texts) = texts[1] /\ Len(texts) > 0 /\ texts[1] \in TextIntents
        /\ texts \in Seq(TextIntents) /\ Len(texts) \in Nat /\ DOMAIN texts = 1 .. Len(texts)
        /\ ~texts[1].admitted /\ texts[1].outcome = "Pending" /\ 1 \in DOMAIN texts
        /\ \A i \in DOMAIN texts : ~texts[i].admitted
    BY <1>0, TextFacts DEF TextStore, IInv, Carried
  <1>2. PICK contended \in BOOLEAN :
          LET res == SubmitResult(Head(texts), "text", contended) IN
          /\ Submit(Head(texts), "text", res)
          /\ texts' = [texts EXCEPT ![1] = IF res = "Busy" THEN @ ELSE Attempted(@, res)]
          /\ IF Admissible /\ Exhausts(Head(texts)) THEN Retire ELSE UNCHANGED <<generation, outGeneration>>
    BY DEF SubmitText
  <1>3. PICK s \in Intents(Refs, {"Pending", "Sent", "Failed", "Cancelled"}) : s = texts[1]
    BY <1>1, IntentRefs
  <1>4. PICK r : r = SubmitResult(s, "text", contended)
    OBVIOUS
  <1>5. PICK j : j = JobOf(Identified(s), "text")
    OBVIOUS
  <1>6. PICK t : t = Attempted(s, r)
    OBVIOUS
  <1>7. /\ Submit(s, "text", r)
        /\ texts' = [texts EXCEPT ![1] = IF r = "Busy" THEN @ ELSE t]
        /\ IF Admissible /\ Exhausts(s) THEN Retire ELSE UNCHANGED <<generation, outGeneration>>
    BY <1>1, <1>2, <1>3, <1>4, <1>6
  <1>8. /\ r = "Sent" /\ ~(Admissible /\ Exhausts(s)) /\ UNCHANGED outFault
        /\ j \in Jobs /\ lastAdmitted < j.id /\ lastAdmitted' = j.id
        /\ j.gen = outGeneration /\ IsCurrent(j.gen) /\ outGeneration # 0 /\ reservation # 0
        /\ Len(CompactQueue) < 2 /\ queue' = Append(CompactQueue, j)
        /\ j.kind = "text" /\ j.ref = s.ref
        /\ t.admitted /\ t.id = j.id /\ t.ref = j.ref /\ t.gen = j.gen
        /\ t.reservation = reservation /\ t.outcome = s.outcome
    BY <1>4, <1>5, <1>6, <1>7, AdmitFacts
  <1>9. UNCHANGED <<active, pc, workerJob, workerResult, wire>>
    BY <1>0, ApplicationFrame DEF Frame, historyVars
  <1>10. UNCHANGED <<generation, outGeneration>>
    BY <1>7, <1>8
  <1>11. Admission(j)
    BY <1>0, <1>8, <1>9, <1>10 DEF Admission
  <1>12. /\ Generations' /\ Line' /\ Placed' /\ Held' = Held \cup {j}
         /\ j.id \in Nat /\ lastAdmitted \in Nat
    BY <1>11, AdmissionMail
  <1>13. /\ Len(texts') = Len(texts) /\ DOMAIN texts' = DOMAIN texts /\ texts'[1] = t
         /\ \A i \in DOMAIN texts : i # 1 => texts'[i] = texts[i]
    <2>1. texts' = [texts EXCEPT ![1] = t]
      BY <1>7, <1>8
    <2>. QED BY <1>1, <2>1
  <1>14. Popped' = Popped
    BY <1>0, <1>13 DEF Popped
  <1>15. TextStore'
    <2>1. \A i \in DOMAIN texts : texts'[i].ref = texts[i].ref
      BY <1>3, <1>8, <1>13
    <2>2. \A i \in DOMAIN texts : texts'[i].admitted => i = 1
      BY <1>1, <1>13
    <2>3. 0 < j.id /\ j.id <= lastAdmitted'
      BY <1>8, <1>12
    <2>4. Issued(t.id)'
      BY <1>8, <2>3 DEF Issued
    <2>5. \A i \in DOMAIN texts' : texts'[i].admitted =>
            /\ i = 1 /\ Issued(texts[i].id)'
            /\ reservation' # 0 /\ texts'[i].reservation = reservation'
            /\ outGeneration' # 0 => texts'[i].gen = outGeneration'
      BY <1>0, <1>8, <1>10, <1>13, <2>2, <2>4
    <2>6. Len(texts') <= textCount'
      BY <1>0, <1>13 DEF TextStore
    <2>. HIDE DEF Popped, Issued
    <2>. QED BY <1>0, <1>13, <1>14, <2>1, <2>5, <2>6 DEF TextStore
  <1>16. ControlStore'
    <2>1. UNCHANGED <<controls, controlCount, generation, outGeneration>>
      BY <1>0, <1>10
    <2>2. \A id \in Nat : Issued(id) => Issued(id)'
      BY <1>8, <1>12 DEF Issued
    <2>. QED BY <2>1, <2>2, ControlFacts DEF ControlStore, Past, IsCurrent
  <1>17. Apart'
    <2>1. Len(controls) > 0 /\ controls[1].admitted => controls[1].id <= lastAdmitted /\ controls[1].id \in Nat
      BY ControlFacts DEF ControlStore, Issued
    <2>2. Len(controls) > 0 /\ controls[1].admitted => t.id # controls[1].id
      BY <1>8, <1>12, <2>1
    <2>. QED BY <1>0, <1>13, <2>2 DEF Apart
  <1>18. Claims'
    <2>1. \A x \in Held : x.kind = "control" /\ Len(controls) > 0 /\ Carries(controls[1], x)
      BY <1>1 DEF Claims, Claimed, Carries
    <2>2. \A x \in Held : Claimed(x)'
      BY <1>0, <1>8, <2>1 DEF Claimed, Carries
    <2>3. Claimed(j)'
      BY <1>0, <1>1, <1>8, <1>13 DEF Claimed, Carries
    <2>4. j.id = texts'[1].id
      BY <1>8, <1>13
    <2>. QED BY <1>12, <2>2, <2>3, <2>4 DEF Claims
  <1>19. Log'
    <2>1. TextLog' = TextLog
      BY <1>9 DEF TextLog
    <2>2. /\ \A ref : Logged(ref)' <=> Logged(ref)
          /\ SentLogged(workerJob, workerResult)' /\ SentLogged(completion.job, completion.result)'
          /\ SentLogged(collected.job, collected.result)'
      BY <1>0, <1>9, <2>1 DEF Log, Logged, SentLogged
    <2>3. ~Logged(Popped + 1)
      BY <1>1 DEF Log
    <2>4. \A i \in DOMAIN texts' : texts'[i].outcome = "Sent" => Logged(texts'[i].ref)
      BY <1>1, <1>3, <1>8, <1>13 DEF Log
    <2>. HIDE DEF Popped
    <2>. QED BY <1>0, <1>13, <1>14, <2>1, <2>2, <2>3, <2>4 DEF Log
  <1>. QED BY <1>12, <1>15, <1>16, <1>17, <1>18, <1>19 DEF DInv


\* So is a control.
LEMMA ControlAdmitted ==
    ASSUME DInv, IInv', PollChatControls, ~UNCHANGED <<queue, lastAdmitted>>
    PROVE  DInv'
  <1>. IInv /\ Generations /\ Line /\ Placed /\ TextStore /\ ControlStore /\ Apart /\ Claims /\ Log
    BY DEF DInv
  <1>0. /\ apc = "controls" /\ apc' = "messages" /\ ApplicationStep
        /\ UNCHANGED <<completion, collected, reservation, activation, workerState, texts,
                       textCount, told, controlCount>>
    BY DEF PollChatControls, ApplicationStep, Poll
  <1>1. PICK contended \in BOOLEAN :
          LET res == SubmitResult(Head(controls), "control", contended) IN
          /\ controls # <<>> /\ ~(Head(controls).outcome \in {"Superseded", "Failed"})
          /\ ~Head(controls).admitted
          /\ Submit(Head(controls), "control", res)
          /\ controls' = [controls EXCEPT ![1] = Attempted(@, res)]
          /\ res = "Sent" => UNCHANGED <<generation, outGeneration>>
    BY DEF PollChatControls
  <1>2. /\ Head(controls) = controls[1] /\ Len(controls) > 0 /\ controls[1] \in ControlIntents
        /\ controls \in Seq(ControlIntents) /\ Len(controls) \in Nat
        /\ DOMAIN controls = 1 .. Len(controls)
        /\ ~controls[1].admitted /\ controls[1].outcome = "Pending" /\ 1 \in DOMAIN controls
        /\ \A i \in DOMAIN controls : ~controls[i].admitted
    BY <1>1, ControlFacts DEF ControlStore
  <1>3. PICK s \in Intents(Refs, {"Pending", "Failed", "Superseded"}) : s = controls[1]
    BY <1>2, IntentRefs
  <1>4. PICK r : r = SubmitResult(s, "control", contended)
    OBVIOUS
  <1>5. PICK j : j = JobOf(Identified(s), "control")
    OBVIOUS
  <1>6. PICK c : c = Attempted(s, r)
    OBVIOUS
  <1>7. /\ Submit(s, "control", r)
        /\ controls' = [controls EXCEPT ![1] = c]
        /\ r = "Sent" => UNCHANGED <<generation, outGeneration>>
    BY <1>1, <1>2, <1>3, <1>4, <1>6
  <1>8. /\ r = "Sent" /\ ~(Admissible /\ Exhausts(s)) /\ UNCHANGED outFault
        /\ j \in Jobs /\ lastAdmitted < j.id /\ lastAdmitted' = j.id
        /\ j.gen = outGeneration /\ IsCurrent(j.gen) /\ outGeneration # 0 /\ reservation # 0
        /\ Len(CompactQueue) < 2 /\ queue' = Append(CompactQueue, j)
        /\ j.kind = "control" /\ j.ref = s.ref
        /\ c.admitted /\ c.id = j.id /\ c.ref = j.ref /\ c.gen = j.gen
        /\ c.reservation = reservation /\ c.outcome = s.outcome
    BY <1>4, <1>5, <1>6, <1>7, AdmitFacts
  <1>9. UNCHANGED <<active, pc, workerJob, workerResult, wire>>
    BY <1>0, ApplicationFrame DEF Frame, historyVars
  <1>10. UNCHANGED <<generation, outGeneration>>
    BY <1>7, <1>8
  <1>11. Admission(j)
    BY <1>0, <1>8, <1>9, <1>10 DEF Admission
  <1>12. /\ Generations' /\ Line' /\ Placed' /\ Held' = Held \cup {j}
         /\ j.id \in Nat /\ lastAdmitted \in Nat
    BY <1>11, AdmissionMail
  <1>13. /\ Len(controls') = Len(controls) /\ DOMAIN controls' = DOMAIN controls /\ controls'[1] = c
         /\ \A i \in DOMAIN controls : i # 1 => controls'[i] = controls[i]
    BY <1>2, <1>7
  <1>14. \A id \in Nat : Issued(id) => Issued(id)'
    BY <1>8, <1>12 DEF Issued
  <1>15. TextStore'
    BY <1>0, <1>10, <1>14, TextFacts DEF TextStore, Popped
  <1>16. ControlStore'
    <2>1. \A i \in DOMAIN controls : controls'[i].ref = controls[i].ref
      BY <1>3, <1>8, <1>13
    <2>2. \A i \in DOMAIN controls : controls'[i].admitted => i = 1
      BY <1>2, <1>13
    <2>3. 0 < j.id /\ j.id <= lastAdmitted'
      BY <1>8, <1>12
    <2>4. Issued(c.id)'
      BY <1>8, <2>3 DEF Issued
    <2>5. Past(c.gen)
      BY <1>8, OwnPast
    <2>6. \A i \in DOMAIN controls' : Past(controls'[i].gen)
      BY <1>13, <2>5 DEF ControlStore
    <2>7. \A i \in DOMAIN controls' : Past(controls[i].gen)'
      BY <1>10, <2>6 DEF Past, IsCurrent
    <2>8. \A i \in DOMAIN controls' : controls'[i].admitted =>
            /\ i = 1 /\ Issued(controls[i].id)'
            /\ controls'[i].outcome = "Superseded" => ~IsCurrent(controls[i].gen)'
      BY <1>2, <1>3, <1>8, <1>13, <2>2, <2>4
    <2>. HIDE DEF Past, Issued
    <2>. QED BY <1>0, <1>13, <2>1, <2>7, <2>8 DEF ControlStore
  <1>17. Apart'
    <2>1. Len(texts) > 0 /\ texts[1].admitted => texts[1].id <= lastAdmitted /\ texts[1].id \in Nat
      BY TextFacts DEF TextStore, Issued
    <2>2. Len(texts) > 0 /\ texts[1].admitted => c.id # texts[1].id
      BY <1>8, <1>12, <2>1
    <2>. QED BY <1>0, <1>13, <2>2 DEF Apart
  <1>18. Claims'
    <2>1. \A x \in Held : x.kind = "text" /\ Len(texts) > 0 /\ Carries(texts[1], x)
      BY <1>2 DEF Claims, Claimed, Carries
    <2>2. \A x \in Held : Claimed(x)'
      BY <1>0, <1>8, <2>1 DEF Claimed, Carries
    <2>3. Claimed(j)'
      BY <1>0, <1>2, <1>8, <1>13 DEF Claimed, Carries
    <2>. QED BY <1>0, <1>10, <1>12, <2>2, <2>3 DEF Claims
  <1>19. Log'
    <2>1. TextLog' = TextLog
      BY <1>9 DEF TextLog
    <2>. QED BY <1>0, <1>9, <2>1 DEF Log, Logged, Reported, SentLogged, Popped
  <1>. QED BY <1>12, <1>15, <1>16, <1>17, <1>18, <1>19 DEF DInv


-----------------------------------------------------------------------------
(* What leaves the mailbox *)

\* The worker's final acknowledgement finds nothing held, and frees its texts.
LEMMA RetiredStep ==
    ASSUME DInv, IInv', TakeRetired
    PROVE  DInv'
  <1>. IInv /\ Generations /\ Line /\ Placed /\ TextStore /\ ControlStore /\ Apart /\ Claims /\ Log
    BY DEF DInv
  <1>0. /\ apc = "retire" /\ apc' = "turn" /\ ApplicationStep
        /\ UNCHANGED <<generation, outGeneration, outFault, queue, completion, collected,
                       lastAdmitted, activation, controls, textCount, told, controlCount>>
    BY DEF TakeRetired, ApplicationStep, Poll, retireVars
  <1>1. CASE UNCHANGED <<workerState, texts, reservation>>
    <2>1. Rests /\ (outFault' => outGeneration' = 0)
      BY <1>0 DEF Rests, Generations
    <2>2. Quiet
      BY <1>0, <1>1, <2>1, Idle
    <2>. QED BY <2>2, QuietStep
  <1>2. CASE /\ reservation # 0 /\ workerState = 2 /\ TryIdle /\ workerState' = 0
             /\ texts' = [i \in DOMAIN texts |-> Unbound(texts[i])] /\ reservation' = 0
    <2>1. UNCHANGED <<active, pc, workerJob, workerResult, wire>>
      BY <1>0, ApplicationFrame DEF Frame, historyVars
    <2>2. outGeneration = 0
      BY <1>2 DEF Generations
    <2>3. /\ active = NoJob /\ completion = NoCompletion /\ collected = NoCompletion
          /\ \A k \in DOMAIN queue : ~IsCurrent(queue[k].gen)
      <3>1. CompactQueue = <<>> /\ queue \in Seq(Jobs)
        BY <1>2, MailFacts DEF TryIdle
      <3>2. \A k \in DOMAIN queue : k \in {1, 2}
        BY <3>1 DEF Line
      <3>. QED BY <1>0, <1>2, <3>1, <3>2, Compaction DEF TryIdle, Line
    <2>4. Held = {} /\ Held' = {}
      BY <1>0, <2>1, <2>3 DEF Held, IsCurrent, NoCompletion
    <2>5. \A i \in DOMAIN texts :
            /\ texts[i] \in TextIntents /\ texts[i].ref = Popped + i
            /\ texts[i].admitted => i = 1 /\ texts[i].reservation = reservation
      BY TextFacts DEF TextStore
    <2>6. \A t \in TextIntents :
            LET d == [t EXCEPT !.admitted = FALSE, !.id = 0, !.reservation = 0] IN
            d.ref = t.ref /\ d.outcome = t.outcome /\ d.admitted = FALSE
      BY DEF TextIntents, Intents
    <2>7. /\ DOMAIN texts' = DOMAIN texts /\ Len(texts') = Len(texts)
          /\ \A i \in DOMAIN texts : texts'[i] = Unbound(texts[i])
      <3>1. texts \in Seq(TextIntents) /\ texts' \in Seq(TextIntents)
        BY <1>2, TextFacts, TextsType DEF IInv, TypeOK
      <3>. QED BY <1>2, <3>1
    <2>8. \A i \in DOMAIN texts :
            /\ texts'[i].ref = texts[i].ref /\ texts'[i].outcome = texts[i].outcome
            /\ ~texts'[i].admitted
      BY <2>5, <2>6, <2>7 DEF Unbound
    <2>9. Popped' = Popped
      BY <1>0, <2>7 DEF Popped
    <2>10. Generations'
      BY <1>0, <2>1, <2>2 DEF Generations, Past, IsCurrent
    <2>11. Line' /\ Placed'
      BY <1>0, <2>1 DEF Line, Placed, Issued, IsCurrent
    <2>12. TextStore'
      <3>1. Len(texts') <= textCount'
        BY <1>0, <2>7 DEF TextStore
      <3>. HIDE DEF Popped
      <3>. QED BY <1>0, <2>5, <2>7, <2>8, <2>9, <3>1 DEF TextStore
    <2>13. ControlStore'
      BY <1>0 DEF ControlStore, Past, Issued, IsCurrent
    <2>14. Apart' /\ Claims'
      <3>1. Len(texts') > 0 => ~texts'[1].admitted
        BY <2>7, <2>8, TextFacts
      <3>. QED BY <2>4, <3>1 DEF Apart, Claims
    <2>15. Log'
      <3>1. TextLog' = TextLog
        BY <2>1 DEF TextLog
      <3>2. /\ \A ref : Logged(ref)' <=> Logged(ref)
            /\ SentLogged(workerJob, workerResult)' /\ SentLogged(completion.job, completion.result)'
            /\ SentLogged(collected.job, collected.result)'
        BY <1>0, <2>1, <3>1 DEF Log, Logged, SentLogged
      <3>3. Len(texts) > 0 /\ texts[1].admitted => ~Logged(Popped + 1)
        <4>1. ASSUME Len(texts) > 0, texts[1].admitted PROVE ~Reported(texts[1].id)
          <5>1. 0 < texts[1].id
            BY <4>1, TextFacts DEF TextStore, Issued
          <5>2. workerJob.id = 0 /\ completion.job.id = 0 /\ collected.job.id = 0
            BY <2>3 DEF Placed, NoJob, NoCompletion
          <5>. QED BY <5>1, <5>2 DEF Reported
        <4>. QED BY <4>1 DEF Log
      <3>4. Len(texts) > 0 /\ Logged(Popped + 1) => texts'[1].outcome # "Pending" /\ ~texts'[1].admitted
        BY <2>7, <2>8, <3>3, TextFacts DEF Log
      <3>5. \A i \in DOMAIN texts' : texts'[i].outcome = "Sent" => Logged(texts'[i].ref)
        BY <2>7, <2>8 DEF Log
      <3>6. \A i \in DOMAIN TextLog' :
              TextLog'[i] \in 1 .. (IF Len(texts') > 0 THEN Popped' + 1 ELSE Popped')
        BY <2>7, <2>9, <3>1 DEF Log
      <3>. HIDE DEF Popped
      <3>. QED BY <2>7, <2>9, <3>2, <3>4, <3>5, <3>6 DEF Log
    <2>. QED BY <2>10, <2>11, <2>12, <2>13, <2>14, <2>15 DEF DInv
  <1>. QED BY <1>1, <1>2 DEF TakeRetired


\* A completion goes from the mailbox into the hands of the application.
LEMMA CollectStep ==
    ASSUME DInv, IInv', PollChatOutbound, apc' = "deliver"
    PROVE  DInv'
  <1>. IInv /\ Generations /\ Line /\ Placed /\ TextStore /\ ControlStore /\ Apart /\ Claims /\ Log
    BY DEF DInv
  <1>0. /\ apc = "outbound" /\ ApplicationStep
        /\ UNCHANGED <<queue, lastAdmitted, reservation, activation, workerState, texts, controls,
                       textCount, told, controlCount>>
    BY DEF PollChatOutbound, ApplicationStep, Poll, intentVars
  <1>1. UNCHANGED <<active, pc, workerJob, workerResult, wire>>
    BY <1>0, ApplicationFrame DEF Frame, historyVars
  <1>2. /\ completion # NoCompletion /\ completion' = NoCompletion
        /\ collected' = Judged(completion, generation')
        /\ outFault' = (outFault \/ audioFailure)
        /\ IF audioFailure \/ Pending THEN Retire ELSE UNCHANGED retireVars
    BY DEF PollChatOutbound, CanCollect
  <1>3. Rests /\ (outFault' => outGeneration' = 0)
    <2>1. Rests /\ (audioFailure => outGeneration' = 0)
      BY <1>2, RetireMoves
    <2>2. outFault \in BOOLEAN /\ audioFailure \in BOOLEAN
      BY DEF IInv, TypeOK, FlagTypes
    <2>3. outFault' => outFault \/ audioFailure
      BY <1>2, <2>2
    <2>4. outFault => outGeneration = 0
      BY DEF Generations
    <2>5. outGeneration = 0 => outGeneration' = 0
      BY <2>1 DEF Rests
    <2>. QED BY <2>1, <2>3, <2>4, <2>5
  <1>4. Moves
    BY <1>0, <1>3 DEF Moves, Rests
  <1>5. /\ active = NoJob /\ collected = NoCompletion /\ completion.job # NoJob
        /\ active.id = 0 /\ completion'.job.id = 0 /\ completion'.job = NoJob
        /\ completion'.result = "Failed" /\ completion'.job.kind = "none" /\ NoJob.gen = 0
    BY <1>0, <1>2 DEF Line, NoJob, NoCompletion
  <1>6. /\ collected'.job = completion.job /\ collected'.result = completion.result
        /\ collected'.stale <=> ~IsCurrentIn(completion.job.gen, generation')
    <2>1. completion \in [job : Jobs, result : Results, stale : BOOLEAN]
      BY <1>2 DEF IInv, TypeOK, MailboxTypes, Completions
    <2>2. collected' = [completion EXCEPT !.stale = ~IsCurrentIn(completion.job.gen, generation')]
      BY <1>2 DEF Judged
    <2>. QED BY <2>1, <2>2
  <1>7. collected' # NoCompletion
    BY <1>5, <1>6 DEF NoCompletion
  <1>8. Generations'
    <2>1. Words'
      BY <1>1, <1>3, <1>4, WordsStep
    <2>2. \A g \in 0 .. Exhausted : Past(g) =>
            g <= generation' /\ (outGeneration' = 0 => ~IsCurrentIn(g, generation'))
      BY <1>4, PastStep
    <2>3. /\ \A i \in DOMAIN queue : queue[i].gen \in 0 .. Exhausted /\ Past(queue[i].gen)
          /\ active.gen \in 0 .. Exhausted /\ Past(active.gen)
          /\ completion.job.gen \in 0 .. Exhausted /\ Past(completion.job.gen)
          /\ collected.job.gen \in 0 .. Exhausted /\ Past(collected.job.gen)
          /\ collected.job = NoJob
      BY <1>5, MailFacts DEF Generations, NoCompletion
    <2>4. /\ \A i \in DOMAIN queue' : Past(queue[i].gen)'
          /\ Past(active.gen)' /\ Past(completion.job.gen)' /\ Past(collected.job.gen)'
      BY <1>0, <1>1, <1>5, <1>6, <2>2, <2>3 DEF Past, IsCurrent
    <2>. QED BY <2>1, <2>4 DEF Generations, Words
  <1>9. Line'
    <2>1. /\ \A i \in DOMAIN queue : Issued(queue[i].id) /\ completion.job.id < queue[i].id
          /\ Issued(completion.job.id) /\ Len(queue) <= 2
          /\ \A i, k \in DOMAIN queue : i < k => queue[i].id < queue[k].id
      BY <1>2 DEF Line
    <2>2. \A i \in DOMAIN queue : 0 < queue[i].id
      BY <2>1 DEF Issued
    <2>3. collected'.stale => ~IsCurrent(collected.job.gen)'
      BY <1>6 DEF IsCurrent
    <2>4. Len(queue') <= 2
      BY <1>0, <2>1
    <2>5. completion' = NoCompletion
      BY <1>2
    <2>. QED BY <1>0, <1>1, <1>5, <1>6, <1>7, <2>1, <2>2, <2>3, <2>4, <2>5 DEF Line, Issued
  <1>10. Placed'
    BY <1>1 DEF Placed
  <1>11. TextStore' /\ ControlStore' /\ Apart'
    <2>1. TextsKeep /\ ControlsKeep /\ TextsQuiet /\ controlCount \in Nat
      BY <1>0, NumberFacts DEF TextsKeep, ControlsKeep, TextsQuiet
    <2>2. ControlsQuiet
      BY <1>0, <2>1 DEF ControlsQuiet
    <2>. QED BY <1>0, <1>4, <2>1, <2>2, TextStoreQuiet, ControlStoreQuiet, ApartQuiet
  <1>12. Claims'
    <2>1. \A g \in 0 .. Exhausted : Past(g) => (IsCurrentIn(g, generation') => IsCurrent(g))
      BY <1>4, PastStep
    <2>2. \A k \in DOMAIN queue : queue[k].gen \in 0 .. Exhausted /\ Past(queue[k].gen)
      BY MailFacts DEF Generations
    <2>3. \A k \in DOMAIN queue : IsCurrent(queue[k].gen)' => IsCurrent(queue[k].gen)
      BY <1>0, <2>1, <2>2 DEF IsCurrent
    <2>4. Held' \subseteq Held
      BY <1>0, <1>1, <1>5, <1>6, <2>3 DEF Held
    <2>5. outGeneration' # 0 => UNCHANGED <<generation, outGeneration>>
      BY <1>3 DEF Rests
    <2>6. outGeneration' # 0 => Held \subseteq Held'
      BY <1>0, <1>1, <1>5, <1>6, <2>5 DEF Held, IsCurrent, NoCompletion
    <2>. QED BY <1>0, <2>4, <2>5, <2>6 DEF Claims, Claimed, Carries
  <1>13. Log'
    <2>1. TextLog' = TextLog
      BY <1>1 DEF TextLog
    <2>2. /\ \A ref : Logged(ref)' <=> Logged(ref)
          /\ SentLogged(workerJob, workerResult)' /\ SentLogged(completion.job, completion.result)'
          /\ SentLogged(collected.job, collected.result)'
      BY <1>1, <1>2, <1>5, <1>6, <2>1 DEF Log, Logged, SentLogged
    <2>3. \A id : 0 # id /\ Reported(id) => Reported(id)'
      BY <1>1, <1>5, <1>6 DEF Reported, NoCompletion, NoJob
    <2>4. Len(texts) > 0 /\ texts[1].admitted => texts[1].id # 0
      BY TextFacts DEF TextStore, Issued
    <2>5. UNCHANGED texts /\ Popped' = Popped
      BY <1>0 DEF Popped
    <2>. HIDE DEF Popped
    <2>. QED BY <2>1, <2>2, <2>3, <2>4, <2>5 DEF Log
  <1>. QED BY <1>8, <1>9, <1>10, <1>11, <1>12, <1>13 DEF DInv


\* The mailbox without the completion that is delivered, which had been claimed.
LEMMA DeliverMail ==
    ASSUME DInv, Deliver
    PROVE  /\ Generations' /\ Line' /\ Placed' /\ Moves
           /\ collected.job \in Held /\ Claimed(collected.job) /\ collected.job.id # 0
           /\ \A x \in Held' : x \in Held /\ x.id # collected.job.id
           /\ outGeneration' # 0 => \A x \in Held : x = collected.job \/ x \in Held'
           /\ workerJob.id # collected.job.id /\ completion.job.id # collected.job.id
           /\ collected' = NoCompletion
           /\ UNCHANGED <<queue, completion, lastAdmitted, reservation, textCount, told,
                          controlCount, active, pc, workerJob, workerResult, wire>>
  <1>. IInv /\ Generations /\ Line /\ Placed /\ TextStore /\ ControlStore /\ Apart /\ Claims
    BY DEF DInv
  <1>0. /\ apc = "deliver" /\ apc' = "retire" /\ ApplicationStep /\ collected' = NoCompletion
        /\ UNCHANGED <<queue, completion, lastAdmitted, reservation, activation, workerState,
                       outFault, textCount, told, controlCount>>
    BY DEF Deliver, ApplicationStep, Poll, appVars
  <1>1. UNCHANGED <<active, pc, workerJob, workerResult, wire>>
    BY <1>0, ApplicationFrame DEF Frame, historyVars
  <1>2. Rests
    <2>1. Revoke \/ UNCHANGED <<generation, outGeneration>>
      BY DEF Deliver
    <2>. QED BY <2>1, RetireMoves DEF Rests
  <1>3. Moves /\ (outFault' => outGeneration' = 0)
    BY <1>0, <1>2 DEF Moves, Rests, Generations
  <1>4. /\ collected.job # NoJob /\ Issued(collected.job.id) /\ collected.job.id \in Nat
        /\ collected.job.id > 0
    BY <1>0, MailFacts DEF Line, Issued
  <1>5. /\ collected'.job = NoJob /\ collected'.job.id = 0 /\ collected'.job.gen = 0
        /\ ~collected'.stale /\ NoJob.gen = 0 /\ NoJob.id = 0
    BY <1>0 DEF NoCompletion, NoJob
  <1>6. Generations'
    <2>1. Words'
      BY <1>1, <1>3, WordsStep
    <2>2. \A g \in 0 .. Exhausted : Past(g) =>
            g <= generation' /\ (outGeneration' = 0 => ~IsCurrentIn(g, generation'))
      BY <1>3, PastStep
    <2>3. /\ \A i \in DOMAIN queue : queue[i].gen \in 0 .. Exhausted /\ Past(queue[i].gen)
          /\ active.gen \in 0 .. Exhausted /\ Past(active.gen)
          /\ completion.job.gen \in 0 .. Exhausted /\ Past(completion.job.gen)
          /\ 0 \in 0 .. Exhausted /\ Past(0)
      BY MailFacts, NumberFacts DEF Generations, Past, IsCurrent, IsCurrentIn
    <2>4. /\ \A i \in DOMAIN queue' : Past(queue[i].gen)'
          /\ Past(active.gen)' /\ Past(completion.job.gen)' /\ Past(collected.job.gen)'
      BY <1>0, <1>1, <1>5, <2>2, <2>3 DEF Past, IsCurrent
    <2>. QED BY <2>1, <2>4 DEF Generations, Words
  <1>7. /\ \A i \in DOMAIN queue : collected.job.id < queue[i].id /\ 0 < queue[i].id
        /\ active # NoJob => collected.job.id < active.id /\ 0 < active.id
        /\ completion # NoCompletion => /\ completion.job # NoJob /\ 0 < completion.job.id
                                        /\ collected.job.id < completion.job.id
        /\ active.id \in Nat /\ completion.job.id \in Nat
        /\ \A i \in DOMAIN queue : queue[i].id \in Nat
    BY <1>4, MailFacts DEF Line, Issued
  <1>8. Line'
    <2>1. Len(queue') <= 2
      BY <1>0 DEF Line
    <2>. QED BY <1>0, <1>1, <1>5, <1>7, <2>1 DEF Line, Issued
  <1>9. Placed'
    BY <1>1 DEF Placed
  <1>10. collected.job \in Held /\ Claimed(collected.job)
    BY <1>4 DEF Held, Claims
  <1>11. \A g \in 0 .. Exhausted : Past(g) => (IsCurrentIn(g, generation') => IsCurrent(g))
    BY <1>3, PastStep
  <1>12. \A k \in DOMAIN queue : IsCurrent(queue[k].gen)' => IsCurrent(queue[k].gen)
    <2>1. \A k \in DOMAIN queue : queue[k].gen \in 0 .. Exhausted /\ Past(queue[k].gen)
      BY MailFacts DEF Generations
    <2>. QED BY <1>0, <1>11, <2>1 DEF IsCurrent
  <1>13. \A x \in Held' : /\ x # NoJob
                          /\ \/ x = active \/ x = completion.job
                             \/ \E k \in DOMAIN queue : IsCurrent(queue[k].gen) /\ x = queue[k]
    BY <1>0, <1>1, <1>5, <1>12 DEF Held
  <1>14. \A x \in Held' : x \in Held /\ x.id # collected.job.id
    <2>1. ASSUME NEW x \in Held' PROVE x \in Held /\ x.id # collected.job.id
      <3>1. x \in Held
        BY <1>13, HeldIn
      <3>2. /\ active # NoJob => active.id # collected.job.id
            /\ completion.job # NoJob => completion.job.id # collected.job.id
            /\ \A k \in DOMAIN queue : queue[k].id # collected.job.id
        BY <1>4, <1>7 DEF NoCompletion
      <3>. QED BY <1>13, <3>1, <3>2, Zenon
    <2>. QED BY <2>1
  <1>15. outGeneration' # 0 => \A x \in Held : x = collected.job \/ x \in Held'
    <2>1. outGeneration' # 0 => UNCHANGED generation
      BY <1>2 DEF Rests
    <2>. QED BY <1>0, <1>1, <2>1 DEF Held, IsCurrent
  <1>16. workerJob.id # collected.job.id /\ completion.job.id # collected.job.id
    BY <1>4, <1>5, <1>7 DEF Placed, NoCompletion
  <1>. QED BY <1>0, <1>1, <1>3, <1>4, <1>6, <1>8, <1>9, <1>10, <1>14, <1>15, <1>16


\* The completion of a text settles it, frees it, or leaves it to its retirement.
LEMMA DeliverToText ==
    ASSUME DInv, IInv', Deliver, collected.job.kind = "text", Len(texts) > 0,
           Carries(texts[1], collected.job)
    PROVE  DInv'
  <1>. IInv /\ Generations /\ Line /\ Placed /\ TextStore /\ ControlStore /\ Apart /\ Claims /\ Log
    BY DEF DInv
  <1>0. /\ Generations' /\ Line' /\ Placed' /\ collected.job.id # 0
        /\ \A x \in Held' : x \in Held /\ x.id # collected.job.id
        /\ workerJob.id # collected.job.id /\ completion.job.id # collected.job.id
        /\ collected' = NoCompletion
        /\ UNCHANGED <<queue, completion, lastAdmitted, reservation, textCount, told,
                       controlCount, active, pc, workerJob, workerResult, wire>>
    BY DeliverMail
  <1>1. /\ texts \in Seq(TextIntents) /\ Len(texts) \in Nat /\ DOMAIN texts = 1 .. Len(texts)
        /\ \A i \in DOMAIN texts : texts[i] \in TextIntents /\ (texts[i].admitted => i = 1)
        /\ 1 \in DOMAIN texts
    BY TextFacts DEF TextStore
  <1>2. texts[1].admitted /\ texts[1].id = collected.job.id
    BY DEF Carries
  <1>3. IsText(collected) /\ ~(Len(controls) > 0 /\ controls[1].admitted /\ controls[1].id = collected.job.id)
    BY <1>1, <1>2 DEF IsText, IsTextOf, Apart
  <1>4. apc' = "retire" /\ UNCHANGED <<controls, generation, outGeneration>>
        /\ texts' = [i \in DOMAIN texts |-> DeliveredText(collected, texts[i])]
    BY <1>3 DEF Deliver
  <1>5. /\ DOMAIN texts' = DOMAIN texts /\ Len(texts') = Len(texts)
        /\ texts'[1] = DeliveredText(collected, texts[1])
        /\ \A i \in DOMAIN texts : i # 1 => texts'[i] = texts[i]
    <2>1. texts' \in Seq(TextIntents)
      BY <1>4, TextsType DEF IInv, TypeOK
    <2>2. \A i \in DOMAIN texts : i # 1 => DeliveredText(collected, texts[i]) = texts[i]
      BY <1>1 DEF DeliveredText, IsTextOf
    <2>. QED BY <1>1, <1>4, <2>1, <2>2
  <1>6. \A t \in TextIntents, o \in {"Sent", "Failed"} :
          /\ LET d == [t EXCEPT !.admitted = FALSE, !.outcome = IF @ = "Pending" THEN o ELSE @] IN
             /\ d.ref = t.ref /\ ~d.admitted /\ d.outcome = (IF t.outcome = "Pending" THEN o ELSE t.outcome)
          /\ LET d == [t EXCEPT !.admitted = FALSE, !.id = 0] IN
             d.ref = t.ref /\ ~d.admitted /\ d.outcome = t.outcome
    BY DEF TextIntents, Intents
  <1>7. \/ /\ Over(collected.result) /\ texts'[1].ref = texts[1].ref /\ ~texts'[1].admitted
           /\ texts'[1].outcome = (IF texts[1].outcome = "Pending" THEN collected.result ELSE texts[1].outcome)
        \/ ~Over(collected.result) /\ collected.stale /\ texts'[1] = texts[1]
        \/ /\ ~Over(collected.result) /\ texts'[1].ref = texts[1].ref /\ ~texts'[1].admitted
           /\ texts'[1].outcome = texts[1].outcome
    <2>1. CASE collected.result \in {"Sent", "Failed"}
      <3>1. texts'[1] = [texts[1] EXCEPT !.admitted = FALSE,
                           !.outcome = IF @ = "Pending" THEN collected.result ELSE @]
        BY <1>2, <1>5, <2>1 DEF DeliveredText, IsTextOf
      <3>. QED BY <1>1, <1>6, <2>1, <3>1 DEF Over
    <2>2. CASE collected.result \notin {"Sent", "Failed"} /\ collected.stale
      BY <1>2, <1>5, <2>2 DEF DeliveredText, IsTextOf, Over
    <2>3. CASE collected.result \notin {"Sent", "Failed"} /\ ~collected.stale
      <3>1. texts'[1] = [texts[1] EXCEPT !.admitted = FALSE, !.id = 0]
        BY <1>2, <1>5, <2>3 DEF DeliveredText, IsTextOf
      <3>. QED BY <1>1, <1>6, <2>3, <3>1 DEF Over
    <2>. QED BY <2>1, <2>2, <2>3
  <1>8. Popped' = Popped
    BY <1>0, <1>5 DEF Popped
  <1>9. \A i \in DOMAIN texts : /\ texts'[i].ref = texts[i].ref
                                /\ texts'[i].admitted => texts'[i] = texts[i]
    BY <1>5, <1>7
  <1>10. TextStore'
    <2>1. Len(texts') <= textCount'
      BY <1>0, <1>5 DEF TextStore
    <2>. HIDE DEF Popped
    <2>. QED BY <1>0, <1>4, <1>5, <1>8, <1>9, <2>1 DEF TextStore, Issued
  <1>11. ControlStore'
    BY <1>0, <1>4 DEF ControlStore, Past, Issued, IsCurrent
  <1>12. Apart'
    BY <1>1, <1>4, <1>5, <1>9 DEF Apart
  <1>13. Claims'
    <2>1. ASSUME NEW x \in Held' PROVE Claimed(x)'
      <3>1. Claimed(x) /\ x.id # texts[1].id
        BY <1>0, <1>2, <2>1 DEF Claims
      <3>2. x.kind = "control" /\ Len(controls) > 0 /\ Carries(controls[1], x) /\ reservation # 0
        BY <3>1 DEF Claimed, Carries
      <3>. QED BY <1>0, <1>4, <3>2 DEF Claimed, Carries
    <2>2. texts'[1].admitted => outGeneration' = 0
      <3>1. ASSUME texts'[1].admitted, outGeneration # 0 PROVE FALSE
        <4>1. collected.stale /\ texts[1].gen = outGeneration /\ texts[1].gen = collected.job.gen
          BY <1>1, <1>2, <1>7, <3>1 DEF TextStore, Carries
        <4>2. ~IsCurrent(outGeneration)
          BY <4>1 DEF Line
        <4>. QED BY <3>1, <4>2 DEF Generations, IsCurrent, IsCurrentIn
      <3>. QED BY <1>4, <3>1
    <2>. QED BY <2>1, <2>2 DEF Claims
  <1>14. Log'
    <2>1. TextLog' = TextLog
      BY <1>0 DEF TextLog
    <2>2. /\ \A ref : Logged(ref)' <=> Logged(ref)
          /\ SentLogged(workerJob, workerResult)' /\ SentLogged(completion.job, completion.result)'
          /\ SentLogged(collected.job, collected.result)'
      BY <1>0, <2>1 DEF Log, Logged, SentLogged, NoCompletion
    <2>3. Logged(Popped + 1) => Over(collected.result)
      <3>1. ASSUME Logged(Popped + 1) PROVE Over(collected.result)
        <4>1. Reported(texts[1].id)
          BY <1>2, <3>1 DEF Log
        <4>. QED BY <1>0, <1>2, <4>1 DEF Reported
      <3>. QED BY <3>1
    <2>4. Logged(Popped + 1) => ~texts'[1].admitted /\ texts'[1].outcome # "Pending"
      BY <1>7, <2>3 DEF Over
    <2>5. \A i \in DOMAIN texts' : texts'[i].outcome = "Sent" => Logged(texts'[i].ref)
      <3>1. texts'[1].outcome = "Sent" => texts[1].outcome = "Sent" \/ collected.result = "Sent"
        BY <1>7
      <3>2. collected.result = "Sent" => Logged(texts[1].ref)
        BY DEF Log, SentLogged, Carries
      <3>. QED BY <1>1, <1>5, <1>9, <3>1, <3>2 DEF Log
    <2>6. \A i \in DOMAIN TextLog' :
            TextLog'[i] \in 1 .. (IF Len(texts') > 0 THEN Popped' + 1 ELSE Popped')
      BY <1>5, <1>8, <2>1 DEF Log
    <2>. HIDE DEF Popped
    <2>. QED BY <1>8, <2>2, <2>4, <2>5, <2>6 DEF Log
  <1>. QED BY <1>0, <1>10, <1>11, <1>12, <1>13, <1>14 DEF DInv


\* The completion of a control takes it from its store, or leaves it superseded.
LEMMA DeliverToControl ==
    ASSUME DInv, IInv', Deliver, collected.job.kind = "control", Len(controls) > 0,
           Carries(controls[1], collected.job)
    PROVE  DInv'
  <1>. IInv /\ Generations /\ Line /\ Placed /\ TextStore /\ ControlStore /\ Apart /\ Claims /\ Log
    BY DEF DInv
  <1>0. /\ Generations' /\ Line' /\ Placed' /\ Moves /\ collected.job.id # 0
        /\ \A x \in Held' : x \in Held /\ x.id # collected.job.id
        /\ outGeneration' # 0 => \A x \in Held : x = collected.job \/ x \in Held'
        /\ workerJob.id # collected.job.id /\ completion.job.id # collected.job.id
        /\ collected' = NoCompletion
        /\ UNCHANGED <<queue, completion, lastAdmitted, reservation, textCount, told,
                       controlCount, active, pc, workerJob, workerResult, wire>>
    BY DeliverMail
  <1>1. /\ texts \in Seq(TextIntents) /\ Len(texts) \in Nat /\ DOMAIN texts = 1 .. Len(texts)
        /\ \A i \in DOMAIN texts : texts[i].admitted => i = 1
        /\ controls[1].admitted /\ controls[1].id = collected.job.id
    BY TextFacts DEF TextStore, Carries
  <1>2. \A i \in DOMAIN texts : ~IsTextOf(collected, texts[i])
    BY <1>1 DEF IsTextOf, Apart
  <1>3. UNCHANGED texts /\ apc' = "retire"
    <2>1. texts' = [i \in DOMAIN texts |-> DeliveredText(collected, texts[i])]
      BY DEF Deliver
    <2>2. \A i \in DOMAIN texts : DeliveredText(collected, texts[i]) = texts[i]
      BY <1>2 DEF DeliveredText
    <2>3. texts' = [i \in DOMAIN texts |-> texts[i]]
      BY <2>1, <2>2
    <2>. QED BY <1>1, <2>3 DEF Deliver
  <1>4. ControlsKeep \/ ControlsTail
    BY DEF Deliver, ControlsKeep, ControlsTail
  <1>5. TextsKeep /\ TextsQuiet
    BY <1>0, <1>3 DEF TextsKeep, TextsQuiet
  <1>6. TextStore'
    BY <1>0, <1>3, <1>5, TextStoreQuiet
  <1>7. ControlStore'
    <2>1. ControlsQuiet \/ (ControlsTail /\ UNCHANGED controlCount)
      BY <1>0, <1>4, NumberFacts DEF ControlsQuiet
    <2>. QED BY <1>0, <2>1, ControlStoreQuiet
  <1>8. Len(texts) > 0 /\ texts[1].admitted => texts[1].id # collected.job.id
    BY <1>1 DEF Apart
  <1>9. Apart'
    <2>1. CASE ControlsKeep
      BY <1>3, <2>1 DEF Apart, ControlsKeep
    <2>2. CASE ControlsTail
      <3>1. /\ controls \in Seq(ControlIntents)
            /\ \A i \in DOMAIN controls : controls[i].admitted => i = 1
        BY ControlFacts DEF ControlStore
      <3>2. Len(controls') > 0 => controls'[1] = controls[2] /\ 2 \in DOMAIN controls
        BY <2>2, <3>1 DEF ControlsTail
      <3>. QED BY <3>1, <3>2 DEF Apart
    <2>. QED BY <1>4, <2>1, <2>2
  <1>10. Claims'
    <2>1. ASSUME NEW x \in Held' PROVE Claimed(x)'
      <3>1. Claimed(x) /\ x.id # controls[1].id
        BY <1>0, <1>1, <2>1 DEF Claims
      <3>2. x.kind = "text" /\ Len(texts) > 0 /\ Carries(texts[1], x) /\ reservation # 0
        BY <3>1 DEF Claimed, Carries
      <3>. QED BY <1>0, <1>3, <3>2 DEF Claimed, Carries
    <2>2. outGeneration' # 0 => outGeneration # 0
      BY <1>0 DEF Moves
    <2>3. ASSUME Len(texts) > 0, outGeneration' # 0, texts[1].admitted
          PROVE  \E j \in Held' : j.id = texts[1].id
      <3>1. PICK j \in Held : j.id = texts[1].id
        BY <2>2, <2>3 DEF Claims
      <3>2. j # collected.job
        BY <1>8, <2>3, <3>1
      <3>3. j \in Held'
        BY <1>0, <2>3, <3>1, <3>2, Zenon
      <3>. QED BY <3>1, <3>3
    <2>. QED BY <1>3, <2>1, <2>3 DEF Claims
  <1>11. Log'
    <2>1. TextLog' = TextLog
      BY <1>0 DEF TextLog
    <2>2. /\ \A ref : Logged(ref)' <=> Logged(ref)
          /\ SentLogged(workerJob, workerResult)' /\ SentLogged(completion.job, completion.result)'
          /\ SentLogged(collected.job, collected.result)'
      BY <1>0, <2>1 DEF Log, Logged, SentLogged, NoCompletion
    <2>3. \A id : id # collected.job.id /\ Reported(id) => Reported(id)'
      BY <1>0 DEF Reported
    <2>4. UNCHANGED texts /\ Popped' = Popped
      BY <1>0, <1>3 DEF Popped
    <2>. HIDE DEF Popped
    <2>. QED BY <1>8, <2>1, <2>2, <2>3, <2>4 DEF Log
  <1>. QED BY <1>0, <1>6, <1>7, <1>9, <1>10, <1>11 DEF DInv

LEMMA DeliverStep ==
    ASSUME DInv, IInv', Deliver
    PROVE  DInv'
  BY DeliverMail, DeliverToText, DeliverToControl DEF Claimed



-----------------------------------------------------------------------------
(* The worker *)

\* What a step of the worker that moves no job leaves alone.
Elsewhere ==
    UNCHANGED <<generation, outGeneration, outFault, reservation, activation, queue, collected,
                lastAdmitted, texts, textCount, told, controls, controlCount, apc>>
LEMMA WorkerElsewhere ==
    ASSUME WorkerStep
    PROVE  /\ UNCHANGED <<generation, outGeneration, outFault, reservation, activation, collected,
                          lastAdmitted, texts, textCount, told, controls, controlCount, apc>>
           /\ ~Take => UNCHANGED queue
           /\ ~(Take \/ Complete) => UNCHANGED <<active, completion, workerJob>>
           /\ ~Write => UNCHANGED wire
  <1>. Wake \/ RunOnce
    BY DEF WorkerStep
  <1>1. UNCHANGED <<apc, outGeneration, outFault, reservation, collected, lastAdmitted, texts,
                    textCount, told, controls, controlCount>>
    BY DEF WorkerStep, appVars, intentVars
  <1>. USE DEF RunOnce, Wake, Start, Check, Lease, Format, Finish, RetireWorker, IdleBefore,
         Pop, IdleAfter, AudioLease, AudioSend, mailboxVars, historyVars
  <1>2. UNCHANGED <<generation, activation>>
    BY DEF Take, Write, Complete
  <1>3. ~Take => UNCHANGED queue
    BY DEF Write, Complete
  <1>4. ~(Take \/ Complete) => UNCHANGED <<active, completion, workerJob>>
    BY DEF Write
  <1>5. ~Write => UNCHANGED wire
    BY DEF Take, Complete
  <1>. QED BY <1>1, <1>2, <1>3, <1>4, <1>5

\* Where the worker goes, and with which result in its hands.
Goes ==
    /\ outGeneration # 0 => workerState' = 1 /\ pc' \notin {"lastFinish", "lastComplete", "retire"}
    /\ pc' = "take" => workerJob = NoJob
    /\ pc' \in Carrying => workerResult' = "Busy"
    /\ workerResult' = "Sent" => workerResult = "Sent"
    /\ workerJob # NoJob /\ Over(workerResult) => UNCHANGED workerResult
LEMMA WorkerGoes ==
    ASSUME IInv, Generations, Placed, WorkerStep,
           ~(Take /\ TryTake), ~(Complete /\ TryComplete(workerJob, workerResult)),
           ~(Write /\ wire' = Written(workerJob))
    PROVE  Goes /\ Elsewhere /\ UNCHANGED <<active, completion, workerJob, wire>>
  <1>. Wake \/ RunOnce
    BY DEF WorkerStep
  <1>0. outGeneration # 0 => workerState = 1 /\ Current /\ pc \notin {"lastFinish", "lastComplete", "retire"}
    BY DEF Generations, Current, IsCurrent, IsCurrentIn
  <1>. USE <1>0 DEF Goes, Placed, Over, Return, Carrying
  <1>16. Goes
    <2>1. CASE Wake
      BY <2>1 DEF Wake
    <2>2. CASE Start
      BY <2>2 DEF Start
    <2>3. CASE Take
      BY <2>3 DEF Take
    <2>4. CASE Check
      BY <2>4 DEF Check
    <2>5. CASE Lease
      BY <2>5 DEF Lease
    <2>6. CASE Format
      BY <2>6 DEF Format
    <2>7. CASE Write
      BY <2>7 DEF Write
    <2>8. CASE Finish
      BY <2>8 DEF Finish
    <2>9. CASE Complete
      BY <2>9 DEF Complete
    <2>10. CASE RetireWorker
      BY <2>10 DEF RetireWorker
    <2>11. CASE IdleBefore
      BY <2>11 DEF IdleBefore
    <2>12. CASE Pop
      BY <2>12 DEF Pop
    <2>13. CASE IdleAfter
      BY <2>13 DEF IdleAfter
    <2>14. CASE AudioLease
      BY <2>14 DEF AudioLease
    <2>15. CASE AudioSend
      BY <2>15 DEF AudioSend
    <2>. QED BY <2>1, <2>2, <2>3, <2>4, <2>5, <2>6, <2>7, <2>8, <2>9, <2>10, <2>11, <2>12, <2>13, <2>14, <2>15 DEF RunOnce
  <1>17. Elsewhere
    BY WorkerElsewhere DEF Elsewhere, Take
  <1>18. UNCHANGED <<active, completion, workerJob, wire>>
    BY WorkerElsewhere DEF Take, Complete, Write
  <1>. QED BY <1>16, <1>17, <1>18

\* Such a step keeps the invariant.
LEMMA GoesStep ==
    ASSUME DInv, IInv', Goes, Elsewhere, UNCHANGED <<active, completion, workerJob, wire>>
    PROVE  DInv'
  <1>. Generations /\ Line /\ Placed /\ TextStore /\ ControlStore /\ Apart /\ Claims /\ Log
    BY DEF DInv
  <1>. USE DEF Elsewhere
  <1>1. Generations'
    BY DEF Generations, Goes, Past, IsCurrent
  <1>2. Line'
    BY DEF Line, Issued, IsCurrent
  <1>3. Placed'
    BY DEF Placed, Goes
  <1>4. TextStore' /\ ControlStore' /\ Apart'
    BY DEF TextStore, ControlStore, Apart, Popped, Issued, Past, IsCurrent
  <1>5. Claims'
    BY DEF Claims, Held, Claimed, Carries, IsCurrent
  <1>6. Log'
    <2>1. TextLog' = TextLog
      BY DEF TextLog
    <2>2. /\ \A ref : Logged(ref)' <=> Logged(ref)
          /\ SentLogged(workerJob, workerResult)' /\ SentLogged(completion.job, completion.result)'
          /\ SentLogged(collected.job, collected.result)'
      BY <2>1 DEF Log, Logged, SentLogged, Goes
    <2>3. \A id : 0 # id /\ Reported(id) => Reported(id)'
      BY DEF Reported, NoJob, Goes
    <2>4. Len(texts) > 0 /\ texts[1].admitted => texts[1].id # 0
      BY TextFacts DEF TextStore, Issued, DInv
    <2>5. UNCHANGED texts /\ Popped' = Popped
      BY DEF Popped
    <2>. HIDE DEF Popped, Elsewhere
    <2>. QED BY <2>1, <2>2, <2>3, <2>4, <2>5 DEF Log
  <1>. QED BY <1>1, <1>2, <1>3, <1>4, <1>5, <1>6 DEF DInv


\* The worker takes the front of the line; it stays held.
LEMMA TakeStep ==
    ASSUME DInv, IInv', WorkerStep, Take, TryTake
    PROVE  DInv'
  <1>. IInv /\ Generations /\ Line /\ Placed /\ TextStore /\ ControlStore /\ Apart /\ Claims /\ Log
    BY DEF DInv
  <1>1. /\ active = NoJob /\ completion = NoCompletion /\ CompactQueue # <<>>
        /\ active' = Head(CompactQueue) /\ queue' = Tail(CompactQueue)
        /\ workerJob = NoJob
    BY DEF TryTake, CanTake, Placed
  <1>2. \E k \in DOMAIN queue :
          /\ active' = queue[k] /\ IsCurrent(queue[k].gen)
          /\ \/ queue' = <<>> /\ \A i \in DOMAIN queue : i # k => ~IsCurrent(queue[i].gen)
             \/ /\ queue' = <<queue[2]>> /\ k = 1 /\ DOMAIN queue = {1, 2}
                /\ IsCurrent(queue[2].gen)
    <2>1. queue \in Seq(Jobs) /\ Len(queue) <= 2
      BY MailFacts DEF Line
    <2>2. CASE \E k \in DOMAIN queue :
                 /\ CompactQueue = <<queue[k]>> /\ IsCurrent(queue[k].gen)
                 /\ \A i \in DOMAIN queue : i # k => ~IsCurrent(queue[i].gen)
      <3>1. PICK k \in DOMAIN queue :
                 /\ CompactQueue = <<queue[k]>> /\ IsCurrent(queue[k].gen)
                 /\ \A i \in DOMAIN queue : i # k => ~IsCurrent(queue[i].gen)
        BY <2>2
      <3>2. active' = queue[k] /\ queue' = <<>>
        BY <1>1, <3>1
      <3>. QED BY <3>1, <3>2
    <2>3. CASE /\ DOMAIN queue = {1, 2} /\ CompactQueue = <<queue[1], queue[2]>>
               /\ IsCurrent(queue[1].gen) /\ IsCurrent(queue[2].gen)
      <3>1. active' = queue[1] /\ queue' = <<queue[2]>>
        BY <1>1, <2>3
      <3>. QED BY <2>3, <3>1
    <2>. QED BY <1>1, <2>1, <2>2, <2>3, Compacted
  <1>3. PICK k \in DOMAIN queue :
          /\ active' = queue[k] /\ IsCurrent(queue[k].gen)
          /\ \/ queue' = <<>> /\ \A i \in DOMAIN queue : i # k => ~IsCurrent(queue[i].gen)
             \/ /\ queue' = <<queue[2]>> /\ k = 1 /\ DOMAIN queue = {1, 2}
                /\ IsCurrent(queue[2].gen)
    BY <1>2
  <1>0. /\ UNCHANGED <<generation, outGeneration, outFault, reservation, activation, collected,
                       lastAdmitted, texts, textCount, told, controls, controlCount, apc,
                       completion, workerState, wire>>
        /\ workerJob' = active' /\ workerResult' = "Busy" /\ pc = "take" /\ pc' = "check"
    <2>1. active' # active
      BY <1>1, <1>3, MailFacts
    <2>. QED BY <2>1, WorkerElsewhere DEF Take, historyVars
  <1>4. \/ queue' = <<>> /\ DOMAIN queue' = {} /\ Len(queue') = 0
        \/ /\ DOMAIN queue' = {1} /\ Len(queue') = 1 /\ queue'[1] = queue[2]
           /\ 1 \in DOMAIN queue /\ 2 \in DOMAIN queue /\ active' = queue[1]
    BY <1>3
  <1>5. /\ active' \in Jobs /\ active' # NoJob /\ Issued(active'.id)
        /\ active'.id > collected.job.id /\ completion.job.id < active'.id
        /\ Past(active'.gen)
    BY <1>3, MailFacts DEF Line, Generations
  <1>6. \A i \in DOMAIN queue' : \E n \in DOMAIN queue : queue'[i] = queue[n] /\ active'.id < queue[n].id
    BY <1>4 DEF Line
  <1>7. Generations'
    <2>1. \A i \in DOMAIN queue' : Past(queue'[i].gen)
      BY <1>6 DEF Generations
    <2>. QED BY <1>0, <1>5, <2>1 DEF Generations, Past, IsCurrent
  <1>8. Line'
    <2>1. \A i, n \in DOMAIN queue' : ~(i < n)
      BY <1>4
    <2>3. Len(queue') <= 2
      <3>1. \A n : n = 0 \/ n = 1 => n <= 2
        OBVIOUS
      <3>. QED BY <1>4, <3>1, Zenon
    <2>2. \A i \in DOMAIN queue' :
            /\ Issued(queue'[i].id) /\ active'.id < queue'[i].id
            /\ completion.job.id < queue'[i].id /\ collected.job.id < queue'[i].id
      BY <1>6 DEF Line
    <2>. QED BY <1>0, <1>1, <1>5, <2>1, <2>2, <2>3 DEF Line, Issued, IsCurrent
  <1>9. Placed'
    BY <1>0 DEF Placed
  <1>10. TextStore' /\ ControlStore' /\ Apart'
    BY <1>0 DEF TextStore, ControlStore, Apart, Popped, Issued, Past, IsCurrent
  <1>11. Held' = Held
    <2>1. NoJob.id = 0 /\ completion.job = NoJob
      BY <1>1 DEF NoCompletion, NoJob
    <2>2. \A x : (\E i \in DOMAIN queue : IsCurrent(queue[i].gen) /\ x = queue[i]) <=>
                 x = active' \/ \E i \in DOMAIN queue' : IsCurrent(queue'[i].gen) /\ x = queue'[i]
      BY <1>3, <1>4
    <2>3. \A x : x \in Held' <=>
            /\ x # NoJob
            /\ \/ x = active' \/ x = completion.job \/ x = collected.job
               \/ \E i \in DOMAIN queue' : IsCurrent(queue'[i].gen) /\ x = queue'[i]
      BY <1>0 DEF Held, IsCurrent
    <2>4. \A x : x \in Held' <=> x \in Held
      BY <1>1, <2>1, <2>2, <2>3, HeldIn
    <2>. QED BY <2>4
  <1>12. Claims'
    BY <1>0, <1>11 DEF Claims, Claimed, Carries
  <1>13. Log'
    <2>1. TextLog' = TextLog
      BY <1>0 DEF TextLog
    <2>2. /\ \A ref : Logged(ref)' <=> Logged(ref)
          /\ SentLogged(workerJob, workerResult)' /\ SentLogged(completion.job, completion.result)'
          /\ SentLogged(collected.job, collected.result)'
      BY <1>0, <2>1 DEF Log, Logged, SentLogged
    <2>3. \A id : 0 # id /\ Reported(id) => Reported(id)'
      BY <1>0, <1>1 DEF Reported, NoJob
    <2>4. Len(texts) > 0 /\ texts[1].admitted => texts[1].id # 0
      BY TextFacts DEF TextStore, Issued
    <2>5. UNCHANGED texts /\ Popped' = Popped
      BY <1>0 DEF Popped
    <2>. HIDE DEF Popped
    <2>. QED BY <2>1, <2>2, <2>3, <2>4, <2>5 DEF Log
  <1>. QED BY <1>7, <1>8, <1>9, <1>10, <1>12, <1>13 DEF DInv

\* What it has done becomes the completion, which is held in its place.
LEMMA CompleteStep ==
    ASSUME DInv, IInv', WorkerStep, Complete, TryComplete(workerJob, workerResult)
    PROVE  DInv'
  <1>. IInv /\ Generations /\ Line /\ Placed /\ TextStore /\ ControlStore /\ Apart /\ Claims /\ Log
    BY DEF DInv
  <1>0. /\ UNCHANGED <<generation, outGeneration, outFault, reservation, activation, collected,
                       lastAdmitted, texts, textCount, told, controls, controlCount, apc,
                       queue, workerState, workerResult, wire>>
        /\ pc = "lastComplete" \/ pc' = "sleep"
        /\ pc' \in {"sleep", "retire"}
    BY WorkerElsewhere DEF Complete, Return, historyVars
  <1>1. /\ workerJob = active /\ active # NoJob /\ completion = NoCompletion
        /\ completion'.job = active /\ completion'.result = workerResult
        /\ completion' # NoCompletion /\ active' = NoJob
    BY DEF TryComplete, CanComplete, Placed, NoCompletion
  <1>2. workerJob' = NoJob
    <2>1. active' # active
      BY <1>1
    <2>. QED BY <2>1 DEF Complete
  <1>3. NoJob.id = 0 /\ NoJob.gen = 0 /\ completion.job = NoJob /\ completion.result = "Failed"
    BY <1>1 DEF NoCompletion, NoJob
  <1>4. Generations'
    <2>1. Past(0) /\ Past(active.gen)
      BY <1>3 DEF Generations
    <2>2. pc = "lastComplete" => outGeneration = 0
      BY DEF Generations
    <2>. QED BY <1>0, <1>1, <1>3, <2>1, <2>2 DEF Generations, Past, IsCurrent
  <1>5. Line'
    <2>1. \A i \in DOMAIN queue : queue[i].id \in Nat /\ 0 < queue[i].id
      BY MailFacts DEF Line, Issued
    <2>. QED BY <1>0, <1>1, <1>3, <2>1 DEF Line, Issued, IsCurrent
  <1>6. Placed'
    BY <1>0, <1>1, <1>2 DEF Placed, Carrying
  <1>7. TextStore' /\ ControlStore' /\ Apart'
    BY <1>0 DEF TextStore, ControlStore, Apart, Popped, Issued, Past, IsCurrent
  <1>8. Held' = Held
    BY <1>0, <1>1, <1>3 DEF Held, IsCurrent
  <1>9. Claims'
    BY <1>0, <1>8 DEF Claims, Claimed, Carries
  <1>10. Log'
    <2>1. TextLog' = TextLog
      BY <1>0 DEF TextLog
    <2>2. /\ \A ref : Logged(ref)' <=> Logged(ref)
          /\ SentLogged(workerJob, workerResult)' /\ SentLogged(completion.job, completion.result)'
          /\ SentLogged(collected.job, collected.result)'
      BY <1>0, <1>1, <1>2, <2>1 DEF Log, Logged, SentLogged, NoJob
    <2>3. \A id : 0 # id /\ Reported(id) => Reported(id)'
      BY <1>0, <1>1, <1>3 DEF Reported
    <2>4. Len(texts) > 0 /\ texts[1].admitted => texts[1].id # 0
      BY TextFacts DEF TextStore, Issued
    <2>5. UNCHANGED texts /\ Popped' = Popped
      BY <1>0 DEF Popped
    <2>. HIDE DEF Popped
    <2>. QED BY <2>1, <2>2, <2>3, <2>4, <2>5 DEF Log
  <1>. QED BY <1>4, <1>5, <1>6, <1>7, <1>9, <1>10 DEF DInv


\* The order in which the texts went out.
LEMMA LogType ==
    ASSUME IInv
    PROVE  TextLog \in Seq(Refs) /\ Len(TextLog) \in Nat /\ DOMAIN TextLog = 1 .. Len(TextLog)
  <1>1. wire \in Seq(Writes)
    BY DEF IInv, TypeOK, WorkerTypes
  <1>2. PICK log : log = Only(wire, TextWrites)
    OBVIOUS
  <1>3. log \in Seq(Writes \cap TextWrites)
    BY <1>1, <1>2, OnlyType
  <1>4. TextLog = [i \in DOMAIN log |-> log[i].ref]
    BY <1>2 DEF TextLog
  <1>5. \A i \in 1 .. Len(log) : log[i].ref \in Refs
    BY <1>3 DEF Writes
  <1>6. TextLog \in Seq(Refs)
    BY <1>3, <1>4, <1>5
  <1>. QED BY <1>6

\* A write adds its text to the log, and a control adds nothing.
LEMMA LogWritten ==
    ASSUME IInv, workerJob # NoJob, wire' = Written(workerJob)
    PROVE  /\ workerJob.kind = "text" => TextLog' = Append(TextLog, workerJob.ref)
           /\ workerJob.kind # "text" => TextLog' = TextLog
  <1>1. wire \in Seq(Writes)
    BY DEF IInv, TypeOK, WorkerTypes
  <1>2. PICK e : e = [ref |-> workerJob.ref, kind |-> workerJob.kind, owner |-> workerJob.source,
                      socket |-> socketEpoch]
    OBVIOUS
  <1>3. e \in Writes /\ e.ref = workerJob.ref /\ e.kind = workerJob.kind
    <2>1. workerJob \in Jobs /\ socketEpoch \in Nat
      BY DEF IInv, TypeOK, WorkerTypes, ConnectionTypes
    <2>. QED BY <1>2, <2>1 DEF Writes, Jobs
  <1>4. wire' = Append(wire, e)
    BY <1>2 DEF Written
  <1>5. PICK log : log = Only(wire, TextWrites)
    OBVIOUS
  <1>6. PICK next : next = Only(wire', TextWrites)
    OBVIOUS
  <1>7. log \in Seq(Writes)
    <2>1. log \in Seq(Writes \cap TextWrites)
      BY <1>1, <1>5, OnlyType
    <2>. QED BY <2>1
  <1>8. TextLog = [i \in DOMAIN log |-> log[i].ref]
    BY <1>5 DEF TextLog
  <1>9. TextLog' = [i \in DOMAIN next |-> next[i].ref]
    BY <1>6 DEF TextLog
  <1>10. next = IF e \in TextWrites THEN Append(log, e) ELSE log
    <2>1. Only(Append(wire, e), TextWrites) =
            IF e \in TextWrites THEN Append(Only(wire, TextWrites), e) ELSE Only(wire, TextWrites)
      BY <1>1, <1>3, OnlyAppended
    <2>. QED BY <1>4, <1>5, <1>6, <2>1
  <1>11. e \in TextWrites <=> workerJob.kind = "text"
    BY <1>3 DEF TextWrites
  <1>12. CASE workerJob.kind = "text"
    <2>1. next = Append(log, e)
      BY <1>10, <1>11, <1>12
    <2>2. [i \in DOMAIN next |-> next[i].ref] = Append([i \in DOMAIN log |-> log[i].ref], e.ref)
      <3>1. PICK a : a = [i \in DOMAIN log |-> log[i].ref]
        OBVIOUS
      <3>2. /\ DOMAIN a = 1 .. Len(log) /\ Len(log) \in Nat
            /\ \A i \in 1 .. Len(log) : a[i] = log[i].ref /\ log[i].ref \in Refs
        <4>1. \A i \in 1 .. Len(log) : log[i] \in Writes
          BY <1>7
        <4>2. \A w \in Writes : w.ref \in Refs
          BY DEF Writes
        <4>3. DOMAIN log = 1 .. Len(log) /\ Len(log) \in Nat
          BY <1>7
        <4>. QED BY <3>1, <4>1, <4>2, <4>3
      <3>3. a \in Seq(Refs) /\ Len(a) = Len(log)
        BY <1>7, <3>1, <3>2
      <3>4. PICK b : b = Append(a, e.ref)
        OBVIOUS
      <3>5. e.ref \in Refs
        BY <1>3 DEF Writes
      <3>6. /\ b \in Seq(Refs) /\ DOMAIN b = 1 .. Len(log) + 1 /\ b[Len(log) + 1] = e.ref
            /\ \A i \in 1 .. Len(log) : b[i] = a[i]
        BY <3>2, <3>3, <3>4, <3>5
      <3>7. /\ DOMAIN next = 1 .. Len(log) + 1 /\ next[Len(log) + 1] = e
            /\ \A i \in 1 .. Len(log) : next[i] = log[i]
        BY <1>3, <1>7, <2>1
      <3>8. \A i \in 1 .. Len(log) + 1 : b[i] = next[i].ref
        BY <3>2, <3>6, <3>7
      <3>9. b = [i \in DOMAIN b |-> b[i]]
        BY <3>6
      <3>10. b = [i \in DOMAIN next |-> next[i].ref]
        BY <3>6, <3>7, <3>8, <3>9
      <3>. QED BY <3>1, <3>4, <3>10
    <2>. QED BY <1>3, <1>8, <1>9, <1>12, <2>2
  <1>13. CASE workerJob.kind # "text"
    BY <1>8, <1>9, <1>10, <1>11, <1>13
  <1>. QED BY <1>12, <1>13

\* Up to its write an attempt is not reported, so its text is not on the wire.
LEMMA WriteFacts ==
    ASSUME IInv, Line, Placed, TextStore, Claims, Log, pc = "write"
    PROVE  /\ workerJob # NoJob /\ workerJob.kind \in {"text", "control"} /\ Claimed(workerJob)
           /\ ~Reported(workerJob.id)
           /\ workerJob.kind = "text" =>
                /\ Len(texts) > 0 /\ texts[1].admitted /\ texts[1].id = workerJob.id
                /\ workerJob.ref = Popped + 1 /\ ~Logged(Popped + 1)
  <1>1. workerJob # NoJob /\ workerJob = active /\ workerResult = "Busy"
    BY DEF Placed, IInv, Carried, Carrying
  <1>2. workerJob \in Jobs /\ workerJob.kind \in {"text", "control"}
    BY <1>1, MailFacts DEF Jobs
  <1>3. Claimed(workerJob)
    BY <1>1 DEF Held, Claims
  <1>4. ~Reported(workerJob.id)
    <2>1. completion = NoCompletion /\ completion.job.id = 0
      BY <1>1 DEF Line, NoCompletion, NoJob
    <2>2. 0 < workerJob.id /\ collected.job.id < workerJob.id
      BY <1>1 DEF Line, Issued
    <2>. QED BY <1>1, <2>1, <2>2, MailFacts DEF Reported, Over
  <1>5. ASSUME workerJob.kind = "text"
        PROVE  /\ Len(texts) > 0 /\ texts[1].admitted /\ texts[1].id = workerJob.id
               /\ workerJob.ref = Popped + 1 /\ ~Logged(Popped + 1)
    <2>1. Len(texts) > 0 /\ Carries(texts[1], workerJob)
      BY <1>3, <1>5 DEF Claimed
    <2>2. texts[1].ref = Popped + 1
      BY <2>1, TextFacts DEF TextStore
    <2>3. texts[1].admitted /\ texts[1].id = workerJob.id /\ texts[1].ref = workerJob.ref
      BY <2>1 DEF Carries
    <2>4. ~Reported(texts[1].id)
      BY <1>4, <2>3
    <2>5. ~Logged(Popped + 1)
      BY <2>1, <2>3, <2>4 DEF Log
    <2>. QED BY <2>1, <2>2, <2>3, <2>5
  <1>. QED BY <1>1, <1>2, <1>3, <1>4, <1>5

\* The write puts the front text on the wire, for the first time.
LEMMA WriteStep ==
    ASSUME DInv, IInv', WorkerStep, Write, wire' = Written(workerJob)
    PROVE  DInv'
  <1>. IInv /\ Generations /\ Line /\ Placed /\ TextStore /\ ControlStore /\ Apart /\ Claims /\ Log
    BY DEF DInv
  <1>0. /\ pc = "write" /\ pc' = "finish" /\ workerResult' \in {"Sent", "Failed"}
        /\ UNCHANGED <<generation, outGeneration, outFault, reservation, activation, collected,
                       lastAdmitted, texts, textCount, told, controls, controlCount, apc, queue,
                       active, completion, workerJob, workerState>>
    BY WorkerElsewhere DEF Write, Take, Complete
  <1>1. /\ workerJob # NoJob /\ workerJob.kind \in {"text", "control"} /\ Claimed(workerJob)
        /\ ~Reported(workerJob.id)
        /\ workerJob.kind = "text" =>
             /\ Len(texts) > 0 /\ texts[1].admitted /\ texts[1].id = workerJob.id
             /\ workerJob.ref = Popped + 1 /\ ~Logged(Popped + 1)
    BY <1>0, WriteFacts
  <1>2. Generations'
    BY <1>0 DEF Generations, Past, IsCurrent
  <1>3. Line'
    BY <1>0 DEF Line, Issued, IsCurrent
  <1>4. Placed'
    BY <1>0 DEF Placed, Carrying
  <1>5. TextStore' /\ ControlStore' /\ Apart'
    BY <1>0 DEF TextStore, ControlStore, Apart, Popped, Issued, Past, IsCurrent
  <1>6. Claims'
    BY <1>0 DEF Claims, Held, Claimed, Carries, IsCurrent
  <1>7. \/ /\ workerJob.kind = "text" /\ DOMAIN TextLog \subseteq DOMAIN TextLog'
           /\ \E n \in DOMAIN TextLog' :
                /\ TextLog'[n] = Popped + 1
                /\ \A i \in DOMAIN TextLog' : i = n \/ i \in DOMAIN TextLog
           /\ \A i \in DOMAIN TextLog : TextLog'[i] = TextLog[i]
        \/ workerJob.kind = "control" /\ TextLog' = TextLog
    <2>1. CASE workerJob.kind = "text"
      <3>1. PICK a \in Seq(Refs) : a = TextLog
        BY LogType
      <3>2. workerJob.ref \in Refs
        BY <1>1, MailFacts DEF Jobs
      <3>3. PICK b : b = TextLog'
        OBVIOUS
      <3>4. b = Append(a, workerJob.ref)
        BY <1>1, <2>1, <3>1, <3>3, LogWritten
      <3>5. PICK n \in Nat : n = Len(a) + 1
        BY <3>1
      <3>6. /\ DOMAIN a \subseteq DOMAIN b /\ n \in DOMAIN b /\ b[n] = workerJob.ref
            /\ \A i \in DOMAIN b : i = n \/ i \in DOMAIN a
            /\ \A i \in DOMAIN a : b[i] = a[i]
        BY <3>1, <3>2, <3>4, <3>5
      <3>. HIDE DEF Popped, TextLog
      <3>. QED BY <1>1, <2>1, <3>1, <3>3, <3>6, Zenon
    <2>2. CASE workerJob.kind # "text"
      BY <1>1, <2>2, LogWritten
    <2>. QED BY <2>1, <2>2
  <1>8. Popped' = Popped
    BY <1>0 DEF Popped
  <1>9. Log'
    <2>. HIDE DEF Popped
    <2>1. \A ref : Logged(ref)' <=> Logged(ref) \/ (workerJob.kind = "text" /\ ref = Popped + 1)
      BY <1>7 DEF Logged
    <2>2. SentLogged(workerJob, workerResult)'
      <3>1. workerJob.kind = "text" => Logged(workerJob.ref)'
        BY <1>0, <1>1, <2>1 DEF Logged
      <3>. QED BY <1>0, <3>1 DEF SentLogged, Logged
    <2>3. SentLogged(completion.job, completion.result)' /\ SentLogged(collected.job, collected.result)'
      BY <1>0, <2>1 DEF Log, SentLogged, Logged
    <2>4. \A i \in DOMAIN TextLog' :
            TextLog'[i] \in 1 .. (IF Len(texts) > 0 THEN Popped + 1 ELSE Popped)
      <3>1. Popped \in Nat
        BY TextFacts, NumberFacts DEF TextStore, Popped
      <3>2. workerJob.kind = "text" => Popped + 1 \in 1 .. (IF Len(texts) > 0 THEN Popped + 1 ELSE Popped)
        BY <1>1, <3>1
      <3>. QED BY <1>7, <3>2, Zenon DEF Log
    <2>5. Reported(workerJob.id)'
      BY <1>0 DEF Reported, Over
    <2>6. \A id : Reported(id) => Reported(id)'
      BY <1>0, <1>1 DEF Reported, Over
    <2>7. ASSUME Len(texts) > 0, workerJob.kind = "text" \/ Logged(Popped + 1)
          PROVE  IF texts[1].admitted THEN Reported(texts[1].id)' ELSE texts[1].outcome # "Pending"
      <3>1. CASE workerJob.kind = "text"
        BY <1>0, <1>1, <2>5, <3>1 DEF Reported
      <3>2. CASE Logged(Popped + 1)
        <4>1. IF texts[1].admitted THEN Reported(texts[1].id) ELSE texts[1].outcome # "Pending"
          BY <2>7, <3>2 DEF Log
        <4>. QED BY <1>0, <2>6, <4>1 DEF Reported
      <3>. QED BY <2>7, <3>1, <3>2
    <2>8. (Len(texts) > 0 /\ Logged(Popped + 1))' =>
             (IF texts[1].admitted THEN Reported(texts[1].id) ELSE texts[1].outcome # "Pending")'
      <3>1. Logged(Popped + 1)' => workerJob.kind = "text" \/ Logged(Popped + 1)
        BY <1>8, <2>1 DEF Logged
      <3>. QED BY <1>0, <2>7, <3>1 DEF Reported
    <2>. QED BY <1>0, <1>8, <2>1, <2>2, <2>3, <2>4, <2>8 DEF Log
  <1>. QED BY <1>2, <1>3, <1>4, <1>5, <1>6, <1>9 DEF DInv



-----------------------------------------------------------------------------
(* Every step *)

\* A handler of the application is quiet, or leaves what was told and written.
LEMMA ApplicationKinds ==
    ASSUME DInv, IInv', ApplicationStep
    PROVE  Quiet \/ (DInv' /\ UNCHANGED <<textCount, told, wire>>)
  <1>. IInv /\ Generations /\ TextStore /\ ControlStore
    BY DEF DInv
  <1>0. UNCHANGED wire
    BY ApplicationFrame DEF Frame, historyVars
  <1>. USE DEF Poll, Handler
  <1>1. CASE \/ PollChatSourceOpen \/ PollChatProtocolSignals \/ PollChatPlayoutTail
             \/ PollChatProtocolCleanup \/ BeginChatListen \/ EndTurn
             \/ CloseAudioChannelByIntent \/ OpenChannel \/ OpenReturned
    BY <1>1, IdleActions
  <1>2. CASE \/ PollChatStart \/ PollChatConnectionMessages \/ RequestText \/ RequestControl
    BY <1>2, StartQuiet, MessagesQuiet, RequestTextQuiet, RequestControlQuiet
  <1>3. CASE PollChatOutbound
    <2>1. UNCHANGED <<textCount, told>>
      BY <1>3 DEF PollChatOutbound, intentVars
    <2>. QED BY <1>0, <1>3, <2>1, OutboundQuiet, CollectStep
  <1>4. CASE Deliver
    <2>1. UNCHANGED <<textCount, told>>
      BY <1>4 DEF Deliver
    <2>. QED BY <1>0, <1>4, <2>1, DeliverStep
  <1>5. CASE TakeRetired
    <2>1. UNCHANGED <<textCount, told>>
      BY <1>5 DEF TakeRetired
    <2>. QED BY <1>0, <1>5, <2>1, RetiredStep
  <1>6. CASE PollChatControls
    <2>1. UNCHANGED <<textCount, told>>
      BY <1>6 DEF PollChatControls
    <2>. QED BY <1>0, <1>6, <2>1, ControlsStepQuiet, ControlAdmitted
  <1>7. CASE SubmitText
    <2>1. UNCHANGED <<textCount, told>>
      BY <1>7 DEF SubmitText
    <2>. QED BY <1>0, <1>7, <2>1, SubmitTextQuiet, TextAdmitted
  <1>. QED BY <1>1, <1>2, <1>3, <1>4, <1>5, <1>6, <1>7 DEF ApplicationStep

\* The worker only ever writes, and only from the place that writes.
LEMMA WorkerKinds ==
    ASSUME DInv, IInv', WorkerStep
    PROVE  /\ DInv' /\ UNCHANGED <<textCount, told>>
           /\ UNCHANGED wire \/ (pc = "write" /\ wire' = Written(workerJob))
  <1>. IInv /\ Generations /\ Placed
    BY DEF DInv
  <1>1. UNCHANGED <<textCount, told>>
    BY WorkerElsewhere
  <1>2. UNCHANGED wire \/ (pc = "write" /\ wire' = Written(workerJob))
    BY WorkerElsewhere DEF Write
  <1>3. DInv'
    BY TakeStep, CompleteStep, WriteStep, WorkerGoes, GoesStep
  <1>. QED BY <1>1, <1>2, <1>3

\* The network, the transport and the clock touch nothing of this.
OutsideVars == <<generation, queue, active, completion, pc, workerState, activation, workerJob,
                 workerResult, wire, apc, outGeneration, outFault, reservation, lastAdmitted,
                 collected, texts, controls, textCount, controlCount, told>>
LEMMA OutsideStep ==
    ASSUME Network \/ TransportStep \/ Capture \/ Expire \/ UNCHANGED vars
    PROVE  UNCHANGED OutsideVars
  <1>. USE DEF OutsideVars, NetFrame, mailboxVars, workerVars, historyVars, appVars, intentVars, vars
  <1>1. CASE Network
    BY <1>1 DEF Network, OpenBegins, OpenPublishes, OpenFails, RunChatProtocolCleanup
  <1>2. CASE TransportStep
    BY <1>2 DEF TransportStep
  <1>3. CASE Capture
    BY <1>3 DEF Capture
  <1>4. CASE Expire
    BY <1>4 DEF Expire
  <1>5. CASE UNCHANGED vars
    BY <1>5
  <1>. QED BY <1>1, <1>2, <1>3, <1>4, <1>5
LEMMA OutsideKeeps ==
    ASSUME DInv, IInv', UNCHANGED OutsideVars
    PROVE  DInv'
  <1>. Generations /\ Line /\ Placed /\ TextStore /\ ControlStore /\ Apart /\ Claims /\ Log
    BY DEF DInv
  <1>. USE DEF OutsideVars
  <1>1. Generations' /\ Line' /\ Placed'
    BY DEF Generations, Line, Placed, Past, Issued, IsCurrent
  <1>2. TextStore' /\ ControlStore' /\ Apart'
    BY DEF TextStore, ControlStore, Apart, Popped, Issued, Past, IsCurrent
  <1>3. Claims'
    BY DEF Claims, Held, Claimed, Carries, IsCurrent
  <1>4. Log'
    BY DEF Log, Logged, Reported, SentLogged, Popped, TextLog
  <1>. QED BY <1>1, <1>2, <1>3, <1>4 DEF DInv

LEMMA DeliveryStep == DInv /\ [Next]_vars => DInv'
  <1>. SUFFICES ASSUME DInv, [Next]_vars PROVE DInv'
    OBVIOUS
  <1>1. IInv'
    BY InvariantStep DEF DInv
  <1>2. CASE ApplicationStep
    BY <1>1, <1>2, ApplicationKinds, QuietStep
  <1>3. CASE WorkerStep
    BY <1>1, <1>3, WorkerKinds
  <1>4. CASE Network \/ TransportStep \/ Capture \/ Expire \/ UNCHANGED vars
    BY <1>1, <1>4, OutsideStep, OutsideKeeps
  <1>. QED BY <1>2, <1>3, <1>4 DEF Next

\* Nothing is on the wire at first.
LEMMA EmptyLog ==
    ASSUME wire = <<>>
    PROVE  TextLog = <<>>
  <1>1. Only(<<>>, TextWrites) = <<>>
    <2>1. <<>> \in Seq(Writes)
      OBVIOUS
    <2>2. PICK q \in Seq(Writes) : q = <<>>
      BY <2>1, Zenon
    <2>3. PICK f : f[0] = <<>> /\ Only(q, TextWrites) = f[Len(q)]
      BY <2>2, OnlySteps
    <2>4. Len(q) = 0
      BY <2>2
    <2>. QED BY <2>2, <2>3, <2>4
  <1>2. TextLog = [i \in DOMAIN <<>> |-> <<>>[i].ref]
    BY <1>1 DEF TextLog
  <1>3. [i \in DOMAIN <<>> |-> <<>>[i].ref] = <<>>
    OBVIOUS
  <1>. QED BY <1>2, <1>3

LEMMA InitDInv == Init => DInv
  <1>. SUFFICES ASSUME Init PROVE DInv
    OBVIOUS
  <1>. USE DEF Init, MailboxInit, WorkerInit
  <1>1. IInv
    BY InitIInv
  <1>2. /\ NoJob.id = 0 /\ NoJob.gen = 0 /\ NoCompletion.job = NoJob /\ ~NoCompletion.stale
        /\ NoCompletion.result = "Failed" /\ NoJob.kind = "none"
    BY DEF NoJob, NoCompletion
  <1>3. /\ Len(queue) = 0 /\ DOMAIN queue = {} /\ Len(texts) = 0 /\ DOMAIN texts = {}
        /\ Len(controls) = 0 /\ DOMAIN controls = {}
    OBVIOUS
  <1>4. Generations
    BY <1>2, <1>3 DEF Generations, Past, IsCurrent, IsCurrentIn
  <1>5. Line /\ Placed
    BY <1>2, <1>3 DEF Line, Placed, Carrying
  <1>6. TextStore
    BY <1>3 DEF TextStore, Popped, Texts
  <1>7. ControlStore /\ Apart /\ Claims
    BY <1>2, <1>3 DEF ControlStore, Apart, Claims, Held
  <1>8. Log
    <2>1. DOMAIN TextLog = {}
      BY EmptyLog
    <2>. QED BY <1>2, <1>3, <2>1 DEF Log, Logged, SentLogged
  <1>. QED BY <1>1, <1>4, <1>5, <1>6, <1>7, <1>8 DEF DInv



-----------------------------------------------------------------------------
(* What is proved of the intents *)

\* The mailbox, the worker and the stores of intents agree about every attempt
\* at all times.
THEOREM DeliveryInvariant == Spec => []DInv
  BY InitDInv, DeliveryStep, PTL DEF Spec

\* No text that was submitted is lost between the store, the mailbox, the worker
\* and the application: it is in the mailbox or being delivered, or the
\* reservation it was submitted for is being retired.
THEOREM TextsAccounted == Spec => []SubmittedAccounted
  <1>1. DInv => SubmittedAccounted
    <2>. SUFFICES ASSUME DInv, NEW i \in DOMAIN texts, texts[i].admitted
                  PROVE  \/ texts[i].id \in PendingIds \cup {collected.job.id}
                         \/ texts[i].reservation = reservation /\ outGeneration = 0
      BY DEF SubmittedAccounted
    <2>. IInv /\ Line /\ TextStore /\ Claims
      BY DEF DInv
    <2>1. i = 1 /\ texts[1].reservation = reservation /\ Len(texts) > 0 /\ 0 < texts[1].id
      BY TextFacts DEF TextStore, Issued
    <2>2. CASE outGeneration = 0
      BY <2>1, <2>2
    <2>3. CASE outGeneration # 0
      <3>1. PICK j \in Held : j.id = texts[1].id
        BY <2>1, <2>3 DEF Claims
      <3>2. CASE j = active \/ j = completion.job \/ j = collected.job
        BY <2>1, <3>1, <3>2, TextFacts DEF PendingIds
      <3>3. CASE \E k \in DOMAIN queue : IsCurrent(queue[k].gen) /\ j = queue[k]
        <4>1. PICK k \in DOMAIN queue : IsCurrent(queue[k].gen) /\ j = queue[k]
          BY <3>3
        <4>2. \E n \in DOMAIN CompactQueue : CompactQueue[n] = queue[k]
          <5>1. queue \in Seq(Jobs) /\ Len(queue) <= 2
            BY MailFacts DEF Line
          <5>2. ASSUME NEW m \in DOMAIN queue, CompactQueue = <<queue[m]>>
                PROVE  1 \in DOMAIN CompactQueue /\ CompactQueue[1] = queue[m]
            BY <5>2
          <5>3. ASSUME CompactQueue = <<queue[1], queue[2]>>
                PROVE  {1, 2} \subseteq DOMAIN CompactQueue
                       /\ CompactQueue[1] = queue[1] /\ CompactQueue[2] = queue[2]
            BY <5>3
          <5>. QED BY <4>1, <5>1, <5>2, <5>3, Compacted
        <4>. QED BY <2>1, <3>1, <4>1, <4>2 DEF PendingIds, QueuedIds
      <3>. QED BY <3>2, <3>3, HeldIn
    <2>. QED BY <2>2, <2>3
  <1>. QED BY <1>1, DeliveryInvariant, PTL

\* Whatever the application collects was submitted by an intent that still waits
\* for it: no completion is an orphan that fails the turn.
THEOREM CompletionsClaimed == Spec => []CompletionClaimed
  <1>1. DInv => CompletionClaimed
    <2>. SUFFICES ASSUME DInv, apc = "deliver" PROVE IsText(collected) \/ IsControlOf(collected)
      BY DEF CompletionClaimed
    <2>. IInv /\ Line /\ Claims
      BY DEF DInv
    <2>1. collected.job \in Held
      BY DEF Line, Held
    <2>2. Claimed(collected.job)
      BY <2>1 DEF Claims
    <2>3. CASE Len(texts) > 0 /\ Carries(texts[1], collected.job)
      BY <2>3, TextFacts DEF Carries, IsText, IsTextOf
    <2>4. CASE Len(controls) > 0 /\ Carries(controls[1], collected.job)
      BY <2>4, ControlFacts DEF Carries, IsControlOf
    <2>. QED BY <2>2, <2>3, <2>4 DEF Claimed
  <1>. QED BY <1>1, DeliveryInvariant, PTL

\* A step that begins a write begins it for an authorized job.
LEMMA WriteBegins ==
    ASSUME IInv, [Next]_vars, pc # "write", pc' = "write"
    PROVE  \/ pc = "lease" /\ workerJob.kind = "text"
           \/ pc = "format" /\ Authorized(workerJob)
  <1>1. ~(Network \/ TransportStep \/ Capture \/ Expire \/ UNCHANGED vars)
    BY OutsideStep DEF OutsideVars
  <1>2. ~ApplicationStep
    BY ApplicationFrame DEF Frame
  <1>3. Wake \/ RunOnce
    BY <1>1, <1>2 DEF Next, WorkerStep
  <1>4. Lease \/ Format
    BY <1>3 DEF RunOnce, Wake, Start, Take, Check, Write, Finish, Complete, RetireWorker,
      IdleBefore, Pop, IdleAfter, AudioLease, AudioSend, Return
  <1>5. CASE Lease
    BY <1>5 DEF Lease, Return
  <1>6. CASE Format
    BY <1>6 DEF Format
  <1>. QED BY <1>4, <1>5, <1>6

\* A control that a server START has superseded is not written any more: its
\* generation is retired, and the worker asks for it under the lease.
THEOREM SupersededUnwritten == Spec => NoSupersededWrite
  <1>1. DInv /\ [Next]_vars =>
          (pc # "write" /\ pc' = "write" =>
            \A i \in DOMAIN controls : controls[i].ref = workerJob.ref =>
                                         controls[i].outcome # "Superseded")
    <2>. SUFFICES ASSUME DInv, [Next]_vars, pc # "write", pc' = "write",
                         NEW i \in DOMAIN controls, controls[i].ref = workerJob.ref,
                         controls[i].outcome = "Superseded"
                  PROVE  FALSE
      OBVIOUS
    <2>. IInv /\ Placed /\ TextStore /\ ControlStore /\ Claims
      BY DEF DInv
    <2>1. \/ pc = "lease" /\ workerJob.kind = "text"
          \/ pc = "format" /\ Authorized(workerJob)
      BY WriteBegins
    <2>2. workerJob \in Held
      BY <2>1 DEF Placed, Held, IInv, Carried, Carrying
    <2>3. Claimed(workerJob)
      BY <2>2 DEF Claims
    <2>4. CASE workerJob.kind = "text" /\ Len(texts) > 0 /\ Carries(texts[1], workerJob)
      <3>1. workerJob.ref \in Texts /\ workerJob.ref \in Controls
        BY <2>4, TextFacts, ControlFacts DEF Carries
      <3>. QED BY <3>1, WorkerAssumption DEF Texts, Controls
    <2>5. CASE workerJob.kind = "control" /\ Len(controls) > 0 /\ Carries(controls[1], workerJob)
      <3>1. Authorized(workerJob) /\ IsCurrent(workerJob.gen)
        BY <2>1, <2>5 DEF Authorized
      <3>2. controls[1].ref = workerJob.ref /\ controls[1].admitted /\ controls[1].gen = workerJob.gen
        BY <2>5 DEF Carries
      <3>3. i = 1
        BY <2>5, <3>2, ControlFacts DEF ControlStore, Controls
      <3>4. ~IsCurrent(controls[1].gen)
        BY <3>2, <3>3 DEF ControlStore
      <3>. QED BY <3>1, <3>2, <3>4
    <2>. QED BY <2>3, <2>4, <2>5 DEF Claimed
  <1>. QED BY <1>1, DeliveryInvariant, PTL DEF Spec, NoSupersededWrite


-----------------------------------------------------------------------------
(* The connection texts implement TextDelivery *)

\* What the stores do is a promise of TextDelivery being kept, or nothing.
LEMMA StoreKeepsPromise ==
    ASSUME DInv, TextsQuiet, UNCHANGED wire, IInv'
    PROVE  Delivery!DeliveryNext \/ UNCHANGED Delivery!deliveryVars
  <1>. IInv /\ TextStore /\ Log
    BY DEF DInv
  <1>0. UNCHANGED TextLog
    BY DEF TextLog
  <1>. HIDE DEF TextLog
  <1>1. CASE TextsKeep \/ TextsDecided
    BY <1>0, <1>1 DEF TextsKeep, TextsDecided, Delivery!deliveryVars
  <1>2. CASE TextsAppend
    <2>1. textCount < MaxTexts
      <3>1. \A n : n = textCount + 1 /\ n <= MaxTexts => textCount < MaxTexts
        BY NumberFacts
      <3>2. textCount' <= MaxTexts
        BY DEF IInv, TypeOK, IntentTypes
      <3>. QED BY <1>2, <3>1, <3>2 DEF TextsAppend
    <2>. QED BY <1>0, <1>2, <2>1 DEF TextsAppend, Delivery!DeliveryNext, Delivery!Accept
  <1>3. CASE TextsPop
    <2>1. PICK r : r = texts[1].ref
      OBVIOUS
    <2>2. PICK o \in {"Sent", "Failed", "Cancelled"} :
            told' = [told EXCEPT ![r] = o] /\ (o = "Sent" => texts[1].outcome = "Sent")
      BY <1>3, <2>1 DEF TextsPop
    <2>3. r \in Texts /\ r = Popped + 1 /\ r \in 1 .. textCount /\ Popped \in Nat
      BY <1>3, <2>1, TextFacts, NumberFacts DEF TextsPop, TextStore, Popped, Texts
    <2>4. told[r] = "none" /\ \A s \in 1 .. (r - 1) : told[s] # "none"
      <3>1. r \in Texts /\ Popped < r
        BY <2>3
      <3>2. \A s \in 1 .. (r - 1) : s \in Texts /\ ~(Popped < s)
        BY <2>3, WorkerAssumption DEF Texts
      <3>. HIDE DEF Popped, Texts
      <3>. QED BY <3>1, <3>2 DEF TextStore
    <2>5. o = "Sent" => \E i \in DOMAIN TextLog : TextLog[i] = r
      BY <1>3, <2>1, <2>2, TextFacts DEF Log, Logged, TextsPop
    <2>6. Delivery!Tell(r, o)
      BY <1>0, <1>3, <2>2, <2>4, <2>5 DEF Delivery!Tell, TextsPop
    <2>. QED BY <2>2, <2>3, <2>6 DEF Delivery!DeliveryNext, Delivery!Outcomes
  <1>. QED BY <1>1, <1>2, <1>3 DEF TextsQuiet

\* So does the write, which puts the next text on the wire.
LEMMA WriteKeepsPromise ==
    ASSUME DInv, pc = "write", wire' = Written(workerJob), UNCHANGED <<textCount, told>>
    PROVE  Delivery!DeliveryNext \/ UNCHANGED Delivery!deliveryVars
  <1>. IInv /\ Line /\ Placed /\ TextStore /\ Claims /\ Log
    BY DEF DInv
  <1>1. /\ workerJob # NoJob /\ workerJob.kind \in {"text", "control"}
        /\ workerJob.kind = "text" =>
             Len(texts) > 0 /\ workerJob.ref = Popped + 1 /\ ~Logged(Popped + 1)
    BY WriteFacts
  <1>2. CASE workerJob.kind # "text"
    <2>1. UNCHANGED TextLog
      BY <1>1, <1>2, LogWritten
    <2>. QED BY <2>1 DEF Delivery!deliveryVars
  <1>3. CASE workerJob.kind = "text"
    <2>1. PICK r : r = workerJob.ref
      OBVIOUS
    <2>2. r \in Texts /\ r = Popped + 1 /\ r \in 1 .. textCount /\ Popped \in Nat
      <3>1. Len(texts) > 0 /\ r = Popped + 1 /\ texts[1].ref = Popped + 1 /\ texts[1].ref \in Texts
        BY <1>1, <1>3, <2>1, TextFacts DEF TextStore
      <3>. QED BY <3>1, TextFacts, NumberFacts DEF TextStore, Popped
    <2>3. told[r] = "none"
      BY <2>2 DEF TextStore
    <2>4. TextLog' = Append(TextLog, r)
      BY <1>1, <1>3, <2>1, LogWritten
    <2>5. \A i \in DOMAIN TextLog : TextLog[i] < r
      <3>1. \A i \in DOMAIN TextLog : TextLog[i] \in 1 .. Popped + 1 /\ TextLog[i] # Popped + 1
        <4>. HIDE DEF Popped, TextLog
        <4>. QED BY <1>1, <1>3 DEF Log, Logged
      <3>2. \A x : x \in 1 .. Popped + 1 /\ x # Popped + 1 => x < r
        BY <2>2
      <3>. HIDE DEF Popped, TextLog
      <3>. QED BY <3>1, <3>2, Zenon
    <2>6. Delivery!WriteText(r)
      BY <2>3, <2>4, <2>5 DEF Delivery!WriteText
    <2>. QED BY <2>2, <2>6 DEF Delivery!DeliveryNext
  <1>. QED BY <1>2, <1>3

\* Each text reaches the wire at most once, in the order of the requests and
\* before it is reported; each is reported once, in order, and as sent only if it
\* is on the wire.
THEOREM TextsDelivered == Spec => DeliveredOnce
  <1>1. Init => Delivery!DeliveryInit
    BY EmptyLog DEF Init, WorkerInit, Delivery!DeliveryInit, Texts
  <1>2. DInv /\ [Next]_vars => [Delivery!DeliveryNext]_Delivery!deliveryVars
    <2>. SUFFICES ASSUME DInv, [Next]_vars
                  PROVE  Delivery!DeliveryNext \/ UNCHANGED Delivery!deliveryVars
      OBVIOUS
    <2>1. IInv'
      BY InvariantStep DEF DInv
    <2>2. CASE UNCHANGED <<textCount, told, wire>>
      BY <2>2 DEF Delivery!deliveryVars, TextLog
    <2>3. CASE ApplicationStep
      <3>1. CASE Quiet
        <4>1. TextsQuiet /\ UNCHANGED wire
          BY <3>1 DEF Quiet, TextsQuiet
        <4>. QED BY <2>1, <4>1, StoreKeepsPromise
      <3>. QED BY <2>1, <2>2, <2>3, <3>1, ApplicationKinds
    <2>4. CASE WorkerStep
      <3>1. UNCHANGED <<textCount, told>>
            /\ (UNCHANGED wire \/ (pc = "write" /\ wire' = Written(workerJob)))
        BY <2>1, <2>4, WorkerKinds
      <3>. QED BY <2>2, <3>1, WriteKeepsPromise
    <2>5. CASE Network \/ TransportStep \/ Capture \/ Expire \/ UNCHANGED vars
      <3>1. UNCHANGED <<textCount, told, wire>>
        BY <2>5, OutsideStep DEF OutsideVars
      <3>. QED BY <2>2, <3>1
    <2>. QED BY <2>3, <2>4, <2>5 DEF Next
  <1>. QED BY <1>1, <1>2, DeliveryInvariant, PTL DEF Spec, DeliveredOnce, Delivery!DeliverySpec
=============================================================================
