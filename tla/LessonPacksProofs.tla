--------------------------- MODULE LessonPacksProofs ---------------------------
(***************************************************************************)
(* The safety properties of LessonPacks for any number of packs, assets,   *)
(* selections, requests and losses of power.                               *)
(*                                                                         *)
(* The invariant has four parts besides the types: who holds the lease     *)
(* (Leases), which packs a pointer stands for (Pointed), what the worker   *)
(* may rely on between two of its file operations (Activating, Cleaning),  *)
(* and that a pack being evicted is one nobody points to (Evicting).  The  *)
(* last holds because the pointers and the selection change only under the *)
(* lease the eviction holds.                                               *)
(*                                                                         *)
(* The coordinator's own invariant, IInv, holds beside it: the worker, the *)
(* tools and the lesson only use its operations, and a restart brings its  *)
(* boot state back.                                                        *)
(***************************************************************************)
EXTENDS LessonPacks, LessonStorageProofs

Files == Packs \cup {Missing, Torn}

CardTypeOK ==
    /\ pointer \in [active: Files, tmp: Files, backup: Files]
    /\ stored \in [Packs -> SUBSET Assets]

SelectionTypeOK ==
    /\ selection \in [revision: 0..MaxRevision, held: BOOLEAN, owner: Selections \cup {NoSelection}]
    /\ uncertain \in BOOLEAN

Phases ==
    {"idle", "queued", "storing", "recovering", "deciding", "writing", "flushing", "backing",
     "publishing", "restoring", "closing", "cleaning", "evicting", "unmarking", "done"}

JobTypeOK ==
    job \in [phase: Phases, key: Packs \cup {NoPack}, revision: 0..MaxRevision,
            owner: Selections \cup {NoSelection}, previous: Packs \cup {NoPack},
            next: {"idle", "cleaning", "unmarking", "done"}, clean: BOOLEAN, pending: BOOLEAN]

ToolTypeOK ==
    tool \in [phase: {"idle", "evicting", "working", "closing"}, key: Packs \cup {NoPack}]

BoundsOK == requests \in 0..MaxRequests /\ faults \in 0..MaxFaults

Leased == {"storing", "recovering", "deciding", "writing", "flushing", "backing",
           "publishing", "restoring", "evicting"}

Leases ==
    /\ mutating \in BOOLEAN /\ active \in BOOLEAN
    /\ lease \in [{"sync", "tool"} -> {"none", "held", "closing"}]
    /\ lease["sync"] = "none" \/ lease["tool"] = "none"
    /\ mutating <=> lease["sync"] # "none" \/ lease["tool"] # "none"
    /\ mutating => ~active
    /\ job.phase \in Leased => lease["sync"] = "held"
    /\ job.phase = "closing" => lease["sync"] # "none"
    /\ job.phase \notin Leased \cup {"closing"} => lease["sync"] = "none"
    /\ tool.phase \in {"evicting", "working"} => lease["tool"] = "held"
    /\ tool.phase = "closing" => lease["tool"] # "none"
    /\ tool.phase = "idle" => lease["tool"] = "none"

\* Every pack that recovery may come to show is whole.
Pointed ==
    /\ pointer.active \in Packs => Whole(pointer.active)
    /\ pointer.tmp \in Packs => Whole(pointer.tmp)
    /\ pointer.active = Missing /\ pointer.backup \in Packs => Whole(pointer.backup)
    /\ pointer.active = Torn => pointer.backup = Missing

\* What holds between two file operations of an activation.
Activating ==
    /\ job.phase # "idle" => job.key \in Packs
    /\ job.phase \in {"recovering", "deciding", "writing", "flushing", "backing", "publishing", "restoring"}
           => Whole(job.key)
    /\ job.phase = "deciding" => pointer.tmp = Missing /\ (pointer.active = Missing => pointer.backup = Missing)
    /\ job.phase \in {"writing", "flushing", "backing"} =>
           pointer.backup = Missing /\ job.previous = Readable(pointer.active)
    /\ job.phase \in {"backing", "publishing"} => pointer.tmp = job.key
    /\ job.phase \in {"publishing", "restoring"} =>
           pointer.active = Missing /\ job.previous = Readable(pointer.backup)

\* The worker is where it goes, or on its way there with its lease to give back.
At(phase) == job.phase = phase \/ (job.phase = "closing" /\ job.next = phase)

\* What holds once the activation is over.
Cleaning ==
    /\ job.phase = "closing" => job.next \in {"cleaning", "unmarking", "done"}
    /\ At("cleaning") \/ At("unmarking") \/ job.phase = "evicting" =>
           /\ pointer.active \in Packs /\ pointer.tmp = Missing
           /\ pointer.active = job.key \/ job.pending
    /\ At("cleaning") /\ MustEvict =>
           job.previous # pointer.active /\ pointer.backup \in {job.previous, Missing}
    /\ At("cleaning") /\ pointer.backup \in Packs => job.previous = pointer.backup
    /\ job.phase = "evicting" => pointer.backup \in {job.previous, Missing}
    /\ At("unmarking") /\ pointer.backup \in Packs =>
           pointer.backup = job.key \/ stored[pointer.backup] = {}
    /\ At("done") /\ job.clean =>
           pointer.backup = Missing /\ (pointer.active = job.key \/ job.pending)

\* Nobody points to a pack that is being evicted, and it is not retained.
Retained(k) == selection.held /\ SelectedKey[selection.owner] = k

Evicting ==
    /\ job.phase = "evicting" => job.previous \in Packs /\ ~Retained(job.previous)
                                 /\ job.previous \notin {pointer.active, pointer.tmp}
    /\ tool.phase = "evicting" => tool.key \in Packs /\ ~Retained(tool.key)
                                 /\ tool.key \notin {pointer.active, pointer.tmp, pointer.backup}

PacksInv ==
    /\ CardTypeOK /\ SelectionTypeOK /\ JobTypeOK /\ ToolTypeOK /\ BoundsOK
    /\ Leases /\ Pointed /\ Activating /\ Cleaning /\ Evicting

LEMMA PacksConstants ==
    /\ Mutators = {"sync", "tool"}
    /\ Missing \notin Packs /\ Torn \notin Packs /\ NoPack \notin Packs
    /\ Missing # Torn /\ Assets # {}
    /\ NoSelection \notin Selections
    /\ SelectedKey \in [Selections -> Packs]
    /\ MaxRevision \in Nat /\ MaxRequests \in Nat /\ MaxFaults \in Nat
<1>. QED BY PacksAssumption DEF PacksAssumption

LEMMA InitInv == PacksInit => PacksInv
<1>. SUFFICES ASSUME PacksInit PROVE PacksInv
  OBVIOUS
<1>. USE PacksConstants DEF PacksInit, NoJob, NoTool
<1>1. CardTypeOK /\ SelectionTypeOK /\ ToolTypeOK /\ BoundsOK
  <2>1. CardTypeOK /\ ToolTypeOK
    BY DEF CardTypeOK, Files, ToolTypeOK
  <2>2. 0 \in 0..MaxRevision /\ 0 \in 0..MaxRequests /\ 0 \in 0..MaxFaults
    OBVIOUS
  <2>3. BoundsOK
    BY <2>2 DEF BoundsOK
  <2>4. SelectionTypeOK
    BY <2>2 DEF SelectionTypeOK
  <2>. QED BY <2>1, <2>3, <2>4
<1>2. JobTypeOK
  BY DEF JobTypeOK, Phases
<1>3. Leases
  BY DEF StorageInit, Leases, Leased
<1>4. Pointed /\ Activating /\ Cleaning /\ Evicting
  BY DEF Pointed, Activating, Cleaning, Evicting, At
<1>. QED BY <1>1, <1>2, <1>3, <1>4 DEF PacksInv

LEMMA RequestSyncInv ==
    ASSUME PacksInv, NEW r \in Requests, RequestSync(r)
    PROVE  PacksInv'
<1>. USE PacksConstants DEF PacksInv, RequestSync, cardVars, selectionVars, boundVars, storageVars, coordinatorVars, sessionVars, NoJob, Requests
<1>1. CardTypeOK'
  BY DEF CardTypeOK, Files, JobTypeOK, ToolTypeOK, Activating
<1>2. SelectionTypeOK'
  BY DEF SelectionTypeOK
<1>3. JobTypeOK'
  BY DEF JobTypeOK, Phases, CardTypeOK, Files, Requests, Readable, Cleaning, At, Activating
<1>4. ToolTypeOK'
  BY DEF ToolTypeOK
<1>5. BoundsOK'
  BY DEF BoundsOK
<1>6. Leases'
  BY DEF Leases, Leased, JobTypeOK, Phases, ToolTypeOK, Cleaning
<1>7. Pointed'
  BY DEF Pointed, Whole, CardTypeOK, Files, JobTypeOK, ToolTypeOK, Activating, Evicting, Cleaning
<1>8. Activating'
  BY DEF Activating, Whole, Readable, CardTypeOK, Files, JobTypeOK, Leases, Leased, Evicting
<1>9. Cleaning'
  BY DEF Cleaning, At, MustEvict, Readable, CardTypeOK, Files, JobTypeOK, Activating, Leases, Leased, Evicting
<1>10. Evicting'
  BY DEF Evicting, Retained, CardTypeOK, Files, JobTypeOK, ToolTypeOK, Leases, Leased, Cleaning, At, MustEvict, Readable
<1>. QED BY <1>1, <1>2, <1>3, <1>4, <1>5, <1>6, <1>7, <1>8, <1>9, <1>10

LEMMA StartSyncInv ==
    ASSUME PacksInv, StartSync
    PROVE  PacksInv'
<1>. USE PacksConstants DEF PacksInv
<1>1. CASE RetainedSyncAllowed(job.key, job.revision, job.owner)
  <2>0. /\ job.phase = "queued"
        /\ job' = [job EXCEPT !.phase = "storing"]
        /\ UNCHANGED <<pointer, stored, selection, uncertain, tool, requests, faults>>
        /\ ~mutating /\ ~active /\ mutating' = TRUE /\ active' = active
        /\ lease["sync"] = "none" /\ lease' = [lease EXCEPT !["sync"] = "held"]
    BY <1>1 DEF StartSync, cardVars, selectionVars, boundVars, storageVars, coordinatorVars, sessionVars, BeginMutation, CanMutate, Goto, CloseFailed
  <2>1. CardTypeOK'
    BY <1>1, <2>0 DEF CardTypeOK, Files, JobTypeOK, ToolTypeOK, Activating
  <2>2. SelectionTypeOK'
    BY <1>1, <2>0 DEF SelectionTypeOK
  <2>3. JobTypeOK'
    BY <1>1, <2>0 DEF JobTypeOK, Phases, CardTypeOK, Files, Readable, Cleaning, At, Activating
  <2>4. ToolTypeOK'
    BY <1>1, <2>0 DEF ToolTypeOK
  <2>5. BoundsOK'
    BY <1>1, <2>0 DEF BoundsOK
  <2>6. Leases'
    BY <1>1, <2>0 DEF Leases, Leased, JobTypeOK, Phases, ToolTypeOK, Cleaning
  <2>7. Pointed'
    BY <1>1, <2>0 DEF Pointed, Whole, CardTypeOK, Files, JobTypeOK, ToolTypeOK, Activating, Evicting, Cleaning
  <2>8. Activating'
    BY <1>1, <2>0 DEF Activating, Whole, Readable, CardTypeOK, Files, JobTypeOK, Leases, Leased, Evicting
  <2>9. Cleaning'
    BY <1>1, <2>0 DEF Cleaning, At, MustEvict, Readable, CardTypeOK, Files, JobTypeOK, Activating, Leases, Leased, Evicting
  <2>10. Evicting'
    BY <1>1, <2>0 DEF Evicting, Retained, CardTypeOK, Files, JobTypeOK, ToolTypeOK, Leases, Leased, Cleaning, At, MustEvict, Readable
  <2>. QED BY <2>1, <2>2, <2>3, <2>4, <2>5, <2>6, <2>7, <2>8, <2>9, <2>10
<1>2. CASE ~RetainedSyncAllowed(job.key, job.revision, job.owner)
  <2>0. /\ job.phase = "queued"
        /\ job' = [job EXCEPT !.phase = "closing", !.next = "done", !.clean = FALSE]
        /\ UNCHANGED <<pointer, stored, selection, uncertain, tool, requests, faults>>
        /\ ~mutating /\ ~active /\ mutating' = TRUE /\ active' = active
        /\ lease["sync"] = "none" /\ lease' = [lease EXCEPT !["sync"] = "held"]
    BY <1>2 DEF StartSync, cardVars, selectionVars, boundVars, storageVars, coordinatorVars, sessionVars, BeginMutation, CanMutate, Goto, CloseFailed
  <2>1. CardTypeOK'
    BY <1>2, <2>0 DEF CardTypeOK, Files, JobTypeOK, ToolTypeOK, Activating
  <2>2. SelectionTypeOK'
    BY <1>2, <2>0 DEF SelectionTypeOK
  <2>3. JobTypeOK'
    BY <1>2, <2>0 DEF JobTypeOK, Phases, CardTypeOK, Files, Readable, Cleaning, At, Activating
  <2>4. ToolTypeOK'
    BY <1>2, <2>0 DEF ToolTypeOK
  <2>5. BoundsOK'
    BY <1>2, <2>0 DEF BoundsOK
  <2>6. Leases'
    BY <1>2, <2>0 DEF Leases, Leased, JobTypeOK, Phases, ToolTypeOK, Cleaning
  <2>7. Pointed'
    BY <1>2, <2>0 DEF Pointed, Whole, CardTypeOK, Files, JobTypeOK, ToolTypeOK, Activating, Evicting, Cleaning
  <2>8. Activating'
    BY <1>2, <2>0 DEF Activating, Whole, Readable, CardTypeOK, Files, JobTypeOK, Leases, Leased, Evicting
  <2>9. Cleaning'
    BY <1>2, <2>0 DEF Cleaning, At, MustEvict, Readable, CardTypeOK, Files, JobTypeOK, Activating, Leases, Leased, Evicting
  <2>10. Evicting'
    BY <1>2, <2>0 DEF Evicting, Retained, CardTypeOK, Files, JobTypeOK, ToolTypeOK, Leases, Leased, Cleaning, At, MustEvict, Readable
  <2>. QED BY <2>1, <2>2, <2>3, <2>4, <2>5, <2>6, <2>7, <2>8, <2>9, <2>10
<1>. QED BY <1>1, <1>2 DEF StartSync

LEMMA RefuseSyncInv ==
    ASSUME PacksInv, RefuseSync
    PROVE  PacksInv'
<1>. USE PacksConstants DEF PacksInv, RefuseSync, cardVars, selectionVars, boundVars, storageVars, coordinatorVars, sessionVars
<1>1. CardTypeOK'
  BY DEF CardTypeOK, Files, JobTypeOK, ToolTypeOK, Activating
<1>2. SelectionTypeOK'
  BY DEF SelectionTypeOK
<1>3. JobTypeOK'
  BY DEF JobTypeOK, Phases, CardTypeOK, Files, Requests, Readable, Cleaning, At, Activating
<1>4. ToolTypeOK'
  BY DEF ToolTypeOK
<1>5. BoundsOK'
  BY DEF BoundsOK
<1>6. Leases'
  BY DEF Leases, Leased, JobTypeOK, Phases, ToolTypeOK, Cleaning
<1>7. Pointed'
  BY DEF Pointed, Whole, CardTypeOK, Files, JobTypeOK, ToolTypeOK, Activating, Evicting, Cleaning
<1>8. Activating'
  BY DEF Activating, Whole, Readable, CardTypeOK, Files, JobTypeOK, Leases, Leased, Evicting
<1>9. Cleaning'
  BY DEF Cleaning, At, MustEvict, Readable, CardTypeOK, Files, JobTypeOK, Activating, Leases, Leased, Evicting
<1>10. Evicting'
  BY DEF Evicting, Retained, CardTypeOK, Files, JobTypeOK, ToolTypeOK, Leases, Leased, Cleaning, At, MustEvict, Readable
<1>. QED BY <1>1, <1>2, <1>3, <1>4, <1>5, <1>6, <1>7, <1>8, <1>9, <1>10

LEMMA StoreAssetInv ==
    ASSUME PacksInv, StoreAsset
    PROVE  PacksInv'
<1>. USE PacksConstants DEF PacksInv, StoreAsset, cardVars, selectionVars, boundVars, storageVars, coordinatorVars, sessionVars
<1>1. CardTypeOK'
  BY DEF CardTypeOK, Files, JobTypeOK, ToolTypeOK, Activating
<1>2. SelectionTypeOK'
  BY DEF SelectionTypeOK
<1>3. JobTypeOK'
  BY DEF JobTypeOK, Phases, CardTypeOK, Files, Requests, Readable, Cleaning, At, Activating
<1>4. ToolTypeOK'
  BY DEF ToolTypeOK
<1>5. BoundsOK'
  BY DEF BoundsOK
<1>6. Leases'
  BY DEF Leases, Leased, JobTypeOK, Phases, ToolTypeOK, Cleaning
<1>7. Pointed'
  BY DEF Pointed, Whole, CardTypeOK, Files, JobTypeOK, ToolTypeOK, Activating, Evicting, Cleaning
<1>8. Activating'
  BY DEF Activating, Whole, Readable, CardTypeOK, Files, JobTypeOK, Leases, Leased, Evicting
<1>9. Cleaning'
  BY DEF Cleaning, At, MustEvict, Readable, CardTypeOK, Files, JobTypeOK, Activating, Leases, Leased, Evicting
<1>10. Evicting'
  BY DEF Evicting, Retained, CardTypeOK, Files, JobTypeOK, ToolTypeOK, Leases, Leased, Cleaning, At, MustEvict, Readable
<1>. QED BY <1>1, <1>2, <1>3, <1>4, <1>5, <1>6, <1>7, <1>8, <1>9, <1>10

LEMMA FailAssetInv ==
    ASSUME PacksInv, FailAsset
    PROVE  PacksInv'
<1>. USE PacksConstants DEF PacksInv
<1>1. CASE CloseFailed
  <2>0. /\ job.phase = "storing"
        /\ job' = [job EXCEPT !.phase = "closing", !.next = "done", !.clean = FALSE]
        /\ faults < MaxFaults /\ faults' = faults + 1
        /\ UNCHANGED <<pointer, stored, selection, uncertain, tool, requests, mutating, active, lease>>
    BY <1>1 DEF FailAsset, cardVars, selectionVars, boundVars, storageVars, coordinatorVars, sessionVars, CloseFailed, Fault
  <2>1. CardTypeOK'
    BY <1>1, <2>0 DEF CardTypeOK, Files, JobTypeOK, ToolTypeOK, Activating
  <2>2. SelectionTypeOK'
    BY <1>1, <2>0 DEF SelectionTypeOK
  <2>3. JobTypeOK'
    BY <1>1, <2>0 DEF JobTypeOK, Phases, CardTypeOK, Files, Readable, Cleaning, At, Activating
  <2>4. ToolTypeOK'
    BY <1>1, <2>0 DEF ToolTypeOK
  <2>5. BoundsOK'
    BY <1>1, <2>0 DEF BoundsOK
  <2>6. Leases'
    BY <1>1, <2>0 DEF Leases, Leased, JobTypeOK, Phases, ToolTypeOK, Cleaning
  <2>7. Pointed'
    BY <1>1, <2>0 DEF Pointed, Whole, CardTypeOK, Files, JobTypeOK, ToolTypeOK, Activating, Evicting, Cleaning
  <2>8. Activating'
    BY <1>1, <2>0 DEF Activating, Whole, Readable, CardTypeOK, Files, JobTypeOK, Leases, Leased, Evicting
  <2>9. Cleaning'
    BY <1>1, <2>0 DEF Cleaning, At, MustEvict, Readable, CardTypeOK, Files, JobTypeOK, Activating, Leases, Leased, Evicting
  <2>10. Evicting'
    BY <1>1, <2>0 DEF Evicting, Retained, CardTypeOK, Files, JobTypeOK, ToolTypeOK, Leases, Leased, Cleaning, At, MustEvict, Readable
  <2>. QED BY <2>1, <2>2, <2>3, <2>4, <2>5, <2>6, <2>7, <2>8, <2>9, <2>10
<1>2. CASE job' = [job EXCEPT !.clean = FALSE]
  <2>0. /\ job.phase = "storing"
        /\ job' = [job EXCEPT !.clean = FALSE]
        /\ faults < MaxFaults /\ faults' = faults + 1
        /\ UNCHANGED <<pointer, stored, selection, uncertain, tool, requests, mutating, active, lease>>
    BY <1>2 DEF FailAsset, cardVars, selectionVars, boundVars, storageVars, coordinatorVars, sessionVars, CloseFailed, Fault
  <2>1. CardTypeOK'
    BY <1>2, <2>0 DEF CardTypeOK, Files, JobTypeOK, ToolTypeOK, Activating
  <2>2. SelectionTypeOK'
    BY <1>2, <2>0 DEF SelectionTypeOK
  <2>3. JobTypeOK'
    BY <1>2, <2>0 DEF JobTypeOK, Phases, CardTypeOK, Files, Readable, Cleaning, At, Activating
  <2>4. ToolTypeOK'
    BY <1>2, <2>0 DEF ToolTypeOK
  <2>5. BoundsOK'
    BY <1>2, <2>0 DEF BoundsOK
  <2>6. Leases'
    BY <1>2, <2>0 DEF Leases, Leased, JobTypeOK, Phases, ToolTypeOK, Cleaning
  <2>7. Pointed'
    BY <1>2, <2>0 DEF Pointed, Whole, CardTypeOK, Files, JobTypeOK, ToolTypeOK, Activating, Evicting, Cleaning
  <2>8. Activating'
    BY <1>2, <2>0 DEF Activating, Whole, Readable, CardTypeOK, Files, JobTypeOK, Leases, Leased, Evicting
  <2>9. Cleaning'
    BY <1>2, <2>0 DEF Cleaning, At, MustEvict, Readable, CardTypeOK, Files, JobTypeOK, Activating, Leases, Leased, Evicting
  <2>10. Evicting'
    BY <1>2, <2>0 DEF Evicting, Retained, CardTypeOK, Files, JobTypeOK, ToolTypeOK, Leases, Leased, Cleaning, At, MustEvict, Readable
  <2>. QED BY <2>1, <2>2, <2>3, <2>4, <2>5, <2>6, <2>7, <2>8, <2>9, <2>10
<1>. QED BY <1>1, <1>2 DEF FailAsset

LEMMA FinishStoringInv ==
    ASSUME PacksInv, FinishStoring
    PROVE  PacksInv'
<1>. USE PacksConstants DEF PacksInv
<1>1. CASE job.clean /\ Whole(job.key) /\ RetainedSyncAllowed(job.key, job.revision, job.owner)
  <2>0. /\ job.phase = "storing" /\ stored[job.key] = Assets
        /\ job' = [job EXCEPT !.phase = "recovering"]
        /\ UNCHANGED <<pointer, stored, selection, uncertain, tool, requests, faults, mutating, active, lease>>
    BY <1>1 DEF FinishStoring, cardVars, selectionVars, boundVars, storageVars, coordinatorVars, sessionVars, Goto, CloseFailed, Whole
  <2>1. CardTypeOK'
    BY <1>1, <2>0 DEF CardTypeOK, Files, JobTypeOK, ToolTypeOK, Activating
  <2>2. SelectionTypeOK'
    BY <1>1, <2>0 DEF SelectionTypeOK
  <2>3. JobTypeOK'
    BY <1>1, <2>0 DEF JobTypeOK, Phases, CardTypeOK, Files, Readable, Cleaning, At, Activating
  <2>4. ToolTypeOK'
    BY <1>1, <2>0 DEF ToolTypeOK
  <2>5. BoundsOK'
    BY <1>1, <2>0 DEF BoundsOK
  <2>6. Leases'
    BY <1>1, <2>0 DEF Leases, Leased, JobTypeOK, Phases, ToolTypeOK, Cleaning
  <2>7. Pointed'
    BY <1>1, <2>0 DEF Pointed, Whole, CardTypeOK, Files, JobTypeOK, ToolTypeOK, Activating, Evicting, Cleaning
  <2>8. Activating'
    BY <1>1, <2>0 DEF Activating, Whole, Readable, CardTypeOK, Files, JobTypeOK, Leases, Leased, Evicting
  <2>9. Cleaning'
    BY <1>1, <2>0 DEF Cleaning, At, MustEvict, Readable, CardTypeOK, Files, JobTypeOK, Activating, Leases, Leased, Evicting
  <2>10. Evicting'
    BY <1>1, <2>0 DEF Evicting, Retained, CardTypeOK, Files, JobTypeOK, ToolTypeOK, Leases, Leased, Cleaning, At, MustEvict, Readable
  <2>. QED BY <2>1, <2>2, <2>3, <2>4, <2>5, <2>6, <2>7, <2>8, <2>9, <2>10
<1>2. CASE ~(job.clean /\ Whole(job.key) /\ RetainedSyncAllowed(job.key, job.revision, job.owner))
  <2>0. /\ job.phase = "storing"
        /\ job' = [job EXCEPT !.phase = "closing", !.next = "done", !.clean = FALSE]
        /\ UNCHANGED <<pointer, stored, selection, uncertain, tool, requests, faults, mutating, active, lease>>
    BY <1>2 DEF FinishStoring, cardVars, selectionVars, boundVars, storageVars, coordinatorVars, sessionVars, Goto, CloseFailed, Whole
  <2>1. CardTypeOK'
    BY <1>2, <2>0 DEF CardTypeOK, Files, JobTypeOK, ToolTypeOK, Activating
  <2>2. SelectionTypeOK'
    BY <1>2, <2>0 DEF SelectionTypeOK
  <2>3. JobTypeOK'
    BY <1>2, <2>0 DEF JobTypeOK, Phases, CardTypeOK, Files, Readable, Cleaning, At, Activating
  <2>4. ToolTypeOK'
    BY <1>2, <2>0 DEF ToolTypeOK
  <2>5. BoundsOK'
    BY <1>2, <2>0 DEF BoundsOK
  <2>6. Leases'
    BY <1>2, <2>0 DEF Leases, Leased, JobTypeOK, Phases, ToolTypeOK, Cleaning
  <2>7. Pointed'
    BY <1>2, <2>0 DEF Pointed, Whole, CardTypeOK, Files, JobTypeOK, ToolTypeOK, Activating, Evicting, Cleaning
  <2>8. Activating'
    BY <1>2, <2>0 DEF Activating, Whole, Readable, CardTypeOK, Files, JobTypeOK, Leases, Leased, Evicting
  <2>9. Cleaning'
    BY <1>2, <2>0 DEF Cleaning, At, MustEvict, Readable, CardTypeOK, Files, JobTypeOK, Activating, Leases, Leased, Evicting
  <2>10. Evicting'
    BY <1>2, <2>0 DEF Evicting, Retained, CardTypeOK, Files, JobTypeOK, ToolTypeOK, Leases, Leased, Cleaning, At, MustEvict, Readable
  <2>. QED BY <2>1, <2>2, <2>3, <2>4, <2>5, <2>6, <2>7, <2>8, <2>9, <2>10
<1>. QED BY <1>1, <1>2 DEF FinishStoring

LEMMA RecoverInv ==
    ASSUME PacksInv, Recover
    PROVE  PacksInv'
<1>. USE PacksConstants DEF PacksInv
<1>1. CASE pointer.active # Missing
  <2>0. /\ job.phase = "recovering"
        /\ pointer' = [pointer EXCEPT !.tmp = Missing]
        /\ job' = [job EXCEPT !.phase = "deciding"]
        /\ UNCHANGED <<stored, selection, uncertain, tool, requests, faults, mutating, active, lease>>
    BY <1>1 DEF Recover, cardVars, selectionVars, boundVars, storageVars, coordinatorVars, sessionVars, Goto
  <2>1. CardTypeOK'
    BY <1>1, <2>0 DEF CardTypeOK, Files, JobTypeOK, ToolTypeOK, Activating
  <2>2. SelectionTypeOK'
    BY <1>1, <2>0 DEF SelectionTypeOK
  <2>3. JobTypeOK'
    BY <1>1, <2>0 DEF JobTypeOK, Phases, CardTypeOK, Files, Readable, Cleaning, At, Activating
  <2>4. ToolTypeOK'
    BY <1>1, <2>0 DEF ToolTypeOK
  <2>5. BoundsOK'
    BY <1>1, <2>0 DEF BoundsOK
  <2>6. Leases'
    BY <1>1, <2>0 DEF Leases, Leased, JobTypeOK, Phases, ToolTypeOK, Cleaning
  <2>7. Pointed'
    BY <1>1, <2>0 DEF Pointed, Whole, CardTypeOK, Files, JobTypeOK, ToolTypeOK, Activating, Evicting, Cleaning
  <2>8. Activating'
    BY <1>1, <2>0 DEF Activating, Whole, Readable, CardTypeOK, Files, JobTypeOK, Leases, Leased, Evicting
  <2>9. Cleaning'
    BY <1>1, <2>0 DEF Cleaning, At, MustEvict, Readable, CardTypeOK, Files, JobTypeOK, Activating, Leases, Leased, Evicting
  <2>10. Evicting'
    BY <1>1, <2>0 DEF Evicting, Retained, CardTypeOK, Files, JobTypeOK, ToolTypeOK, Leases, Leased, Cleaning, At, MustEvict, Readable
  <2>. QED BY <2>1, <2>2, <2>3, <2>4, <2>5, <2>6, <2>7, <2>8, <2>9, <2>10
<1>2. CASE pointer.active = Missing /\ pointer.backup # Missing
  <2>0. /\ job.phase = "recovering"
        /\ pointer' = [pointer EXCEPT !.active = pointer.backup, !.backup = Missing]
        /\ job' = job
        /\ UNCHANGED <<stored, selection, uncertain, tool, requests, faults, mutating, active, lease>>
    BY <1>2 DEF Recover, cardVars, selectionVars, boundVars, storageVars, coordinatorVars, sessionVars, Goto
  <2>1. CardTypeOK'
    BY <1>2, <2>0 DEF CardTypeOK, Files, JobTypeOK, ToolTypeOK, Activating
  <2>2. SelectionTypeOK'
    BY <1>2, <2>0 DEF SelectionTypeOK
  <2>3. JobTypeOK'
    BY <1>2, <2>0 DEF JobTypeOK, Phases, CardTypeOK, Files, Readable, Cleaning, At, Activating
  <2>4. ToolTypeOK'
    BY <1>2, <2>0 DEF ToolTypeOK
  <2>5. BoundsOK'
    BY <1>2, <2>0 DEF BoundsOK
  <2>6. Leases'
    BY <1>2, <2>0 DEF Leases, Leased, JobTypeOK, Phases, ToolTypeOK, Cleaning
  <2>7. Pointed'
    BY <1>2, <2>0 DEF Pointed, Whole, CardTypeOK, Files, JobTypeOK, ToolTypeOK, Activating, Evicting, Cleaning
  <2>8. Activating'
    BY <1>2, <2>0 DEF Activating, Whole, Readable, CardTypeOK, Files, JobTypeOK, Leases, Leased, Evicting
  <2>9. Cleaning'
    BY <1>2, <2>0 DEF Cleaning, At, MustEvict, Readable, CardTypeOK, Files, JobTypeOK, Activating, Leases, Leased, Evicting
  <2>10. Evicting'
    BY <1>2, <2>0 DEF Evicting, Retained, CardTypeOK, Files, JobTypeOK, ToolTypeOK, Leases, Leased, Cleaning, At, MustEvict, Readable
  <2>. QED BY <2>1, <2>2, <2>3, <2>4, <2>5, <2>6, <2>7, <2>8, <2>9, <2>10
<1>3. CASE pointer.active = Missing /\ pointer.backup = Missing
  <2>0. /\ job.phase = "recovering"
        /\ pointer' = [pointer EXCEPT !.active = pointer.tmp, !.tmp = Missing]
        /\ job' = [job EXCEPT !.phase = "deciding"]
        /\ UNCHANGED <<stored, selection, uncertain, tool, requests, faults, mutating, active, lease>>
    BY <1>3 DEF Recover, cardVars, selectionVars, boundVars, storageVars, coordinatorVars, sessionVars, Goto
  <2>1. CardTypeOK'
    BY <1>3, <2>0 DEF CardTypeOK, Files, JobTypeOK, ToolTypeOK, Activating
  <2>2. SelectionTypeOK'
    BY <1>3, <2>0 DEF SelectionTypeOK
  <2>3. JobTypeOK'
    BY <1>3, <2>0 DEF JobTypeOK, Phases, CardTypeOK, Files, Readable, Cleaning, At, Activating
  <2>4. ToolTypeOK'
    BY <1>3, <2>0 DEF ToolTypeOK
  <2>5. BoundsOK'
    BY <1>3, <2>0 DEF BoundsOK
  <2>6. Leases'
    BY <1>3, <2>0 DEF Leases, Leased, JobTypeOK, Phases, ToolTypeOK, Cleaning
  <2>7. Pointed'
    BY <1>3, <2>0 DEF Pointed, Whole, CardTypeOK, Files, JobTypeOK, ToolTypeOK, Activating, Evicting, Cleaning
  <2>8. Activating'
    BY <1>3, <2>0 DEF Activating, Whole, Readable, CardTypeOK, Files, JobTypeOK, Leases, Leased, Evicting
  <2>9. Cleaning'
    BY <1>3, <2>0 DEF Cleaning, At, MustEvict, Readable, CardTypeOK, Files, JobTypeOK, Activating, Leases, Leased, Evicting
  <2>10. Evicting'
    BY <1>3, <2>0 DEF Evicting, Retained, CardTypeOK, Files, JobTypeOK, ToolTypeOK, Leases, Leased, Cleaning, At, MustEvict, Readable
  <2>. QED BY <2>1, <2>2, <2>3, <2>4, <2>5, <2>6, <2>7, <2>8, <2>9, <2>10
<1>. QED BY <1>1, <1>2, <1>3 DEF Recover

LEMMA DecideInv ==
    ASSUME PacksInv, Decide
    PROVE  PacksInv'
<1>. USE PacksConstants DEF PacksInv
<1>1. CASE pointer.active = job.key
  <2>0. /\ job.phase = "deciding"
        /\ job' = [job EXCEPT !.phase = "closing", !.next = "cleaning", !.previous = PreviousKey]
        /\ pointer' = pointer
        /\ UNCHANGED <<stored, selection, uncertain, tool, requests, faults, mutating, active, lease>>
    BY <1>1 DEF Decide, cardVars, selectionVars, boundVars, storageVars, coordinatorVars, sessionVars, Goto
  <2>1. CardTypeOK'
    BY <1>1, <2>0 DEF CardTypeOK, Files, JobTypeOK, ToolTypeOK, Activating
  <2>2. SelectionTypeOK'
    BY <1>1, <2>0 DEF SelectionTypeOK
  <2>3. JobTypeOK'
    BY <1>1, <2>0 DEF JobTypeOK, Phases, CardTypeOK, Files, Readable, PreviousKey, Cleaning, At, Activating
  <2>4. ToolTypeOK'
    BY <1>1, <2>0 DEF ToolTypeOK
  <2>5. BoundsOK'
    BY <1>1, <2>0 DEF BoundsOK
  <2>6. Leases'
    BY <1>1, <2>0 DEF Leases, Leased, JobTypeOK, Phases, ToolTypeOK, Cleaning
  <2>7. Pointed'
    BY <1>1, <2>0 DEF Pointed, Whole, CardTypeOK, Files, JobTypeOK, ToolTypeOK, Activating, Evicting, Cleaning
  <2>8. Activating'
    BY <1>1, <2>0 DEF Activating, Whole, Readable, CardTypeOK, Files, JobTypeOK, Leases, Leased, Evicting
  <2>9. Cleaning'
    BY <1>1, <2>0 DEF Cleaning, At, MustEvict, Readable, PreviousKey, CardTypeOK, Files, JobTypeOK, Activating, Leases, Leased, Evicting
  <2>10. Evicting'
    BY <1>1, <2>0 DEF Evicting, Retained, CardTypeOK, Files, JobTypeOK, ToolTypeOK, Leases, Leased, Cleaning, At, MustEvict, Readable, PreviousKey
  <2>. QED BY <2>1, <2>2, <2>3, <2>4, <2>5, <2>6, <2>7, <2>8, <2>9, <2>10
<1>2. CASE pointer.active # job.key /\ pointer.backup \in {Missing, Torn, pointer.active}
  <2>0. /\ job.phase = "deciding"
        /\ job' = [job EXCEPT !.phase = "writing", !.previous = Readable(pointer.active)]
        /\ pointer' = [pointer EXCEPT !.backup = Missing]
        /\ UNCHANGED <<stored, selection, uncertain, tool, requests, faults, mutating, active, lease>>
    BY <1>2 DEF Decide, cardVars, selectionVars, boundVars, storageVars, coordinatorVars, sessionVars, Goto
  <2>1. CardTypeOK'
    BY <1>2, <2>0 DEF CardTypeOK, Files, JobTypeOK, ToolTypeOK, Activating
  <2>2. SelectionTypeOK'
    BY <1>2, <2>0 DEF SelectionTypeOK
  <2>3. JobTypeOK'
    BY <1>2, <2>0 DEF JobTypeOK, Phases, CardTypeOK, Files, Readable, PreviousKey, Cleaning, At, Activating
  <2>4. ToolTypeOK'
    BY <1>2, <2>0 DEF ToolTypeOK
  <2>5. BoundsOK'
    BY <1>2, <2>0 DEF BoundsOK
  <2>6. Leases'
    BY <1>2, <2>0 DEF Leases, Leased, JobTypeOK, Phases, ToolTypeOK, Cleaning
  <2>7. Pointed'
    BY <1>2, <2>0 DEF Pointed, Whole, CardTypeOK, Files, JobTypeOK, ToolTypeOK, Activating, Evicting, Cleaning
  <2>8. Activating'
    BY <1>2, <2>0 DEF Activating, Whole, Readable, CardTypeOK, Files, JobTypeOK, Leases, Leased, Evicting
  <2>9. Cleaning'
    BY <1>2, <2>0 DEF Cleaning, At, MustEvict, Readable, PreviousKey, CardTypeOK, Files, JobTypeOK, Activating, Leases, Leased, Evicting
  <2>10. Evicting'
    BY <1>2, <2>0 DEF Evicting, Retained, CardTypeOK, Files, JobTypeOK, ToolTypeOK, Leases, Leased, Cleaning, At, MustEvict, Readable, PreviousKey
  <2>. QED BY <2>1, <2>2, <2>3, <2>4, <2>5, <2>6, <2>7, <2>8, <2>9, <2>10
<1>3. CASE pointer.active # job.key /\ pointer.backup \notin {Missing, Torn, pointer.active}
  <2>0. /\ job.phase = "deciding"
        /\ job' = [job EXCEPT !.phase = "closing", !.next = "cleaning",
                               !.previous = pointer.backup, !.pending = TRUE]
        /\ pointer' = pointer
        /\ UNCHANGED <<stored, selection, uncertain, tool, requests, faults, mutating, active, lease>>
    BY <1>3 DEF Decide, cardVars, selectionVars, boundVars, storageVars, coordinatorVars, sessionVars, Goto
  <2>1. CardTypeOK'
    BY <1>3, <2>0 DEF CardTypeOK, Files, JobTypeOK, ToolTypeOK, Activating
  <2>2. SelectionTypeOK'
    BY <1>3, <2>0 DEF SelectionTypeOK
  <2>3. JobTypeOK'
    BY <1>3, <2>0 DEF JobTypeOK, Phases, CardTypeOK, Files, Readable, PreviousKey, Cleaning, At, Activating
  <2>4. ToolTypeOK'
    BY <1>3, <2>0 DEF ToolTypeOK
  <2>5. BoundsOK'
    BY <1>3, <2>0 DEF BoundsOK
  <2>6. Leases'
    BY <1>3, <2>0 DEF Leases, Leased, JobTypeOK, Phases, ToolTypeOK, Cleaning
  <2>7. Pointed'
    BY <1>3, <2>0 DEF Pointed, Whole, CardTypeOK, Files, JobTypeOK, ToolTypeOK, Activating, Evicting, Cleaning
  <2>8. Activating'
    BY <1>3, <2>0 DEF Activating, Whole, Readable, CardTypeOK, Files, JobTypeOK, Leases, Leased, Evicting
  <2>9. Cleaning'
    BY <1>3, <2>0 DEF Cleaning, At, MustEvict, Readable, PreviousKey, Pointed, CardTypeOK, Files, JobTypeOK, Activating, Leases, Leased, Evicting
  <2>10. Evicting'
    BY <1>3, <2>0 DEF Evicting, Retained, CardTypeOK, Files, JobTypeOK, ToolTypeOK, Leases, Leased, Cleaning, At, MustEvict, Readable, PreviousKey
  <2>. QED BY <2>1, <2>2, <2>3, <2>4, <2>5, <2>6, <2>7, <2>8, <2>9, <2>10
<1>. QED BY <1>1, <1>2, <1>3 DEF Decide

LEMMA CreateTmpInv ==
    ASSUME PacksInv, CreateTmp
    PROVE  PacksInv'
<1>. USE PacksConstants DEF PacksInv, CreateTmp, cardVars, selectionVars, boundVars, storageVars, coordinatorVars, sessionVars, Goto
<1>1. CardTypeOK'
  BY DEF CardTypeOK, Files, JobTypeOK, ToolTypeOK, Activating
<1>2. SelectionTypeOK'
  BY DEF SelectionTypeOK
<1>3. JobTypeOK'
  BY DEF JobTypeOK, Phases, CardTypeOK, Files, Requests, Readable, Cleaning, At, Activating
<1>4. ToolTypeOK'
  BY DEF ToolTypeOK
<1>5. BoundsOK'
  BY DEF BoundsOK
<1>6. Leases'
  BY DEF Leases, Leased, JobTypeOK, Phases, ToolTypeOK, Cleaning
<1>7. Pointed'
  BY DEF Pointed, Whole, CardTypeOK, Files, JobTypeOK, ToolTypeOK, Activating, Evicting, Cleaning
<1>8. Activating'
  BY DEF Activating, Whole, Readable, CardTypeOK, Files, JobTypeOK, Leases, Leased, Evicting
<1>9. Cleaning'
  BY DEF Cleaning, At, MustEvict, Readable, CardTypeOK, Files, JobTypeOK, Activating, Leases, Leased, Evicting
<1>10. Evicting'
  BY DEF Evicting, Retained, CardTypeOK, Files, JobTypeOK, ToolTypeOK, Leases, Leased, Cleaning, At, MustEvict, Readable
<1>. QED BY <1>1, <1>2, <1>3, <1>4, <1>5, <1>6, <1>7, <1>8, <1>9, <1>10

LEMMA FlushTmpInv ==
    ASSUME PacksInv, FlushTmp
    PROVE  PacksInv'
<1>. USE PacksConstants DEF PacksInv, FlushTmp, cardVars, selectionVars, boundVars, storageVars, coordinatorVars, sessionVars, Goto
<1>1. CardTypeOK'
  BY DEF CardTypeOK, Files, JobTypeOK, ToolTypeOK, Activating
<1>2. SelectionTypeOK'
  BY DEF SelectionTypeOK
<1>3. JobTypeOK'
  BY DEF JobTypeOK, Phases, CardTypeOK, Files, Requests, Readable, Cleaning, At, Activating
<1>4. ToolTypeOK'
  BY DEF ToolTypeOK
<1>5. BoundsOK'
  BY DEF BoundsOK
<1>6. Leases'
  BY DEF Leases, Leased, JobTypeOK, Phases, ToolTypeOK, Cleaning
<1>7. Pointed'
  BY DEF Pointed, Whole, CardTypeOK, Files, JobTypeOK, ToolTypeOK, Activating, Evicting, Cleaning
<1>8. Activating'
  BY DEF Activating, Whole, Readable, CardTypeOK, Files, JobTypeOK, Leases, Leased, Evicting
<1>9. Cleaning'
  BY DEF Cleaning, At, MustEvict, Readable, CardTypeOK, Files, JobTypeOK, Activating, Leases, Leased, Evicting
<1>10. Evicting'
  BY DEF Evicting, Retained, CardTypeOK, Files, JobTypeOK, ToolTypeOK, Leases, Leased, Cleaning, At, MustEvict, Readable
<1>. QED BY <1>1, <1>2, <1>3, <1>4, <1>5, <1>6, <1>7, <1>8, <1>9, <1>10

LEMMA BackUpInv ==
    ASSUME PacksInv, BackUp
    PROVE  PacksInv'
<1>. USE PacksConstants DEF PacksInv, BackUp, cardVars, selectionVars, boundVars, storageVars, coordinatorVars, sessionVars, Goto
<1>1. CardTypeOK'
  BY DEF CardTypeOK, Files, JobTypeOK, ToolTypeOK, Activating
<1>2. SelectionTypeOK'
  BY DEF SelectionTypeOK
<1>3. JobTypeOK'
  BY DEF JobTypeOK, Phases, CardTypeOK, Files, Requests, Readable, Cleaning, At, Activating
<1>4. ToolTypeOK'
  BY DEF ToolTypeOK
<1>5. BoundsOK'
  BY DEF BoundsOK
<1>6. Leases'
  BY DEF Leases, Leased, JobTypeOK, Phases, ToolTypeOK, Cleaning
<1>7. Pointed'
  BY DEF Pointed, Whole, CardTypeOK, Files, JobTypeOK, ToolTypeOK, Activating, Evicting, Cleaning
<1>8. Activating'
  BY DEF Activating, Whole, Readable, CardTypeOK, Files, JobTypeOK, Leases, Leased, Evicting
<1>9. Cleaning'
  BY DEF Cleaning, At, MustEvict, Readable, CardTypeOK, Files, JobTypeOK, Activating, Leases, Leased, Evicting
<1>10. Evicting'
  BY DEF Evicting, Retained, CardTypeOK, Files, JobTypeOK, ToolTypeOK, Leases, Leased, Cleaning, At, MustEvict, Readable
<1>. QED BY <1>1, <1>2, <1>3, <1>4, <1>5, <1>6, <1>7, <1>8, <1>9, <1>10

LEMMA PublishInv ==
    ASSUME PacksInv, Publish
    PROVE  PacksInv'
<1>. USE PacksConstants DEF PacksInv, Publish, cardVars, selectionVars, boundVars, storageVars, coordinatorVars, sessionVars, CloseThen
<1>1. CardTypeOK'
  BY DEF CardTypeOK, Files, JobTypeOK, ToolTypeOK, Activating
<1>2. SelectionTypeOK'
  BY DEF SelectionTypeOK
<1>3. JobTypeOK'
  BY DEF JobTypeOK, Phases, CardTypeOK, Files, Requests, Readable, Cleaning, At, Activating
<1>4. ToolTypeOK'
  BY DEF ToolTypeOK
<1>5. BoundsOK'
  BY DEF BoundsOK
<1>6. Leases'
  BY DEF Leases, Leased, JobTypeOK, Phases, ToolTypeOK, Cleaning
<1>7. Pointed'
  BY DEF Pointed, Whole, CardTypeOK, Files, JobTypeOK, ToolTypeOK, Activating, Evicting, Cleaning
<1>8. Activating'
  BY DEF Activating, Whole, Readable, CardTypeOK, Files, JobTypeOK, Leases, Leased, Evicting
<1>9. Cleaning'
  BY DEF Cleaning, At, MustEvict, Readable, CardTypeOK, Files, JobTypeOK, Activating, Leases, Leased, Evicting
<1>10. Evicting'
  BY DEF Evicting, Retained, CardTypeOK, Files, JobTypeOK, ToolTypeOK, Leases, Leased, Cleaning, At, MustEvict, Readable
<1>. QED BY <1>1, <1>2, <1>3, <1>4, <1>5, <1>6, <1>7, <1>8, <1>9, <1>10

LEMMA PublishFailsInv ==
    ASSUME PacksInv, PublishFails
    PROVE  PacksInv'
<1>. USE PacksConstants DEF PacksInv, PublishFails, cardVars, selectionVars, boundVars, storageVars, coordinatorVars, sessionVars, Goto, Fault
<1>1. CardTypeOK'
  BY DEF CardTypeOK, Files, JobTypeOK, ToolTypeOK, Activating
<1>2. SelectionTypeOK'
  BY DEF SelectionTypeOK
<1>3. JobTypeOK'
  BY DEF JobTypeOK, Phases, CardTypeOK, Files, Requests, Readable, Cleaning, At, Activating
<1>4. ToolTypeOK'
  BY DEF ToolTypeOK
<1>5. BoundsOK'
  BY DEF BoundsOK
<1>6. Leases'
  BY DEF Leases, Leased, JobTypeOK, Phases, ToolTypeOK, Cleaning
<1>7. Pointed'
  BY DEF Pointed, Whole, CardTypeOK, Files, JobTypeOK, ToolTypeOK, Activating, Evicting, Cleaning
<1>8. Activating'
  BY DEF Activating, Whole, Readable, CardTypeOK, Files, JobTypeOK, Leases, Leased, Evicting
<1>9. Cleaning'
  BY DEF Cleaning, At, MustEvict, Readable, CardTypeOK, Files, JobTypeOK, Activating, Leases, Leased, Evicting
<1>10. Evicting'
  BY DEF Evicting, Retained, CardTypeOK, Files, JobTypeOK, ToolTypeOK, Leases, Leased, Cleaning, At, MustEvict, Readable
<1>. QED BY <1>1, <1>2, <1>3, <1>4, <1>5, <1>6, <1>7, <1>8, <1>9, <1>10

LEMMA RestorePointerInv ==
    ASSUME PacksInv, RestorePointer
    PROVE  PacksInv'
<1>. USE PacksConstants DEF PacksInv, RestorePointer, cardVars, selectionVars, boundVars, storageVars, coordinatorVars, sessionVars, CloseFailed
<1>1. CardTypeOK'
  BY DEF CardTypeOK, Files, JobTypeOK, ToolTypeOK, Activating
<1>2. SelectionTypeOK'
  BY DEF SelectionTypeOK
<1>3. JobTypeOK'
  BY DEF JobTypeOK, Phases, CardTypeOK, Files, Requests, Readable, Cleaning, At, Activating
<1>4. ToolTypeOK'
  BY DEF ToolTypeOK
<1>5. BoundsOK'
  BY DEF BoundsOK
<1>6. Leases'
  BY DEF Leases, Leased, JobTypeOK, Phases, ToolTypeOK, Cleaning
<1>7. Pointed'
  BY DEF Pointed, Whole, CardTypeOK, Files, JobTypeOK, ToolTypeOK, Activating, Evicting, Cleaning
<1>8. Activating'
  BY DEF Activating, Whole, Readable, CardTypeOK, Files, JobTypeOK, Leases, Leased, Evicting
<1>9. Cleaning'
  BY DEF Cleaning, At, MustEvict, Readable, CardTypeOK, Files, JobTypeOK, Activating, Leases, Leased, Evicting
<1>10. Evicting'
  BY DEF Evicting, Retained, CardTypeOK, Files, JobTypeOK, ToolTypeOK, Leases, Leased, Cleaning, At, MustEvict, Readable
<1>. QED BY <1>1, <1>2, <1>3, <1>4, <1>5, <1>6, <1>7, <1>8, <1>9, <1>10

LEMMA PointerFailsInv ==
    ASSUME PacksInv, PointerFails
    PROVE  PacksInv'
<1>. USE PacksConstants DEF PacksInv, PointerFails, cardVars, selectionVars, boundVars, storageVars, coordinatorVars, sessionVars, Fault, CloseFailed
<1>1. CardTypeOK'
  BY DEF CardTypeOK, Files, JobTypeOK, ToolTypeOK, Activating
<1>2. SelectionTypeOK'
  BY DEF SelectionTypeOK
<1>3. JobTypeOK'
  BY DEF JobTypeOK, Phases, CardTypeOK, Files, Requests, Readable, Cleaning, At, Activating
<1>4. ToolTypeOK'
  BY DEF ToolTypeOK
<1>5. BoundsOK'
  BY DEF BoundsOK
<1>6. Leases'
  BY DEF Leases, Leased, JobTypeOK, Phases, ToolTypeOK, Cleaning
<1>7. Pointed'
  BY DEF Pointed, Whole, CardTypeOK, Files, JobTypeOK, ToolTypeOK, Activating, Evicting, Cleaning
<1>8. Activating'
  BY DEF Activating, Whole, Readable, CardTypeOK, Files, JobTypeOK, Leases, Leased, Evicting
<1>9. Cleaning'
  BY DEF Cleaning, At, MustEvict, Readable, CardTypeOK, Files, JobTypeOK, Activating, Leases, Leased, Evicting
<1>10. Evicting'
  BY DEF Evicting, Retained, CardTypeOK, Files, JobTypeOK, ToolTypeOK, Leases, Leased, Cleaning, At, MustEvict, Readable
<1>. QED BY <1>1, <1>2, <1>3, <1>4, <1>5, <1>6, <1>7, <1>8, <1>9, <1>10

LEMMA SyncReleaseSdInv ==
    ASSUME PacksInv, SyncReleaseSd
    PROVE  PacksInv'
<1>. USE PacksConstants DEF PacksInv, SyncReleaseSd, cardVars, selectionVars, boundVars, storageVars, coordinatorVars, sessionVars, ReleaseSd
<1>1. CardTypeOK'
  BY DEF CardTypeOK, Files, JobTypeOK, ToolTypeOK, Activating
<1>2. SelectionTypeOK'
  BY DEF SelectionTypeOK
<1>3. JobTypeOK'
  BY DEF JobTypeOK, Phases, CardTypeOK, Files, Requests, Readable, Cleaning, At, Activating
<1>4. ToolTypeOK'
  BY DEF ToolTypeOK
<1>5. BoundsOK'
  BY DEF BoundsOK
<1>6. Leases'
  BY DEF Leases, Leased, JobTypeOK, Phases, ToolTypeOK, Cleaning
<1>7. Pointed'
  BY DEF Pointed, Whole, CardTypeOK, Files, JobTypeOK, ToolTypeOK, Activating, Evicting, Cleaning
<1>8. Activating'
  BY DEF Activating, Whole, Readable, CardTypeOK, Files, JobTypeOK, Leases, Leased, Evicting
<1>9. Cleaning'
  BY DEF Cleaning, At, MustEvict, Readable, CardTypeOK, Files, JobTypeOK, Activating, Leases, Leased, Evicting
<1>10. Evicting'
  BY DEF Evicting, Retained, CardTypeOK, Files, JobTypeOK, ToolTypeOK, Leases, Leased, Cleaning, At, MustEvict, Readable
<1>. QED BY <1>1, <1>2, <1>3, <1>4, <1>5, <1>6, <1>7, <1>8, <1>9, <1>10

LEMMA SyncReleaseMutationInv ==
    ASSUME PacksInv, SyncReleaseMutation
    PROVE  PacksInv'
<1>. USE PacksConstants DEF PacksInv, SyncReleaseMutation, cardVars, selectionVars, boundVars, storageVars, coordinatorVars, sessionVars, ReleaseMutation, Goto
<1>1. CardTypeOK'
  BY DEF CardTypeOK, Files, JobTypeOK, ToolTypeOK, Activating
<1>2. SelectionTypeOK'
  BY DEF SelectionTypeOK
<1>3. JobTypeOK'
  BY DEF JobTypeOK, Phases, CardTypeOK, Files, Requests, Readable, Cleaning, At, Activating
<1>4. ToolTypeOK'
  BY DEF ToolTypeOK
<1>5. BoundsOK'
  BY DEF BoundsOK
<1>6. Leases'
  BY DEF Leases, Leased, JobTypeOK, Phases, ToolTypeOK, Cleaning
<1>7. Pointed'
  BY DEF Pointed, Whole, CardTypeOK, Files, JobTypeOK, ToolTypeOK, Activating, Evicting, Cleaning
<1>8. Activating'
  BY DEF Activating, Whole, Readable, CardTypeOK, Files, JobTypeOK, Leases, Leased, Evicting
<1>9. Cleaning'
  BY DEF Cleaning, At, MustEvict, Readable, CardTypeOK, Files, JobTypeOK, Activating, Leases, Leased, Evicting
<1>10. Evicting'
  BY DEF Evicting, Retained, CardTypeOK, Files, JobTypeOK, ToolTypeOK, Leases, Leased, Cleaning, At, MustEvict, Readable
<1>. QED BY <1>1, <1>2, <1>3, <1>4, <1>5, <1>6, <1>7, <1>8, <1>9, <1>10

LEMMA EvictPreviousInv ==
    ASSUME PacksInv, EvictPrevious
    PROVE  PacksInv'
<1>. USE PacksConstants DEF PacksInv
<1>1. CASE MayEvict(job.previous, Readable(pointer.active))
  <2>0. /\ job.phase = "cleaning" /\ MustEvict
        /\ job' = [job EXCEPT !.phase = "evicting"]
        /\ UNCHANGED <<pointer, stored, selection, uncertain, tool, requests, faults>>
        /\ ~mutating /\ ~active /\ mutating' = TRUE /\ active' = active
        /\ lease["sync"] = "none" /\ lease' = [lease EXCEPT !["sync"] = "held"]
        /\ ~Retained(job.previous) /\ job.previous \notin {pointer.active, pointer.tmp}
    BY <1>1 DEF EvictPrevious, cardVars, selectionVars, boundVars, storageVars, coordinatorVars, sessionVars, BeginMutation, CanMutate, Goto, MayEvict, RetainedEvictionAllowed, PointersPermitEviction, Retained
  <2>1. CardTypeOK'
    BY <1>1, <2>0 DEF CardTypeOK, Files, JobTypeOK, ToolTypeOK, Activating
  <2>2. SelectionTypeOK'
    BY <1>1, <2>0 DEF SelectionTypeOK
  <2>3. JobTypeOK'
    BY <1>1, <2>0 DEF JobTypeOK, Phases, CardTypeOK, Files, Readable, Cleaning, At, Activating
  <2>4. ToolTypeOK'
    BY <1>1, <2>0 DEF ToolTypeOK
  <2>5. BoundsOK'
    BY <1>1, <2>0 DEF BoundsOK
  <2>6. Leases'
    BY <1>1, <2>0 DEF Leases, Leased, JobTypeOK, Phases, ToolTypeOK, Cleaning
  <2>7. Pointed'
    BY <1>1, <2>0 DEF Pointed, Whole, CardTypeOK, Files, JobTypeOK, ToolTypeOK, Activating, Evicting, Cleaning
  <2>8. Activating'
    BY <1>1, <2>0 DEF Activating, Whole, Readable, CardTypeOK, Files, JobTypeOK, Leases, Leased, Evicting
  <2>9. Cleaning'
    BY <1>1, <2>0 DEF Cleaning, At, MustEvict, Readable, CardTypeOK, Files, JobTypeOK, Activating, Leases, Leased, Evicting
  <2>10. Evicting'
    BY <1>1, <2>0 DEF Evicting, Retained, CardTypeOK, Files, JobTypeOK, ToolTypeOK, Leases, Leased, Cleaning, At, MustEvict, Readable
  <2>. QED BY <2>1, <2>2, <2>3, <2>4, <2>5, <2>6, <2>7, <2>8, <2>9, <2>10
<1>2. CASE ~MayEvict(job.previous, Readable(pointer.active))
  <2>a. job.phase = "cleaning" /\ MustEvict /\ CanMutate
    BY DEF EvictPrevious, BeginMutation
  <2>b. PointersPermitEviction(job.previous, Readable(pointer.active))
    BY <2>a DEF PointersPermitEviction, Readable, Cleaning, At, MustEvict, CardTypeOK, Files
  <2>c. RetainedEvictionAllowed(job.previous) = FALSE
    BY <1>2, <2>b DEF MayEvict, RetainedEvictionAllowed
  <2>d. job' = [job EXCEPT !.phase = "closing", !.next = "done", !.clean = FALSE]
    BY <1>2, <2>c DEF EvictPrevious
  <2>0. /\ job.phase = "cleaning" /\ MustEvict
        /\ job' = [job EXCEPT !.phase = "closing", !.next = "done", !.clean = FALSE]
        /\ UNCHANGED <<pointer, stored, selection, uncertain, tool, requests, faults>>
        /\ ~mutating /\ ~active /\ mutating' = TRUE /\ active' = active
        /\ lease["sync"] = "none" /\ lease' = [lease EXCEPT !["sync"] = "held"]
    BY <2>a, <2>d DEF EvictPrevious, cardVars, selectionVars, boundVars, storageVars, coordinatorVars, sessionVars, BeginMutation, CanMutate
  <2>1. CardTypeOK'
    BY <1>2, <2>0 DEF CardTypeOK, Files, JobTypeOK, ToolTypeOK, Activating
  <2>2. SelectionTypeOK'
    BY <1>2, <2>0 DEF SelectionTypeOK
  <2>3. JobTypeOK'
    BY <1>2, <2>0 DEF JobTypeOK, Phases, CardTypeOK, Files, Readable, Cleaning, At, Activating
  <2>4. ToolTypeOK'
    BY <1>2, <2>0 DEF ToolTypeOK
  <2>5. BoundsOK'
    BY <1>2, <2>0 DEF BoundsOK
  <2>6. Leases'
    BY <1>2, <2>0 DEF Leases, Leased, JobTypeOK, Phases, ToolTypeOK, Cleaning
  <2>7. Pointed'
    BY <1>2, <2>0 DEF Pointed, Whole, CardTypeOK, Files, JobTypeOK, ToolTypeOK, Activating, Evicting, Cleaning
  <2>8. Activating'
    BY <1>2, <2>0 DEF Activating, Whole, Readable, CardTypeOK, Files, JobTypeOK, Leases, Leased, Evicting
  <2>9. Cleaning'
    BY <1>2, <2>0 DEF Cleaning, At, MustEvict, Readable, CardTypeOK, Files, JobTypeOK, Activating, Leases, Leased, Evicting
  <2>10. Evicting'
    BY <1>2, <2>0 DEF Evicting, Retained, CardTypeOK, Files, JobTypeOK, ToolTypeOK, Leases, Leased, Cleaning, At, MustEvict, Readable
  <2>. QED BY <2>1, <2>2, <2>3, <2>4, <2>5, <2>6, <2>7, <2>8, <2>9, <2>10
<1>. QED BY <1>1, <1>2 DEF EvictPrevious

LEMMA PostponeEvictionInv ==
    ASSUME PacksInv, PostponeEviction
    PROVE  PacksInv'
<1>. USE PacksConstants DEF PacksInv, PostponeEviction, cardVars, selectionVars, boundVars, storageVars, coordinatorVars, sessionVars, MustEvict
<1>1. CardTypeOK'
  BY DEF CardTypeOK, Files, JobTypeOK, ToolTypeOK, Activating
<1>2. SelectionTypeOK'
  BY DEF SelectionTypeOK
<1>3. JobTypeOK'
  BY DEF JobTypeOK, Phases, CardTypeOK, Files, Requests, Readable, Cleaning, At, Activating
<1>4. ToolTypeOK'
  BY DEF ToolTypeOK
<1>5. BoundsOK'
  BY DEF BoundsOK
<1>6. Leases'
  BY DEF Leases, Leased, JobTypeOK, Phases, ToolTypeOK, Cleaning
<1>7. Pointed'
  BY DEF Pointed, Whole, CardTypeOK, Files, JobTypeOK, ToolTypeOK, Activating, Evicting, Cleaning
<1>8. Activating'
  BY DEF Activating, Whole, Readable, CardTypeOK, Files, JobTypeOK, Leases, Leased, Evicting
<1>9. Cleaning'
  BY DEF Cleaning, At, MustEvict, Readable, CardTypeOK, Files, JobTypeOK, Activating, Leases, Leased, Evicting
<1>10. Evicting'
  BY DEF Evicting, Retained, CardTypeOK, Files, JobTypeOK, ToolTypeOK, Leases, Leased, Cleaning, At, MustEvict, Readable
<1>. QED BY <1>1, <1>2, <1>3, <1>4, <1>5, <1>6, <1>7, <1>8, <1>9, <1>10

LEMMA NothingToEvictInv ==
    ASSUME PacksInv, NothingToEvict
    PROVE  PacksInv'
<1>. USE PacksConstants DEF PacksInv, NothingToEvict, cardVars, selectionVars, boundVars, storageVars, coordinatorVars, sessionVars, MustEvict, Goto
<1>1. CardTypeOK'
  BY DEF CardTypeOK, Files, JobTypeOK, ToolTypeOK, Activating
<1>2. SelectionTypeOK'
  BY DEF SelectionTypeOK
<1>3. JobTypeOK'
  BY DEF JobTypeOK, Phases, CardTypeOK, Files, Requests, Readable, Cleaning, At, Activating
<1>4. ToolTypeOK'
  BY DEF ToolTypeOK
<1>5. BoundsOK'
  BY DEF BoundsOK
<1>6. Leases'
  BY DEF Leases, Leased, JobTypeOK, Phases, ToolTypeOK, Cleaning
<1>7. Pointed'
  BY DEF Pointed, Whole, CardTypeOK, Files, JobTypeOK, ToolTypeOK, Activating, Evicting, Cleaning
<1>8. Activating'
  BY DEF Activating, Whole, Readable, CardTypeOK, Files, JobTypeOK, Leases, Leased, Evicting
<1>9. Cleaning'
  BY DEF Cleaning, At, MustEvict, Readable, CardTypeOK, Files, JobTypeOK, Activating, Leases, Leased, Evicting
<1>10. Evicting'
  BY DEF Evicting, Retained, CardTypeOK, Files, JobTypeOK, ToolTypeOK, Leases, Leased, Cleaning, At, MustEvict, Readable
<1>. QED BY <1>1, <1>2, <1>3, <1>4, <1>5, <1>6, <1>7, <1>8, <1>9, <1>10

LEMMA UnlinkPreviousInv ==
    ASSUME PacksInv, UnlinkPrevious
    PROVE  PacksInv'
<1>. USE PacksConstants DEF PacksInv, UnlinkPrevious, cardVars, selectionVars, boundVars, storageVars, coordinatorVars, sessionVars, Unlink
<1>1. CardTypeOK'
  <2>1. PICK a \in stored[job.previous] : stored' = [stored EXCEPT ![job.previous] = @ \ {a}]
    OBVIOUS
  <2>2. stored' \in [Packs -> SUBSET Assets]
    BY <2>1 DEF CardTypeOK
  <2>. QED BY <2>2 DEF CardTypeOK, Files
<1>2. SelectionTypeOK'
  BY DEF SelectionTypeOK
<1>3. JobTypeOK'
  BY DEF JobTypeOK, Phases, CardTypeOK, Files, Requests, Readable, Cleaning, At, Activating
<1>4. ToolTypeOK'
  BY DEF ToolTypeOK
<1>5. BoundsOK'
  BY DEF BoundsOK
<1>6. Leases'
  BY DEF Leases, Leased, JobTypeOK, Phases, ToolTypeOK, Cleaning
<1>7. Pointed'
  BY DEF Pointed, Whole, CardTypeOK, Files, JobTypeOK, ToolTypeOK, Activating, Evicting, Cleaning
<1>8. Activating'
  BY DEF Activating, Whole, Readable, CardTypeOK, Files, JobTypeOK, Leases, Leased, Evicting
<1>9. Cleaning'
  BY DEF Cleaning, At, MustEvict, Readable, CardTypeOK, Files, JobTypeOK, Activating, Leases, Leased, Evicting
<1>10. Evicting'
  BY DEF Evicting, Retained, CardTypeOK, Files, JobTypeOK, ToolTypeOK, Leases, Leased, Cleaning, At, MustEvict, Readable
<1>. QED BY <1>1, <1>2, <1>3, <1>4, <1>5, <1>6, <1>7, <1>8, <1>9, <1>10

LEMMA EvictedInv ==
    ASSUME PacksInv, Evicted
    PROVE  PacksInv'
<1>. USE PacksConstants DEF PacksInv, Evicted, cardVars, selectionVars, boundVars, storageVars, coordinatorVars, sessionVars, CloseThen
<1>1. CardTypeOK'
  BY DEF CardTypeOK, Files, JobTypeOK, ToolTypeOK, Activating
<1>2. SelectionTypeOK'
  BY DEF SelectionTypeOK
<1>3. JobTypeOK'
  BY DEF JobTypeOK, Phases, CardTypeOK, Files, Requests, Readable, Cleaning, At, Activating
<1>4. ToolTypeOK'
  BY DEF ToolTypeOK
<1>5. BoundsOK'
  BY DEF BoundsOK
<1>6. Leases'
  BY DEF Leases, Leased, JobTypeOK, Phases, ToolTypeOK, Cleaning
<1>7. Pointed'
  BY DEF Pointed, Whole, CardTypeOK, Files, JobTypeOK, ToolTypeOK, Activating, Evicting, Cleaning
<1>8. Activating'
  BY DEF Activating, Whole, Readable, CardTypeOK, Files, JobTypeOK, Leases, Leased, Evicting
<1>9. Cleaning'
  BY DEF Cleaning, At, MustEvict, Readable, CardTypeOK, Files, JobTypeOK, Activating, Leases, Leased, Evicting
<1>10. Evicting'
  BY DEF Evicting, Retained, CardTypeOK, Files, JobTypeOK, ToolTypeOK, Leases, Leased, Cleaning, At, MustEvict, Readable
<1>. QED BY <1>1, <1>2, <1>3, <1>4, <1>5, <1>6, <1>7, <1>8, <1>9, <1>10

LEMMA EvictionFailsInv ==
    ASSUME PacksInv, EvictionFails
    PROVE  PacksInv'
<1>. USE PacksConstants DEF PacksInv, EvictionFails, cardVars, selectionVars, boundVars, storageVars, coordinatorVars, sessionVars, Fault, CloseFailed
<1>1. CardTypeOK'
  BY DEF CardTypeOK, Files, JobTypeOK, ToolTypeOK, Activating
<1>2. SelectionTypeOK'
  BY DEF SelectionTypeOK
<1>3. JobTypeOK'
  BY DEF JobTypeOK, Phases, CardTypeOK, Files, Requests, Readable, Cleaning, At, Activating
<1>4. ToolTypeOK'
  BY DEF ToolTypeOK
<1>5. BoundsOK'
  BY DEF BoundsOK
<1>6. Leases'
  BY DEF Leases, Leased, JobTypeOK, Phases, ToolTypeOK, Cleaning
<1>7. Pointed'
  BY DEF Pointed, Whole, CardTypeOK, Files, JobTypeOK, ToolTypeOK, Activating, Evicting, Cleaning
<1>8. Activating'
  BY DEF Activating, Whole, Readable, CardTypeOK, Files, JobTypeOK, Leases, Leased, Evicting
<1>9. Cleaning'
  BY DEF Cleaning, At, MustEvict, Readable, CardTypeOK, Files, JobTypeOK, Activating, Leases, Leased, Evicting
<1>10. Evicting'
  BY DEF Evicting, Retained, CardTypeOK, Files, JobTypeOK, ToolTypeOK, Leases, Leased, Cleaning, At, MustEvict, Readable
<1>. QED BY <1>1, <1>2, <1>3, <1>4, <1>5, <1>6, <1>7, <1>8, <1>9, <1>10

LEMMA UnmarkInv ==
    ASSUME PacksInv, Unmark
    PROVE  PacksInv'
<1>. USE PacksConstants DEF PacksInv, Unmark, cardVars, selectionVars, boundVars, storageVars, coordinatorVars, sessionVars, Goto
<1>1. CardTypeOK'
  BY DEF CardTypeOK, Files, JobTypeOK, ToolTypeOK, Activating
<1>2. SelectionTypeOK'
  BY DEF SelectionTypeOK
<1>3. JobTypeOK'
  BY DEF JobTypeOK, Phases, CardTypeOK, Files, Requests, Readable, Cleaning, At, Activating
<1>4. ToolTypeOK'
  BY DEF ToolTypeOK
<1>5. BoundsOK'
  BY DEF BoundsOK
<1>6. Leases'
  BY DEF Leases, Leased, JobTypeOK, Phases, ToolTypeOK, Cleaning
<1>7. Pointed'
  BY DEF Pointed, Whole, CardTypeOK, Files, JobTypeOK, ToolTypeOK, Activating, Evicting, Cleaning
<1>8. Activating'
  BY DEF Activating, Whole, Readable, CardTypeOK, Files, JobTypeOK, Leases, Leased, Evicting
<1>9. Cleaning'
  BY DEF Cleaning, At, MustEvict, Readable, CardTypeOK, Files, JobTypeOK, Activating, Leases, Leased, Evicting
<1>10. Evicting'
  BY DEF Evicting, Retained, CardTypeOK, Files, JobTypeOK, ToolTypeOK, Leases, Leased, Cleaning, At, MustEvict, Readable
<1>. QED BY <1>1, <1>2, <1>3, <1>4, <1>5, <1>6, <1>7, <1>8, <1>9, <1>10

LEMMA UnmarkFailsInv ==
    ASSUME PacksInv, UnmarkFails
    PROVE  PacksInv'
<1>. USE PacksConstants DEF PacksInv, UnmarkFails, cardVars, selectionVars, boundVars, storageVars, coordinatorVars, sessionVars, Fault
<1>1. CardTypeOK'
  BY DEF CardTypeOK, Files, JobTypeOK, ToolTypeOK, Activating
<1>2. SelectionTypeOK'
  BY DEF SelectionTypeOK
<1>3. JobTypeOK'
  BY DEF JobTypeOK, Phases, CardTypeOK, Files, Requests, Readable, Cleaning, At, Activating
<1>4. ToolTypeOK'
  BY DEF ToolTypeOK
<1>5. BoundsOK'
  BY DEF BoundsOK
<1>6. Leases'
  BY DEF Leases, Leased, JobTypeOK, Phases, ToolTypeOK, Cleaning
<1>7. Pointed'
  BY DEF Pointed, Whole, CardTypeOK, Files, JobTypeOK, ToolTypeOK, Activating, Evicting, Cleaning
<1>8. Activating'
  BY DEF Activating, Whole, Readable, CardTypeOK, Files, JobTypeOK, Leases, Leased, Evicting
<1>9. Cleaning'
  BY DEF Cleaning, At, MustEvict, Readable, CardTypeOK, Files, JobTypeOK, Activating, Leases, Leased, Evicting
<1>10. Evicting'
  BY DEF Evicting, Retained, CardTypeOK, Files, JobTypeOK, ToolTypeOK, Leases, Leased, Cleaning, At, MustEvict, Readable
<1>. QED BY <1>1, <1>2, <1>3, <1>4, <1>5, <1>6, <1>7, <1>8, <1>9, <1>10

LEMMA PollCompletionInv ==
    ASSUME PacksInv, PollCompletion
    PROVE  PacksInv'
<1>. USE PacksConstants DEF PacksInv, PollCompletion, cardVars, selectionVars, boundVars, storageVars, coordinatorVars, sessionVars, NoJob
<1>1. CardTypeOK'
  BY DEF CardTypeOK, Files, JobTypeOK, ToolTypeOK, Activating
<1>2. SelectionTypeOK'
  BY DEF SelectionTypeOK
<1>3. JobTypeOK'
  BY DEF JobTypeOK, Phases, CardTypeOK, Files, Requests, Readable, Cleaning, At, Activating
<1>4. ToolTypeOK'
  BY DEF ToolTypeOK
<1>5. BoundsOK'
  BY DEF BoundsOK
<1>6. Leases'
  BY DEF Leases, Leased, JobTypeOK, Phases, ToolTypeOK, Cleaning
<1>7. Pointed'
  BY DEF Pointed, Whole, CardTypeOK, Files, JobTypeOK, ToolTypeOK, Activating, Evicting, Cleaning
<1>8. Activating'
  BY DEF Activating, Whole, Readable, CardTypeOK, Files, JobTypeOK, Leases, Leased, Evicting
<1>9. Cleaning'
  BY DEF Cleaning, At, MustEvict, Readable, CardTypeOK, Files, JobTypeOK, Activating, Leases, Leased, Evicting
<1>10. Evicting'
  BY DEF Evicting, Retained, CardTypeOK, Files, JobTypeOK, ToolTypeOK, Leases, Leased, Cleaning, At, MustEvict, Readable
<1>. QED BY <1>1, <1>2, <1>3, <1>4, <1>5, <1>6, <1>7, <1>8, <1>9, <1>10

LEMMA ToolEvictInv ==
    ASSUME PacksInv, NEW k \in Packs, ToolEvict(k)
    PROVE  PacksInv'
<1>. USE PacksConstants DEF PacksInv, ToolEvict, cardVars, selectionVars, boundVars, storageVars, coordinatorVars, sessionVars, BeginMutation, CanMutate, MayEvict, RetainedEvictionAllowed, PointersPermitEviction
<1>1. CardTypeOK'
  BY DEF CardTypeOK, Files, JobTypeOK, ToolTypeOK, Activating
<1>2. SelectionTypeOK'
  BY DEF SelectionTypeOK
<1>3. JobTypeOK'
  BY DEF JobTypeOK, Phases, CardTypeOK, Files, Requests, Readable, Cleaning, At, Activating
<1>4. ToolTypeOK'
  BY DEF ToolTypeOK
<1>5. BoundsOK'
  BY DEF BoundsOK
<1>6. Leases'
  BY DEF Leases, Leased, JobTypeOK, Phases, ToolTypeOK, Cleaning
<1>7. Pointed'
  BY DEF Pointed, Whole, CardTypeOK, Files, JobTypeOK, ToolTypeOK, Activating, Evicting, Cleaning
<1>8. Activating'
  BY DEF Activating, Whole, Readable, CardTypeOK, Files, JobTypeOK, Leases, Leased, Evicting
<1>9. Cleaning'
  BY DEF Cleaning, At, MustEvict, Readable, CardTypeOK, Files, JobTypeOK, Activating, Leases, Leased, Evicting
<1>10. Evicting'
  BY DEF Evicting, Retained, CardTypeOK, Files, JobTypeOK, ToolTypeOK, Leases, Leased, Cleaning, At, MustEvict, Readable
<1>. QED BY <1>1, <1>2, <1>3, <1>4, <1>5, <1>6, <1>7, <1>8, <1>9, <1>10

LEMMA ToolUnlinkInv ==
    ASSUME PacksInv, ToolUnlink
    PROVE  PacksInv'
<1>. USE PacksConstants DEF PacksInv, ToolUnlink, cardVars, selectionVars, boundVars, storageVars, coordinatorVars, sessionVars, Unlink
<1>1. CardTypeOK'
  <2>1. PICK a \in stored[tool.key] : stored' = [stored EXCEPT ![tool.key] = @ \ {a}]
    OBVIOUS
  <2>2. stored' \in [Packs -> SUBSET Assets]
    BY <2>1 DEF CardTypeOK
  <2>. QED BY <2>2 DEF CardTypeOK, Files
<1>2. SelectionTypeOK'
  BY DEF SelectionTypeOK
<1>3. JobTypeOK'
  BY DEF JobTypeOK, Phases, CardTypeOK, Files, Requests, Readable, Cleaning, At, Activating
<1>4. ToolTypeOK'
  BY DEF ToolTypeOK
<1>5. BoundsOK'
  BY DEF BoundsOK
<1>6. Leases'
  BY DEF Leases, Leased, JobTypeOK, Phases, ToolTypeOK, Cleaning
<1>7. Pointed'
  BY DEF Pointed, Whole, CardTypeOK, Files, JobTypeOK, ToolTypeOK, Activating, Evicting, Cleaning
<1>8. Activating'
  BY DEF Activating, Whole, Readable, CardTypeOK, Files, JobTypeOK, Leases, Leased, Evicting
<1>9. Cleaning'
  BY DEF Cleaning, At, MustEvict, Readable, CardTypeOK, Files, JobTypeOK, Activating, Leases, Leased, Evicting
<1>10. Evicting'
  BY DEF Evicting, Retained, CardTypeOK, Files, JobTypeOK, ToolTypeOK, Leases, Leased, Cleaning, At, MustEvict, Readable
<1>. QED BY <1>1, <1>2, <1>3, <1>4, <1>5, <1>6, <1>7, <1>8, <1>9, <1>10

LEMMA ToolEvictedInv ==
    ASSUME PacksInv, ToolEvicted
    PROVE  PacksInv'
<1>. USE PacksConstants DEF PacksInv, ToolEvicted, cardVars, selectionVars, boundVars, storageVars, coordinatorVars, sessionVars, Fault, ToolCloses
<1>1. CardTypeOK'
  BY DEF CardTypeOK, Files, JobTypeOK, ToolTypeOK, Activating
<1>2. SelectionTypeOK'
  BY DEF SelectionTypeOK
<1>3. JobTypeOK'
  BY DEF JobTypeOK, Phases, CardTypeOK, Files, Requests, Readable, Cleaning, At, Activating
<1>4. ToolTypeOK'
  BY DEF ToolTypeOK
<1>5. BoundsOK'
  BY DEF BoundsOK
<1>6. Leases'
  BY DEF Leases, Leased, JobTypeOK, Phases, ToolTypeOK, Cleaning
<1>7. Pointed'
  BY DEF Pointed, Whole, CardTypeOK, Files, JobTypeOK, ToolTypeOK, Activating, Evicting, Cleaning
<1>8. Activating'
  BY DEF Activating, Whole, Readable, CardTypeOK, Files, JobTypeOK, Leases, Leased, Evicting
<1>9. Cleaning'
  BY DEF Cleaning, At, MustEvict, Readable, CardTypeOK, Files, JobTypeOK, Activating, Leases, Leased, Evicting
<1>10. Evicting'
  BY DEF Evicting, Retained, CardTypeOK, Files, JobTypeOK, ToolTypeOK, Leases, Leased, Cleaning, At, MustEvict, Readable
<1>. QED BY <1>1, <1>2, <1>3, <1>4, <1>5, <1>6, <1>7, <1>8, <1>9, <1>10

LEMMA ToolBeginInv ==
    ASSUME PacksInv, ToolBegin
    PROVE  PacksInv'
<1>. USE PacksConstants DEF PacksInv, ToolBegin, cardVars, selectionVars, boundVars, storageVars, coordinatorVars, sessionVars, BeginMutation, CanMutate
<1>1. CardTypeOK'
  BY DEF CardTypeOK, Files, JobTypeOK, ToolTypeOK, Activating
<1>2. SelectionTypeOK'
  BY DEF SelectionTypeOK
<1>3. JobTypeOK'
  BY DEF JobTypeOK, Phases, CardTypeOK, Files, Requests, Readable, Cleaning, At, Activating
<1>4. ToolTypeOK'
  BY DEF ToolTypeOK
<1>5. BoundsOK'
  BY DEF BoundsOK
<1>6. Leases'
  BY DEF Leases, Leased, JobTypeOK, Phases, ToolTypeOK, Cleaning
<1>7. Pointed'
  BY DEF Pointed, Whole, CardTypeOK, Files, JobTypeOK, ToolTypeOK, Activating, Evicting, Cleaning
<1>8. Activating'
  BY DEF Activating, Whole, Readable, CardTypeOK, Files, JobTypeOK, Leases, Leased, Evicting
<1>9. Cleaning'
  BY DEF Cleaning, At, MustEvict, Readable, CardTypeOK, Files, JobTypeOK, Activating, Leases, Leased, Evicting
<1>10. Evicting'
  BY DEF Evicting, Retained, CardTypeOK, Files, JobTypeOK, ToolTypeOK, Leases, Leased, Cleaning, At, MustEvict, Readable
<1>. QED BY <1>1, <1>2, <1>3, <1>4, <1>5, <1>6, <1>7, <1>8, <1>9, <1>10

LEMMA ToolApplyInv ==
    ASSUME PacksInv, ToolApply
    PROVE  PacksInv'
<1>. USE PacksConstants DEF PacksInv, ToolApply, cardVars, selectionVars, boundVars, storageVars, coordinatorVars, sessionVars, ApplyRetainedSelection, Accepts, Fault, ToolCloses
<1>1. CardTypeOK'
  BY DEF CardTypeOK, Files, JobTypeOK, ToolTypeOK, Activating
<1>2. SelectionTypeOK'
  <2>1. PICK revision \in 1..MaxRevision, s \in Selections, release \in BOOLEAN :
            ApplyRetainedSelection(revision, s, release)
    OBVIOUS
  <2>2. [revision |-> revision, held |-> ~release, owner |-> s]
            \in [revision: 0..MaxRevision, held: BOOLEAN, owner: Selections \cup {NoSelection}]
    OBVIOUS
  <2>3. /\ selection' \in {selection, [revision |-> revision, held |-> ~release, owner |-> s]}
        /\ uncertain' \in {uncertain, TRUE}
    BY <2>1
  <2>. QED BY <2>2, <2>3 DEF SelectionTypeOK
<1>3. JobTypeOK'
  BY DEF JobTypeOK, Phases, CardTypeOK, Files, Requests, Readable, Cleaning, At, Activating
<1>4. ToolTypeOK'
  BY DEF ToolTypeOK
<1>5. BoundsOK'
  BY DEF BoundsOK
<1>6. Leases'
  BY DEF Leases, Leased, JobTypeOK, Phases, ToolTypeOK, Cleaning
<1>7. Pointed'
  BY DEF Pointed, Whole, CardTypeOK, Files, JobTypeOK, ToolTypeOK, Activating, Evicting, Cleaning
<1>8. Activating'
  BY DEF Activating, Whole, Readable, CardTypeOK, Files, JobTypeOK, Leases, Leased, Evicting
<1>9. Cleaning'
  BY DEF Cleaning, At, MustEvict, Readable, CardTypeOK, Files, JobTypeOK, Activating, Leases, Leased, Evicting
<1>10. Evicting'
  BY DEF Evicting, Retained, CardTypeOK, Files, JobTypeOK, ToolTypeOK, Leases, Leased, Cleaning, At, MustEvict, Readable
<1>. QED BY <1>1, <1>2, <1>3, <1>4, <1>5, <1>6, <1>7, <1>8, <1>9, <1>10

LEMMA ToolDoneInv ==
    ASSUME PacksInv, ToolDone
    PROVE  PacksInv'
<1>. USE PacksConstants DEF PacksInv, ToolDone, cardVars, selectionVars, boundVars, storageVars, coordinatorVars, sessionVars, ToolCloses
<1>1. CardTypeOK'
  BY DEF CardTypeOK, Files, JobTypeOK, ToolTypeOK, Activating
<1>2. SelectionTypeOK'
  BY DEF SelectionTypeOK
<1>3. JobTypeOK'
  BY DEF JobTypeOK, Phases, CardTypeOK, Files, Requests, Readable, Cleaning, At, Activating
<1>4. ToolTypeOK'
  BY DEF ToolTypeOK
<1>5. BoundsOK'
  BY DEF BoundsOK
<1>6. Leases'
  BY DEF Leases, Leased, JobTypeOK, Phases, ToolTypeOK, Cleaning
<1>7. Pointed'
  BY DEF Pointed, Whole, CardTypeOK, Files, JobTypeOK, ToolTypeOK, Activating, Evicting, Cleaning
<1>8. Activating'
  BY DEF Activating, Whole, Readable, CardTypeOK, Files, JobTypeOK, Leases, Leased, Evicting
<1>9. Cleaning'
  BY DEF Cleaning, At, MustEvict, Readable, CardTypeOK, Files, JobTypeOK, Activating, Leases, Leased, Evicting
<1>10. Evicting'
  BY DEF Evicting, Retained, CardTypeOK, Files, JobTypeOK, ToolTypeOK, Leases, Leased, Cleaning, At, MustEvict, Readable
<1>. QED BY <1>1, <1>2, <1>3, <1>4, <1>5, <1>6, <1>7, <1>8, <1>9, <1>10

LEMMA ToolReleaseSdInv ==
    ASSUME PacksInv, ToolReleaseSd
    PROVE  PacksInv'
<1>. USE PacksConstants DEF PacksInv, ToolReleaseSd, cardVars, selectionVars, boundVars, storageVars, coordinatorVars, sessionVars, ReleaseSd
<1>1. CardTypeOK'
  BY DEF CardTypeOK, Files, JobTypeOK, ToolTypeOK, Activating
<1>2. SelectionTypeOK'
  BY DEF SelectionTypeOK
<1>3. JobTypeOK'
  BY DEF JobTypeOK, Phases, CardTypeOK, Files, Requests, Readable, Cleaning, At, Activating
<1>4. ToolTypeOK'
  BY DEF ToolTypeOK
<1>5. BoundsOK'
  BY DEF BoundsOK
<1>6. Leases'
  BY DEF Leases, Leased, JobTypeOK, Phases, ToolTypeOK, Cleaning
<1>7. Pointed'
  BY DEF Pointed, Whole, CardTypeOK, Files, JobTypeOK, ToolTypeOK, Activating, Evicting, Cleaning
<1>8. Activating'
  BY DEF Activating, Whole, Readable, CardTypeOK, Files, JobTypeOK, Leases, Leased, Evicting
<1>9. Cleaning'
  BY DEF Cleaning, At, MustEvict, Readable, CardTypeOK, Files, JobTypeOK, Activating, Leases, Leased, Evicting
<1>10. Evicting'
  BY DEF Evicting, Retained, CardTypeOK, Files, JobTypeOK, ToolTypeOK, Leases, Leased, Cleaning, At, MustEvict, Readable
<1>. QED BY <1>1, <1>2, <1>3, <1>4, <1>5, <1>6, <1>7, <1>8, <1>9, <1>10

LEMMA ToolReleaseMutationInv ==
    ASSUME PacksInv, ToolReleaseMutation
    PROVE  PacksInv'
<1>. USE PacksConstants DEF PacksInv, ToolReleaseMutation, cardVars, selectionVars, boundVars, storageVars, coordinatorVars, sessionVars, ReleaseMutation, NoTool
<1>1. CardTypeOK'
  BY DEF CardTypeOK, Files, JobTypeOK, ToolTypeOK, Activating
<1>2. SelectionTypeOK'
  BY DEF SelectionTypeOK
<1>3. JobTypeOK'
  BY DEF JobTypeOK, Phases, CardTypeOK, Files, Requests, Readable, Cleaning, At, Activating
<1>4. ToolTypeOK'
  BY DEF ToolTypeOK
<1>5. BoundsOK'
  BY DEF BoundsOK
<1>6. Leases'
  BY DEF Leases, Leased, JobTypeOK, Phases, ToolTypeOK, Cleaning
<1>7. Pointed'
  BY DEF Pointed, Whole, CardTypeOK, Files, JobTypeOK, ToolTypeOK, Activating, Evicting, Cleaning
<1>8. Activating'
  BY DEF Activating, Whole, Readable, CardTypeOK, Files, JobTypeOK, Leases, Leased, Evicting
<1>9. Cleaning'
  BY DEF Cleaning, At, MustEvict, Readable, CardTypeOK, Files, JobTypeOK, Activating, Leases, Leased, Evicting
<1>10. Evicting'
  BY DEF Evicting, Retained, CardTypeOK, Files, JobTypeOK, ToolTypeOK, Leases, Leased, Cleaning, At, MustEvict, Readable
<1>. QED BY <1>1, <1>2, <1>3, <1>4, <1>5, <1>6, <1>7, <1>8, <1>9, <1>10

LEMMA LessonStepInv ==
    ASSUME PacksInv, LessonStep
    PROVE  PacksInv'
<1>. USE PacksConstants DEF PacksInv, LessonStep, cardVars, selectionVars, boundVars, storageVars, coordinatorVars, sessionVars, BeginSession, CanBegin, EndSession, CanEnd, Close, mutationVars
<1>1. CardTypeOK'
  BY DEF CardTypeOK, Files, JobTypeOK, ToolTypeOK, Activating
<1>2. SelectionTypeOK'
  BY DEF SelectionTypeOK
<1>3. JobTypeOK'
  BY DEF JobTypeOK, Phases, CardTypeOK, Files, Requests, Readable, Cleaning, At, Activating
<1>4. ToolTypeOK'
  BY DEF ToolTypeOK
<1>5. BoundsOK'
  BY DEF BoundsOK
<1>6. Leases'
  <2>1. lease' = lease /\ mutating' = mutating /\ job' = job /\ tool' = tool
    OBVIOUS
  <2>2. active' \in BOOLEAN /\ (mutating => ~active')
    BY DEF Leases
  <2>. QED BY <2>1, <2>2, Zenon DEF Leases, Leased
<1>7. Pointed'
  BY DEF Pointed, Whole, CardTypeOK, Files, JobTypeOK, ToolTypeOK, Activating, Evicting, Cleaning
<1>8. Activating'
  BY DEF Activating, Whole, Readable, CardTypeOK, Files, JobTypeOK, Leases, Leased, Evicting
<1>9. Cleaning'
  BY DEF Cleaning, At, MustEvict, Readable, CardTypeOK, Files, JobTypeOK, Activating, Leases, Leased, Evicting
<1>10. Evicting'
  BY DEF Evicting, Retained, CardTypeOK, Files, JobTypeOK, ToolTypeOK, Leases, Leased, Cleaning, At, MustEvict, Readable
<1>. QED BY <1>1, <1>2, <1>3, <1>4, <1>5, <1>6, <1>7, <1>8, <1>9, <1>10

LEMMA LosePowerInv ==
    ASSUME PacksInv, LosePower
    PROVE  PacksInv'
<1>. USE PacksConstants DEF PacksInv, LosePower, cardVars, selectionVars, boundVars, storageVars, coordinatorVars, sessionVars, Fault, NoJob, NoTool
<1>1. CardTypeOK'
  BY DEF CardTypeOK, Files, JobTypeOK, ToolTypeOK, Activating
<1>2. SelectionTypeOK'
  BY DEF SelectionTypeOK
<1>3. JobTypeOK'
  BY DEF JobTypeOK, Phases, CardTypeOK, Files, Requests, Readable, Cleaning, At, Activating
<1>4. ToolTypeOK'
  BY DEF ToolTypeOK
<1>5. BoundsOK'
  BY DEF BoundsOK
<1>6. Leases'
  BY DEF Leases, Leased, JobTypeOK, Phases, ToolTypeOK, Cleaning
<1>7. Pointed'
  BY DEF Pointed, Whole, CardTypeOK, Files, JobTypeOK, ToolTypeOK, Activating, Evicting, Cleaning
<1>8. Activating'
  BY DEF Activating, Whole, Readable, CardTypeOK, Files, JobTypeOK, Leases, Leased, Evicting
<1>9. Cleaning'
  BY DEF Cleaning, At, MustEvict, Readable, CardTypeOK, Files, JobTypeOK, Activating, Leases, Leased, Evicting
<1>10. Evicting'
  BY DEF Evicting, Retained, CardTypeOK, Files, JobTypeOK, ToolTypeOK, Leases, Leased, Cleaning, At, MustEvict, Readable
<1>. QED BY <1>1, <1>2, <1>3, <1>4, <1>5, <1>6, <1>7, <1>8, <1>9, <1>10

LEMMA StepInv == PacksInv /\ [PacksNext]_packVars => PacksInv'
<1>. SUFFICES ASSUME PacksInv, [PacksNext]_packVars PROVE PacksInv'
  OBVIOUS
<1>1. CASE UNCHANGED packVars
  <2>. USE <1>1 DEF PacksInv, packVars, cardVars, selectionVars, boundVars, storageVars, coordinatorVars, sessionVars, mutationVars
  <2>1. CardTypeOK' /\ SelectionTypeOK' /\ JobTypeOK' /\ ToolTypeOK' /\ BoundsOK'
    BY DEF CardTypeOK, SelectionTypeOK, JobTypeOK, ToolTypeOK, BoundsOK
  <2>2. Leases' /\ Pointed' /\ Activating' /\ Evicting'
    BY DEF Leases, Pointed, Whole, Activating, Readable, Evicting, Retained
  <2>3. Cleaning'
    BY DEF Cleaning, At, MustEvict
  <2>. QED BY <2>1, <2>2, <2>3
<1>2. CASE SyncStep
  <2>1. CASE ActivateStep
    BY <2>1, RecoverInv, DecideInv, CreateTmpInv, FlushTmpInv, BackUpInv, PublishInv,
       PublishFailsInv, RestorePointerInv, PointerFailsInv
       DEF ActivateStep
  <2>2. CASE CleanupStep
    BY <2>2, EvictPreviousInv, PostponeEvictionInv, NothingToEvictInv, UnlinkPreviousInv,
       EvictedInv, EvictionFailsInv, UnmarkInv, UnmarkFailsInv
       DEF CleanupStep
  <2>. QED BY <1>2, <2>1, <2>2, StartSyncInv, RefuseSyncInv, StoreAssetInv, FailAssetInv, FinishStoringInv,
       SyncReleaseSdInv, SyncReleaseMutationInv
       DEF SyncStep
<1>3. CASE ToolStep
  BY <1>3, ToolUnlinkInv, ToolEvictedInv, ToolApplyInv, ToolDoneInv, ToolReleaseSdInv,
     ToolReleaseMutationInv DEF ToolStep
<1>. QED
  BY <1>1, <1>2, <1>3, RequestSyncInv, PollCompletionInv, ToolEvictInv, ToolBeginInv, LessonStepInv,
     LosePowerInv DEF PacksNext

\* The invariant holds in every state of the card and those at work on it.
THEOREM PacksInvariant == PacksSpec => []PacksInv
<1>. QED BY InitInv, StepInv, PTL DEF PacksSpec

\* The card, the record and the worker keep to the values of their types.
THEOREM PacksTypes == PacksSpec => []PacksTypeOK
<1>1. PacksInv => PacksTypeOK
  BY DEF PacksInv, CardTypeOK, Files, SelectionTypeOK, JobTypeOK, Phases, ToolTypeOK, BoundsOK, PacksTypeOK
<1>. QED BY <1>1, PacksInvariant, PTL

\* Whatever pack a restart comes to show is whole on the card (the pointer
\* writes of ActivateLessonAssetPack, PointersPermitEviction).
THEOREM PointedPacksAreWhole == PacksSpec => []PointedPacksWhole
<1>1. PacksInv => PointedPacksWhole
  BY PacksConstants DEF PacksInv, CardTypeOK, Files, Pointed, Whole, PointedPacksWhole, Shown, Readable
<1>. QED BY <1>1, PacksInvariant, PTL

\* Two undisturbed requests for a pack make it the active one
\* (EvictPreviousLessonAssetPackAfterActivation clears the way).
THEOREM UndisturbedSyncsConverge == PacksSpec => []UndisturbedSyncConverges
<1>1. PacksInv => UndisturbedSyncConverges
  BY DEF PacksInv, Cleaning, At, UndisturbedSyncConverges
<1>. QED BY <1>1, PacksInvariant, PTL

-----------------------------------------------------------------------------
(* What a step may do to the card. *)

\* The steps that write a file.
PointerWrite ==
    Recover \/ Decide \/ CreateTmp \/ FlushTmp \/ BackUp \/ Publish \/ RestorePointer \/ PointerFails \/ Unmark

AssetWrite == StoreAsset \/ UnlinkPrevious \/ ToolUnlink

LEMMA CardFrame ==
    ASSUME [PacksNext]_packVars
    PROVE  PointerWrite \/ AssetWrite \/ UNCHANGED cardVars
<1>1. CASE UNCHANGED packVars
  BY <1>1 DEF packVars
<1>2. CASE SyncStep
  <2>1. StartSync \/ RefuseSync \/ FailAsset \/ FinishStoring \/ SyncReleaseSd \/ SyncReleaseMutation
            => UNCHANGED cardVars
    BY DEF StartSync, RefuseSync, FailAsset, FinishStoring, SyncReleaseSd, SyncReleaseMutation
  <2>3. CASE ActivateStep
    <3>1. PublishFails => UNCHANGED cardVars
      BY DEF PublishFails
    <3>. QED BY <2>3, <3>1, Zenon DEF ActivateStep, PointerWrite
  <2>4. CASE CleanupStep
    <3>1. EvictPrevious \/ PostponeEviction \/ NothingToEvict => UNCHANGED cardVars
      BY DEF EvictPrevious, PostponeEviction, NothingToEvict
    <3>2. Evicted \/ EvictionFails \/ UnmarkFails => UNCHANGED cardVars
      BY DEF Evicted, EvictionFails, UnmarkFails
    <3>. QED BY <2>4, <3>1, <3>2, Zenon DEF CleanupStep, PointerWrite, AssetWrite
  <2>. QED BY <1>2, <2>1, <2>3, <2>4 DEF SyncStep, AssetWrite
<1>3. CASE ToolStep
  BY <1>3 DEF ToolStep, ToolEvicted, ToolApply, ToolDone, ToolReleaseSd, ToolReleaseMutation, AssetWrite
<1>4. PollCompletion \/ ToolBegin \/ LessonStep \/ LosePower => UNCHANGED cardVars
  BY DEF PollCompletion, ToolBegin, LessonStep, LosePower
<1>5. /\ \A r \in Requests : RequestSync(r) => UNCHANGED cardVars
      /\ \A k \in Packs : ToolEvict(k) => UNCHANGED cardVars
  BY DEF RequestSync, ToolEvict
<1>. QED BY <1>1, <1>2, <1>3, <1>4, <1>5 DEF PacksNext

LEMMA AssetWriteFrame ==
    ASSUME PacksInv, AssetWrite
    PROVE  /\ UNCHANGED <<pointer, selection>>
           /\ lease["sync"] = "held" \/ lease["tool"] = "held"
           /\ \E k \in Packs : \E a \in Assets :
                 \/ k = job.key /\ stored' = [stored EXCEPT ![k] = @ \cup {a}]
                 \/ /\ stored' = [stored EXCEPT ![k] = @ \ {a}]
                    /\ ~Retained(k) /\ k # Shown /\ a \in stored[k]
<1>. USE PacksConstants DEF PacksInv
<1>1. CASE StoreAsset
  BY <1>1 DEF StoreAsset, selectionVars, Leases, Leased, Activating
<1>2. CASE UnlinkPrevious
  <2>1. /\ job.phase = "evicting" /\ job.previous \in Packs
        /\ UNCHANGED <<pointer, selection>>
    BY <1>2 DEF UnlinkPrevious, Unlink, selectionVars, Evicting
  <2>2. PICK a \in stored[job.previous] : stored' = [stored EXCEPT ![job.previous] = @ \ {a}]
    BY <1>2 DEF UnlinkPrevious, Unlink
  <2>3. a \in Assets
    BY <2>1, <2>2 DEF CardTypeOK
  <2>4. ~Retained(job.previous) /\ job.previous # Shown /\ lease["sync"] = "held"
    BY <2>1 DEF Evicting, Cleaning, At, Shown, Readable, Leases, Leased
  <2>. QED BY <2>1, <2>2, <2>3, <2>4
<1>3. CASE ToolUnlink
  <2>1. /\ tool.phase = "evicting" /\ tool.key \in Packs
        /\ UNCHANGED <<pointer, selection>>
    BY <1>3 DEF ToolUnlink, Unlink, selectionVars, Evicting
  <2>2. PICK a \in stored[tool.key] : stored' = [stored EXCEPT ![tool.key] = @ \ {a}]
    BY <1>3 DEF ToolUnlink, Unlink
  <2>3. a \in Assets
    BY <2>1, <2>2 DEF CardTypeOK
  <2>4. ~Retained(tool.key) /\ tool.key # Shown /\ lease["tool"] = "held"
    BY <2>1 DEF Evicting, Shown, Readable, Leases
  <2>. QED BY <2>1, <2>2, <2>3, <2>4
<1>. QED BY <1>1, <1>2, <1>3 DEF AssetWrite

LEMMA PointerWriteFrame ==
    ASSUME PacksInv, PointerWrite
    PROVE  /\ stored' = stored
           /\ Shown' # Shown => Shown' \in Packs /\ Whole(Shown')
           /\ pointer.backup \in Packs /\ pointer'.backup = Missing =>
                  \/ stored[pointer.backup] = {} \/ pointer.backup = job.key \/ pointer.backup = Shown'
<1>. USE PacksConstants DEF PacksInv, Shown, Readable, CardTypeOK, Files, Pointed, JobTypeOK
<1>1. CASE Recover
  BY <1>1 DEF Recover
<1>2. CASE Decide
  BY <1>2 DEF Decide, Activating
<1>3. CASE CreateTmp \/ FlushTmp
  BY <1>3 DEF CreateTmp, FlushTmp
<1>4. CASE BackUp
  BY <1>4 DEF BackUp, Activating
<1>5. CASE Publish
  BY <1>5 DEF Publish, Activating
<1>6. CASE RestorePointer
  BY <1>6 DEF RestorePointer, Activating
<1>7. CASE PointerFails
  BY <1>7 DEF PointerFails
<1>8. CASE Unmark
  BY <1>8 DEF Unmark, Cleaning, At
<1>. QED BY <1>1, <1>2, <1>3, <1>4, <1>5, <1>6, <1>7, <1>8 DEF PointerWrite

\* A restart finds the marker of every pack that is still to be deleted
\* (Decide keeps a marker it must account for, EvictPrevious removes it last).
THEOREM SupersededPacksRemembered == PacksSpec => SupersededRemembered
<1>1. ASSUME PacksInv, [PacksNext]_packVars
      PROVE  pointer.backup \in Packs /\ pointer'.backup = Missing =>
                 \/ stored[pointer.backup] = {} \/ pointer.backup = job.key \/ pointer.backup = Shown'
  <2>1. CASE PointerWrite
    BY <1>1, <2>1, PointerWriteFrame
  <2>2. CASE AssetWrite \/ UNCHANGED cardVars
    <3>1. pointer' = pointer
      BY <1>1, <2>2, AssetWriteFrame DEF cardVars
    <3>. QED BY <3>1, PacksConstants
  <2>. QED BY <1>1, <2>1, <2>2, CardFrame
<1>. QED BY <1>1, PacksInvariant, PTL DEF PacksSpec, SupersededRemembered

\* A held selection keeps its pack (RetainedEvictionAllowed is asked under the
\* lease that ApplyRetainedSelection needs too).
THEOREM RetainedPacksKept == PacksSpec => RetainedPackKept
<1>1. ASSUME PacksInv, [PacksNext]_packVars, NEW k \in Packs, Retained(k)
      PROVE  stored[k] \subseteq stored'[k]
  <2>1. CASE AssetWrite
    BY <1>1, <2>1, AssetWriteFrame DEF PacksInv, CardTypeOK
  <2>2. CASE PointerWrite \/ UNCHANGED cardVars
    BY <1>1, <2>2, PointerWriteFrame DEF cardVars
  <2>. QED BY <1>1, <2>1, <2>2, CardFrame
<1>2. ASSUME PacksInv, [PacksNext]_packVars
      PROVE  \A k \in Packs :
                 selection.held /\ k = SelectedKey[selection.owner] => stored[k] \subseteq stored'[k]
  BY <1>1, <1>2 DEF Retained
<1>. QED BY <1>2, PacksInvariant, PTL DEF PacksSpec, RetainedPackKept

\* No pack changes under a lesson (every writer of assets holds the lease that
\* TryBeginLessonSession finds taken).
THEOREM PacksStillInLessons == PacksSpec => PacksStillDuringLesson
<1>1. ASSUME PacksInv, [PacksNext]_packVars
      PROVE  active => UNCHANGED stored
  <2>1. CASE AssetWrite
    BY <1>1, <2>1, AssetWriteFrame DEF PacksInv, Leases
  <2>2. CASE PointerWrite \/ UNCHANGED cardVars
    BY <1>1, <2>2, PointerWriteFrame DEF cardVars
  <2>. QED BY <1>1, <2>1, <2>2, CardFrame
<1>. QED BY <1>1, PacksInvariant, PTL DEF PacksSpec, PacksStillDuringLesson

-----------------------------------------------------------------------------
(* The refinement: the lesson sees a pointer that is replaced in one step. *)

WholePacks == {k \in Packs : Whole(k)}

LEMMA PointerStep ==
    ASSUME PacksInv, [PacksNext]_packVars
    PROVE  [Pointer!Next]_<<Shown, WholePacks>>
<1>. USE DEF Pointer!Next, Pointer!Complete, Pointer!Drop, Pointer!Switch
<1>1. CASE PointerWrite
  <2>1. WholePacks' = WholePacks
    BY <1>1, PointerWriteFrame DEF WholePacks, Whole
  <2>2. Shown' # Shown => Shown' \in Packs /\ Shown' \in WholePacks
    BY <1>1, PointerWriteFrame DEF WholePacks
  <2>. QED BY <2>1, <2>2 DEF WholePacks
<1>2. CASE AssetWrite
  <2>1. Shown' = Shown
    BY <1>2, AssetWriteFrame DEF Shown, Readable
  <2>2. PICK k \in Packs, a \in Assets :
            \/ stored' = [stored EXCEPT ![k] = @ \cup {a}]
            \/ stored' = [stored EXCEPT ![k] = @ \ {a}] /\ k # Shown /\ a \in stored[k]
    BY <1>2, AssetWriteFrame
  <2>3. CASE stored' = [stored EXCEPT ![k] = @ \cup {a}]
    <3>1. WholePacks' = WholePacks \/ WholePacks' = WholePacks \cup {k}
      BY <2>3 DEF PacksInv, CardTypeOK, WholePacks, Whole
    <3>. QED BY <2>1, <3>1 DEF WholePacks
  <2>4. CASE stored' = [stored EXCEPT ![k] = @ \ {a}] /\ k # Shown /\ a \in stored[k]
    <3>1. WholePacks' = WholePacks \ {k}
      BY <2>4 DEF PacksInv, CardTypeOK, WholePacks, Whole
    <3>. QED BY <2>1, <2>4, <3>1 DEF WholePacks
  <2>. QED BY <2>2, <2>3, <2>4
<1>3. CASE UNCHANGED cardVars
  BY <1>3 DEF cardVars, Shown, Readable, WholePacks, Whole
<1>. QED BY <1>1, <1>2, <1>3, CardFrame

\* The activation implements an atomic pointer to a whole pack, through every
\* rename, failed replacement, recovery and loss of power.
THEOREM ActivationIsAtomic == PacksSpec => PointerIsAtomic
<1>1. PacksInit => Pointer!Init
  BY PacksConstants DEF PacksInit, Pointer!Init, Shown, Readable, Whole
<1>2. ASSUME PacksInv, [PacksNext]_packVars
      PROVE  [Pointer!Next]_<<Shown, {k \in Packs : Whole(k)}>>
  BY <1>2, PointerStep DEF WholePacks
<1>. QED BY <1>1, <1>2, PacksInvariant, PTL DEF PacksSpec, PointerIsAtomic, Pointer!Spec

-----------------------------------------------------------------------------
(* The coordinator under the worker, the tools and the lesson. *)

\* The callers of LessonPacks are two of the coordinator's tasks.
LEMMA Callers == "sync" \in Mutators /\ "tool" \in Mutators
<1>. QED BY PacksAssumption DEF PacksAssumption

\* The sync worker takes and gives back its own lease, and no other.
LEMMA SyncUse == SyncStep => [StorageNext]_storageVars
<1>. SUFFICES ASSUME SyncStep PROVE [StorageNext]_storageVars
  OBVIOUS
<1>1. CASE StartSync \/ EvictPrevious
  <2>1. BeginMutation("sync")
    BY <1>1 DEF StartSync, EvictPrevious
  <2>. QED BY <2>1, Callers DEF StorageNext
<1>2. CASE SyncReleaseSd
  <2>1. ReleaseSd("sync")
    BY <1>2 DEF SyncReleaseSd
  <2>. QED BY <2>1, Callers DEF StorageNext
<1>3. CASE SyncReleaseMutation
  <2>1. ReleaseMutation("sync")
    BY <1>3 DEF SyncReleaseMutation
  <2>. QED BY <2>1, Callers DEF StorageNext
<1>4. CASE RefuseSync \/ StoreAsset \/ FailAsset \/ FinishStoring
  BY <1>4 DEF RefuseSync, StoreAsset, FailAsset, FinishStoring
<1>5. CASE ActivateStep
  BY <1>5 DEF ActivateStep, Recover, Decide, CreateTmp, FlushTmp, BackUp, Publish,
     PublishFails, RestorePointer, PointerFails
<1>6. CASE PostponeEviction \/ NothingToEvict \/ UnlinkPrevious \/ Evicted
        \/ EvictionFails \/ Unmark \/ UnmarkFails
  BY <1>6 DEF PostponeEviction, NothingToEvict, UnlinkPrevious, Evicted,
     EvictionFails, Unmark, UnmarkFails
<1>. QED BY <1>1, <1>2, <1>3, <1>4, <1>5, <1>6 DEF SyncStep, CleanupStep

\* So do the tools of the event loop and the lesson.
LEMMA LoopUse ==
    ASSUME \/ \E k \in Packs : ToolEvict(k)
           \/ ToolBegin \/ ToolStep \/ LessonStep
    PROVE  [StorageNext]_storageVars
<1>1. CASE (\E k \in Packs : ToolEvict(k)) \/ ToolBegin
  <2>1. BeginMutation("tool")
    BY <1>1 DEF ToolEvict, ToolBegin
  <2>. QED BY <2>1, Callers DEF StorageNext
<1>2. CASE ToolReleaseSd
  <2>1. ReleaseSd("tool")
    BY <1>2 DEF ToolReleaseSd
  <2>. QED BY <2>1, Callers DEF StorageNext
<1>3. CASE ToolReleaseMutation
  <2>1. ReleaseMutation("tool")
    BY <1>3 DEF ToolReleaseMutation
  <2>. QED BY <2>1, Callers DEF StorageNext
<1>4. CASE ToolUnlink \/ ToolEvicted \/ ToolApply \/ ToolDone
  BY <1>4 DEF ToolUnlink, ToolEvicted, ToolApply, ToolDone
<1>5. CASE LessonStep
  BY <1>5 DEF LessonStep, StorageNext
<1>. QED BY <1>1, <1>2, <1>3, <1>4, <1>5 DEF ToolStep

\* A restart is the boot of the coordinator.
LEMMA PowerLost == LosePower => StorageInit'
<1>. QED BY DEF LosePower, StorageInit

\* Every step keeps the coordinator's invariant.
LEMMA CoordinatorStep == IInv /\ [PacksNext]_packVars => IInv'
<1>. SUFFICES ASSUME IInv, [PacksNext]_packVars PROVE IInv'
  OBVIOUS
<1>1. CASE LosePower
  <2>1. StorageInit' => IInv'
    BY StorageInitInv, PTL
  <2>. QED BY <1>1, <2>1, PowerLost
<1>2. ASSUME ~LosePower
      PROVE  [StorageNext]_storageVars
  <2>1. CASE UNCHANGED packVars
    BY <2>1 DEF packVars
  <2>2. CASE (\E r \in Requests : RequestSync(r)) \/ PollCompletion
    BY <2>2 DEF RequestSync, PollCompletion
  <2>. QED BY <1>2, <2>1, <2>2, SyncUse, LoopUse DEF PacksNext
<1>. QED BY <1>1, <1>2, StorageStepInv

\* The coordinator's invariant holds in every state the card and its users reach.
THEOREM PacksCoordinator == PacksSpec => []IInv
<1>1. PacksInit => IInv
  BY StorageInitInv DEF PacksInit
<1>. QED BY <1>1, CoordinatorStep, PTL DEF PacksSpec

\* While the sync worker or a tool writes the packs the other does not, and no
\* lesson is active or reads them, through failures, evictions and restarts
\* (TryBeginMutation, EvictPreviousLessonAssetPackAfterActivation).
THEOREM PacksWritersAlone == PacksSpec => []WritersAlone
<1>1. IInv => WritersAlone
  BY Excluded
<1>. QED BY <1>1, PacksCoordinator, PTL
=============================================================================
