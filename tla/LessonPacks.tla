------------------------------ MODULE LessonPacks ------------------------------
(***************************************************************************)
(* The packs of one lesson on the SD card: the sync worker that downloads  *)
(* a pack and activates it, the event loop's tools that evict a pack and   *)
(* record the retained selection, and the storage coordinator between      *)
(* them and the lesson.  Power can be lost between any two file            *)
(* operations; the card and the NVS record survive it, the leases and the  *)
(* tasks do not.                                                           *)
(*                                                                         *)
(* A file operation is one step: a rename or a removal either happened or  *)
(* did not, and never overwrites.  A pointer that was being written when   *)
(* the power went is Torn.  An asset is on the card only once verified.    *)
(***************************************************************************)
EXTENDS LessonStorage

CONSTANTS
    Packs,           \* cache keys of the lesson
    Assets,          \* the assets of a pack
    Missing, Torn,   \* a pointer file that is not there; one that cannot be read
    NoPack,
    Selections,      \* retained selections the server makes
    NoSelection,
    SelectedKey,     \* the pack of each selection
    MaxRevision,     \* bound: selection revisions
    MaxRequests,     \* bound: sync requests
    MaxFaults        \* bound: failed file operations and losses of power

ASSUME PacksAssumption ==
    /\ Mutators = {"sync", "tool"}
    /\ Missing \notin Packs /\ Torn \notin Packs /\ NoPack \notin Packs
    /\ Missing # Torn /\ Assets # {}
    /\ NoSelection \notin Selections
    /\ SelectedKey \in [Selections -> Packs]
    /\ MaxRevision \in Nat /\ MaxRequests \in Nat /\ MaxFaults \in Nat

VARIABLES
    pointer,    \* active.json, active.json.tmp and active.json.backup
    stored,     \* of each pack: its assets on the card
    selection,  \* the NVS record of the retained selection
    uncertain,  \* write_uncertain
    job,        \* the sync request in flight and where its worker is
    tool,       \* the tool the event loop is in
    requests, faults

cardVars == <<pointer, stored>>
selectionVars == <<selection, uncertain>>
boundVars == <<requests, faults>>
packVars == <<cardVars, selectionVars, job, tool, boundVars, storageVars>>

NoJob ==
    [phase |-> "idle", key |-> NoPack, revision |-> 0, owner |-> NoSelection,
     previous |-> NoPack, next |-> "idle", clean |-> FALSE, pending |-> FALSE]

NoTool == [phase |-> "idle", key |-> NoPack]

PacksInit ==
    /\ StorageInit
    /\ pointer = [active |-> Missing, tmp |-> Missing, backup |-> Missing]
    /\ stored = [k \in Packs |-> {}]
    /\ selection = [revision |-> 0, held |-> FALSE, owner |-> NoSelection]
    /\ uncertain = FALSE
    /\ job = NoJob /\ tool = NoTool
    /\ requests = 0 /\ faults = 0

Whole(k) == stored[k] = Assets

\* The worker goes on, and gives its lease back first where it must.
Goto(phase) == job' = [job EXCEPT !.phase = phase]
CloseThen(phase) == job' = [job EXCEPT !.phase = "closing", !.next = phase]
CloseFailed == job' = [job EXCEPT !.phase = "closing", !.next = "done", !.clean = FALSE]

Fault == faults < MaxFaults /\ faults' = faults + 1

-----------------------------------------------------------------------------
(* The retained selection. *)

RetainedSyncAllowed(k, revision, owner) ==
    /\ ~uncertain
    /\ revision = selection.revision
    /\ IF selection.held
       THEN owner = selection.owner /\ k = SelectedKey[owner]
       ELSE owner = NoSelection

RetainedEvictionAllowed(k) ==
    /\ ~uncertain
    /\ ~(selection.held /\ SelectedKey[selection.owner] = k)

\* A bind or a release the record may be replaced by.
Accepts(revision, s, release) ==
    /\ ~uncertain
    /\ revision > selection.revision
    /\ selection.held => s = selection.owner
    /\ ~release /\ ~selection.held => s # selection.owner

\* A write that failed may have reached the flash: nothing is known until a restart.
ApplyRetainedSelection(revision, s, release) ==
    /\ Accepts(revision, s, release)
    /\ LET new == [revision |-> revision, held |-> ~release, owner |-> s] IN
        \/ selection' = new /\ UNCHANGED <<uncertain, faults>>
        \/ Fault /\ uncertain' = TRUE /\ selection' \in {selection, new}

-----------------------------------------------------------------------------
(* Eviction of one pack, by the worker or by the tool, each under its lease. *)

\* Mutant: only the active pointer protects a pack.
PermitsUnlessActive(k, replacement) == pointer.active \notin {Torn, k}

\* PointersPermitEviction: no pointer file names the pack or cannot be read,
\* except that the pack which replaced it lets its backup go.
PointersPermitEviction(k, replacement) ==
    /\ Torn \notin {pointer.active, pointer.tmp, pointer.backup}
    /\ k \notin {pointer.active, pointer.tmp}
    /\ pointer.backup = k => replacement \in Packs /\ pointer.active = replacement

MayEvict(k, replacement) ==
    RetainedEvictionAllowed(k) /\ PointersPermitEviction(k, replacement)

Unlink(k) ==
    \E a \in stored[k] :
        /\ stored' = [stored EXCEPT ![k] = @ \ {a}]
        /\ UNCHANGED pointer

-----------------------------------------------------------------------------
(* A sync request: dispatch, lease, download. *)

Requests ==
    [key: Packs, revision: 0..MaxRevision, owner: Selections \cup {NoSelection}]

\* One request is in flight at a time; it is refused while the storage is in use.
RequestSync(r) ==
    /\ job.phase = "idle" /\ tool.phase = "idle"
    /\ ~active /\ ~mutating
    /\ requests < MaxRequests /\ requests' = requests + 1
    /\ job' = [NoJob EXCEPT !.phase = "queued", !.key = r.key, !.revision = r.revision,
                            !.owner = r.owner, !.clean = TRUE]
    /\ UNCHANGED <<cardVars, selectionVars, tool, faults, storageVars>>

StartSync ==
    /\ job.phase = "queued"
    /\ BeginMutation("sync")
    /\ IF RetainedSyncAllowed(job.key, job.revision, job.owner)
       THEN Goto("storing") ELSE CloseFailed
    /\ UNCHANGED <<cardVars, selectionVars, tool, boundVars>>

\* The storage is in use by now, or the request is no longer current.
RefuseSync ==
    /\ job.phase = "queued"
    /\ job' = [job EXCEPT !.phase = "done", !.clean = FALSE]
    /\ UNCHANGED <<cardVars, selectionVars, tool, boundVars, storageVars>>

StoreAsset ==
    /\ job.phase = "storing"
    /\ \E a \in Assets \ stored[job.key] :
           stored' = [stored EXCEPT ![job.key] = @ \cup {a}]
    /\ UNCHANGED <<pointer, selectionVars, job, tool, boundVars, storageVars>>

\* The other assets are still stored unless this one was critical.
FailAsset ==
    /\ job.phase = "storing" /\ ~Whole(job.key)
    /\ Fault
    /\ CloseFailed \/ job' = [job EXCEPT !.clean = FALSE]
    /\ UNCHANGED <<cardVars, selectionVars, tool, requests, storageVars>>

\* Every asset has been tried: ActivateLessonAssetPack, up to its checks.
FinishStoring ==
    /\ job.phase = "storing"
    /\ \/ /\ job.clean /\ Whole(job.key)
          /\ IF RetainedSyncAllowed(job.key, job.revision, job.owner)
             THEN Goto("recovering") ELSE CloseFailed
       \/ ~job.clean /\ CloseFailed
    /\ UNCHANGED <<cardVars, selectionVars, tool, boundVars, storageVars>>

-----------------------------------------------------------------------------
(* Activation, one file operation at a time. *)

\* RecoverInterruptedActivePointerReplacement.
Recover ==
    /\ job.phase = "recovering"
    /\ \/ /\ pointer.active # Missing
          /\ pointer' = [pointer EXCEPT !.tmp = Missing] /\ Goto("deciding")
       \/ /\ pointer.active = Missing /\ pointer.backup # Missing
          /\ pointer' = [pointer EXCEPT !.active = pointer.backup, !.backup = Missing]
          /\ UNCHANGED job
       \/ /\ pointer.active = Missing /\ pointer.backup = Missing
          /\ pointer' = [pointer EXCEPT !.active = pointer.tmp, !.tmp = Missing]
          /\ Goto("deciding")
    /\ UNCHANGED <<stored, selectionVars, tool, boundVars, storageVars>>

Readable(p) == IF p \in Packs THEN p ELSE NoPack

\* Mutant: a backup that cannot be read is taken for a key.
PreviousKeyUnread ==
    IF pointer.backup # Missing THEN pointer.backup ELSE Readable(pointer.active)

PreviousKey ==
    IF pointer.backup \in Packs THEN pointer.backup ELSE Readable(pointer.active)

\* Mutant: a backup in the way is dropped, whatever pack it still has to account for.
DecideDropping ==
    /\ job.phase = "deciding"
    /\ IF pointer.active = job.key
       THEN /\ job' = [job EXCEPT !.phase = "closing", !.next = "cleaning", !.previous = PreviousKey]
            /\ UNCHANGED pointer
       ELSE /\ pointer' = [pointer EXCEPT !.backup = Missing]
            /\ job' = [job EXCEPT !.phase = "writing", !.previous = Readable(pointer.active)]
    /\ UNCHANGED <<stored, selectionVars, tool, boundVars, storageVars>>

\* The pack is active already; or a backup waits for its pack's eviction, and is
\* dropped only if it says nothing; or the pointer is to be written.
Decide ==
    /\ job.phase = "deciding"
    /\ \/ /\ pointer.active = job.key
          /\ job' = [job EXCEPT !.phase = "closing", !.next = "cleaning", !.previous = PreviousKey]
          /\ UNCHANGED pointer
       \/ /\ pointer.active # job.key
          /\ pointer.backup \in {Missing, Torn, pointer.active}
          /\ pointer' = [pointer EXCEPT !.backup = Missing]
          /\ job' = [job EXCEPT !.phase = "writing", !.previous = Readable(pointer.active)]
       \/ /\ pointer.active # job.key
          /\ pointer.backup \notin {Missing, Torn, pointer.active}
          /\ job' = [job EXCEPT !.phase = "closing", !.next = "cleaning",
                                !.previous = pointer.backup, !.pending = TRUE]
          /\ UNCHANGED pointer
    /\ UNCHANGED <<stored, selectionVars, tool, boundVars, storageVars>>

\* WriteActivePointerAtomically: create, write and sync, move aside, put in place.
CreateTmp ==
    /\ job.phase = "writing"
    /\ pointer' = [pointer EXCEPT !.tmp = Torn] /\ Goto("flushing")
    /\ UNCHANGED <<stored, selectionVars, tool, boundVars, storageVars>>

FlushTmp ==
    /\ job.phase = "flushing"
    /\ pointer' = [pointer EXCEPT !.tmp = job.key] /\ Goto("backing")
    /\ UNCHANGED <<stored, selectionVars, tool, boundVars, storageVars>>

\* Mutant: the old pointer is removed to make room.
BackUpByRemoval ==
    /\ job.phase = "backing"
    /\ pointer' = [pointer EXCEPT !.active = Missing]
    /\ Goto("publishing")
    /\ UNCHANGED <<stored, selectionVars, tool, boundVars, storageVars>>

BackUp ==
    /\ job.phase = "backing"
    /\ pointer' = [pointer EXCEPT !.active = Missing, !.backup = pointer.active]
    /\ Goto("publishing")
    /\ UNCHANGED <<stored, selectionVars, tool, boundVars, storageVars>>

Publish ==
    /\ job.phase = "publishing"
    /\ pointer' = [pointer EXCEPT !.active = pointer.tmp, !.tmp = Missing]
    /\ CloseThen("cleaning")
    /\ UNCHANGED <<stored, selectionVars, tool, boundVars, storageVars>>

\* The new pointer cannot be put in place: the old one comes back, if it can.
PublishFails ==
    /\ job.phase = "publishing"
    /\ Fault /\ Goto("restoring")
    /\ UNCHANGED <<cardVars, selectionVars, tool, requests, storageVars>>

RestorePointer ==
    /\ job.phase = "restoring"
    /\ pointer' = [active |-> pointer.backup, tmp |-> Missing, backup |-> Missing]
    /\ CloseFailed
    /\ UNCHANGED <<stored, selectionVars, tool, boundVars, storageVars>>

\* A file operation fails; what was written so far is removed, if it can be.
PointerFails ==
    /\ job.phase \in {"recovering", "deciding", "writing", "flushing", "backing", "restoring"}
    /\ Fault /\ CloseFailed
    /\ \/ UNCHANGED pointer
       \/ /\ job.phase \in {"flushing", "backing"}
          /\ pointer' = [pointer EXCEPT !.tmp = Missing]
    /\ UNCHANGED <<stored, selectionVars, tool, requests, storageVars>>

-----------------------------------------------------------------------------
(* After the lease: EvictPreviousLessonAssetPackAfterActivation. *)

SyncReleaseSd ==
    /\ job.phase = "closing" /\ ReleaseSd("sync")
    /\ UNCHANGED <<cardVars, selectionVars, job, tool, boundVars>>

SyncReleaseMutation ==
    /\ job.phase = "closing" /\ ReleaseMutation("sync")
    /\ Goto(job.next)
    /\ UNCHANGED <<cardVars, selectionVars, tool, boundVars>>

MustEvict == job.previous \in Packs \ {job.key}

\* Mutant: the lease that activated the pack was enough.
EvictPreviousUnleased ==
    /\ job.phase = "cleaning" /\ MustEvict
    /\ MayEvict(job.previous, Readable(pointer.active)) /\ Goto("evicting")
    /\ UNCHANGED <<cardVars, selectionVars, tool, boundVars, storageVars>>

EvictPrevious ==
    /\ job.phase = "cleaning" /\ MustEvict
    /\ BeginMutation("sync")
    /\ IF MayEvict(job.previous, Readable(pointer.active))
       THEN Goto("evicting")
       ELSE job' = [job EXCEPT !.phase = "closing", !.next = "done",
                               !.clean = RetainedEvictionAllowed(job.previous)]
    /\ UNCHANGED <<cardVars, selectionVars, tool, boundVars>>

\* The storage is in use: the marker stays for a later activation.
PostponeEviction ==
    /\ job.phase = "cleaning" /\ MustEvict
    /\ ~CanMutate
    /\ job' = [job EXCEPT !.phase = "done", !.clean = FALSE]
    /\ UNCHANGED <<cardVars, selectionVars, tool, boundVars, storageVars>>

\* Mutant: a pack that is asked for again leaves its marker where it is.
NothingToEvictKeepsMarker ==
    /\ job.phase = "cleaning" /\ ~MustEvict
    /\ Goto("done")
    /\ UNCHANGED <<cardVars, selectionVars, tool, boundVars, storageVars>>

NothingToEvict ==
    /\ job.phase = "cleaning" /\ ~MustEvict
    /\ Goto("unmarking")
    /\ UNCHANGED <<cardVars, selectionVars, tool, boundVars, storageVars>>

UnlinkPrevious ==
    /\ job.phase = "evicting" /\ Unlink(job.previous)
    /\ UNCHANGED <<selectionVars, job, tool, boundVars, storageVars>>

Evicted ==
    /\ job.phase = "evicting" /\ stored[job.previous] = {}
    /\ CloseThen("unmarking")
    /\ UNCHANGED <<cardVars, selectionVars, tool, boundVars, storageVars>>

EvictionFails ==
    /\ job.phase = "evicting"
    /\ Fault /\ CloseFailed
    /\ UNCHANGED <<cardVars, selectionVars, tool, requests, storageVars>>

\* The marker goes last, and under no lease.
Unmark ==
    /\ job.phase = "unmarking"
    /\ pointer' = [pointer EXCEPT !.backup = Missing] /\ Goto("done")
    /\ UNCHANGED <<stored, selectionVars, tool, boundVars, storageVars>>

UnmarkFails ==
    /\ job.phase = "unmarking"
    /\ Fault /\ job' = [job EXCEPT !.phase = "done", !.clean = FALSE]
    /\ UNCHANGED <<cardVars, selectionVars, tool, requests, storageVars>>

\* The event loop answers the request and lets the next one in.
PollCompletion ==
    /\ job.phase = "done" /\ tool.phase = "idle"
    /\ job' = NoJob
    /\ UNCHANGED <<cardVars, selectionVars, tool, boundVars, storageVars>>

-----------------------------------------------------------------------------
(* The event loop's tools, the lesson, and the loss of power. *)

ToolCloses == tool' = [tool EXCEPT !.phase = "closing"]

ToolEvict(k) ==
    /\ tool.phase = "idle"
    /\ BeginMutation("tool")
    /\ MayEvict(k, NoPack)
    /\ tool' = [phase |-> "evicting", key |-> k]
    /\ UNCHANGED <<cardVars, selectionVars, job, boundVars>>

ToolUnlink ==
    /\ tool.phase = "evicting" /\ Unlink(tool.key)
    /\ UNCHANGED <<selectionVars, job, tool, boundVars, storageVars>>

\* All is deleted, or a deletion failed.
ToolEvicted ==
    /\ tool.phase = "evicting"
    /\ Fault \/ (stored[tool.key] = {} /\ UNCHANGED faults)
    /\ ToolCloses
    /\ UNCHANGED <<cardVars, selectionVars, job, requests, storageVars>>

\* The tool that records a selection, and the one that downloads the samples.
ToolBegin ==
    /\ tool.phase = "idle"
    /\ BeginMutation("tool")
    /\ tool' = [phase |-> "working", key |-> NoPack]
    /\ UNCHANGED <<cardVars, selectionVars, job, boundVars>>

\* Mutant: the selection is recorded whoever is at the card.
ToolApplyUnleased ==
    /\ tool.phase \in {"idle", "working"}
    /\ \E revision \in 1..MaxRevision, s \in Selections, release \in BOOLEAN :
           ApplyRetainedSelection(revision, s, release)
    /\ IF tool.phase = "idle" THEN UNCHANGED tool ELSE ToolCloses
    /\ UNCHANGED <<cardVars, job, requests, storageVars>>

ToolApply ==
    /\ tool.phase = "working"
    /\ \E revision \in 1..MaxRevision, s \in Selections, release \in BOOLEAN :
           ApplyRetainedSelection(revision, s, release)
    /\ ToolCloses
    /\ UNCHANGED <<cardVars, job, requests, storageVars>>

\* The selection was refused, or only samples were written.
ToolDone ==
    /\ tool.phase = "working"
    /\ ToolCloses
    /\ UNCHANGED <<cardVars, selectionVars, job, boundVars, storageVars>>

ToolReleaseSd ==
    /\ tool.phase = "closing" /\ ReleaseSd("tool")
    /\ UNCHANGED <<cardVars, selectionVars, job, tool, boundVars>>

ToolReleaseMutation ==
    /\ tool.phase = "closing" /\ ReleaseMutation("tool")
    /\ tool' = NoTool
    /\ UNCHANGED <<cardVars, selectionVars, job, boundVars>>

LessonStep ==
    /\ \/ \E s \in Sessions : BeginSession(s)
       \/ \E s \in Sessions, g \in 1..MaxGeneration : EndSession(s, g)
    /\ UNCHANGED <<cardVars, selectionVars, job, tool, boundVars>>

\* A restart: the card and the record are all that is left.
LosePower ==
    /\ Fault
    /\ mutating' = FALSE
    /\ active' = FALSE /\ session' = Nobody /\ generation' = 0 /\ last' = 0 /\ readers' = 0
    /\ sd' = "free"
    /\ lease' = [m \in Mutators |-> "none"]
    /\ held' = [r \in Readers |-> 0]
    /\ uncertain' = FALSE
    /\ job' = NoJob /\ tool' = NoTool
    /\ UNCHANGED <<cardVars, selection, requests>>

ActivateStep ==
    \/ Recover \/ Decide \/ CreateTmp \/ FlushTmp \/ BackUp \/ Publish
    \/ PublishFails \/ RestorePointer \/ PointerFails

CleanupStep ==
    \/ EvictPrevious \/ PostponeEviction \/ NothingToEvict
    \/ UnlinkPrevious \/ Evicted \/ EvictionFails
    \/ Unmark \/ UnmarkFails

SyncStep ==
    \/ StartSync \/ RefuseSync \/ StoreAsset \/ FailAsset \/ FinishStoring
    \/ ActivateStep
    \/ SyncReleaseSd \/ SyncReleaseMutation
    \/ CleanupStep

ToolStep ==
    \/ ToolUnlink \/ ToolEvicted \/ ToolApply \/ ToolDone
    \/ ToolReleaseSd \/ ToolReleaseMutation

PacksNext ==
    \/ \E r \in Requests : RequestSync(r)
    \/ SyncStep \/ PollCompletion
    \/ \E k \in Packs : ToolEvict(k)
    \/ ToolBegin \/ ToolStep
    \/ LessonStep \/ LosePower

PacksSpec == PacksInit /\ [][PacksNext]_packVars

-----------------------------------------------------------------------------
(* Properties. *)

PacksTypeOK ==
    /\ pointer \in [active: Packs \cup {Missing, Torn}, tmp: Packs \cup {Missing, Torn},
                    backup: Packs \cup {Missing, Torn}]
    /\ stored \in [Packs -> SUBSET Assets]
    /\ selection \in [revision: 0..MaxRevision, held: BOOLEAN, owner: Selections \cup {NoSelection}]
    /\ uncertain \in BOOLEAN
    /\ job \in [phase: {"idle", "queued", "storing", "recovering", "deciding", "writing",
                        "flushing", "backing", "publishing", "restoring", "closing",
                        "cleaning", "evicting", "unmarking", "done"},
                key: Packs \cup {NoPack}, revision: 0..MaxRevision,
                owner: Selections \cup {NoSelection}, previous: Packs \cup {NoPack},
                next: {"idle", "cleaning", "unmarking", "done"},
                clean: BOOLEAN, pending: BOOLEAN]
    /\ tool \in [phase: {"idle", "evicting", "working", "closing"}, key: Packs \cup {NoPack}]
    /\ requests \in 0..MaxRequests /\ faults \in 0..MaxFaults

\* The pack the lesson's pointer names, as recovery would find it after a restart.
Shown == Readable(IF pointer.active = Missing THEN pointer.backup ELSE pointer.active)

\* Whatever pack a restart may come to show, from the active pointer, its
\* backup or a temporary one, has every asset on the card: no eviction, failed
\* replacement or loss of power leaves a pointer to a pack in pieces.
PointedPacksWhole ==
    \A k \in {Shown, Readable(pointer.tmp)} \ {NoPack} : Whole(k)

\* The pointer is replaced in one step and the pack it names stays whole, as
\* the lesson sees it: once a pack is shown one always is.
Pointer == INSTANCE PackPointer WITH shown <- Shown, whole <- {k \in Packs : Whole(k)}
PointerIsAtomic == Pointer!Spec

\* The marker of a superseded pack stays until the pack is gone from the card,
\* is asked for again, or is shown again: no loss of power between the
\* activation and the eviction leaves a pack that nothing remembers to delete.
SupersededRemembered ==
    [][LET k == pointer.backup IN
       k \in Packs /\ pointer'.backup = Missing =>
           \/ stored[k] = {} \/ k = job.key \/ k = Shown']_packVars

\* The pack of a selection that is held loses no file, whoever is evicting
\* while the selection is recorded.
RetainedPackKept ==
    [][\A k \in Packs :
           selection.held /\ k = SelectedKey[selection.owner] =>
               stored[k] \subseteq stored'[k]]_packVars

\* While a lesson runs no file of any pack changes under it, not even by the
\* eviction that follows an activation.
PacksStillDuringLesson == [][active => UNCHANGED stored]_packVars

\* A sync that met no failure and no refusal leaves its pack active, or clears
\* the marker that kept it from being activated: the next one succeeds.
UndisturbedSyncConverges ==
    job.phase = "done" /\ job.clean =>
        /\ pointer.backup = Missing
        /\ pointer.active = job.key \/ job.pending

\* The lesson files are written under a lease only, the pointers included.
WritersHoldLease ==
    [][UNCHANGED <<pointer, stored>> \/ \E m \in Mutators : lease[m] = "held"]_packVars
=============================================================================
