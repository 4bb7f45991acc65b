----------------------------- MODULE LessonStorage -----------------------------
(***************************************************************************)
(* LessonAssetStorageCoordinator and the SdFatSessionGuard under it: who   *)
(* may touch the lesson files.  A mutation lease excludes everything; a    *)
(* lesson session excludes mutations and lets readers in.  Each operation  *)
(* runs under the coordinator's mutex, but a mutation lease is given back  *)
(* in two: first the SD reservation, then the mutation flag.               *)
(*                                                                         *)
(* A refused operation changes nothing and is left to stuttering.          *)
(***************************************************************************)
EXTENDS Naturals, FiniteSets

CONSTANTS
    Mutators,        \* the tasks that write lesson files
    Readers,         \* the file handles that hold a read lease
    Sessions,        \* lesson identities: (assignment, session)
    Nobody,          \* no identity
    MaxGeneration    \* bound: the generations a run reaches

ASSUME StorageAssumption ==
    /\ IsFiniteSet(Readers)
    /\ Nobody \notin Sessions
    /\ MaxGeneration \in Nat

VARIABLES
    mutating,                    \* mutation_active_
    active, session, generation, \* the lesson session
    last,                        \* last_generation_
    readers,                     \* lesson_readers_
    sd,                          \* whose the SD reservation is
    lease,                       \* of each mutator: its LessonAssetMutationLease
    held                         \* of each reader: the generation of its LessonAssetReadLease, or 0

coordinatorVars == <<mutating, active, session, generation, last, readers, sd>>
sessionVars == <<active, session, generation, last, readers, held>>
mutationVars == <<mutating, lease>>
storageVars == <<coordinatorVars, lease, held>>

StorageInit ==
    /\ mutating = FALSE
    /\ active = FALSE /\ session = Nobody /\ generation = 0 /\ last = 0 /\ readers = 0
    /\ sd = "free"
    /\ lease = [m \in Mutators |-> "none"]
    /\ held = [r \in Readers |-> 0]

-----------------------------------------------------------------------------
(* Mutations. *)

\* Mutant: a mutation does not ask whose the card is, nor whether a lesson runs.
CanMutateUnreserved == ~mutating

\* TryBeginMutation answers with a lease.
CanMutate == ~mutating /\ ~active /\ sd = "free"

BeginMutation(m) ==
    /\ lease[m] = "none" /\ CanMutate
    /\ mutating' = TRUE
    /\ sd' = "mutation"
    /\ lease' = [lease EXCEPT ![m] = "held"]
    /\ UNCHANGED sessionVars

\* The two halves of LessonAssetMutationLease::Release.
ReleaseSd(m) ==
    /\ lease[m] = "held"
    /\ sd' = "free"
    /\ lease' = [lease EXCEPT ![m] = "closing"]
    /\ UNCHANGED <<mutating, sessionVars>>

ReleaseMutation(m) ==
    /\ lease[m] = "closing"
    /\ mutating' = FALSE
    /\ lease' = [lease EXCEPT ![m] = "none"]
    /\ UNCHANGED <<sd, sessionVars>>

-----------------------------------------------------------------------------
(* Lesson sessions and their readers. *)

CanBegin == ~mutating /\ ~active /\ last < MaxGeneration /\ sd = "free"

\* TryBeginLessonSession answers with a new generation.
BeginSession(s) ==
    /\ CanBegin
    /\ active' = TRUE /\ session' = s
    /\ last' = last + 1 /\ generation' = last + 1
    /\ sd' = "lesson"
    /\ UNCHANGED <<readers, held, mutationVars>>

\* A generation the caller remembers opens a read lease only while its session lasts.
Retain(r, g) ==
    /\ held[r] = 0
    /\ active /\ g = generation
    /\ readers' = readers + 1
    /\ held' = [held EXCEPT ![r] = g]
    /\ UNCHANGED <<active, session, generation, last, sd, mutationVars>>

\* The session is over and its reservation with it.
Close ==
    /\ active' = FALSE /\ session' = Nobody /\ generation' = 0 /\ sd' = "free"

\* The last reader of a session that was ended by force gives its reservation back.
ReleaseRead(r) ==
    /\ held[r] # 0
    /\ held' = [held EXCEPT ![r] = 0]
    /\ IF generation = held[r] /\ readers # 0
       THEN /\ readers' = readers - 1
            /\ IF readers = 1 /\ ~active
               THEN Close
               ELSE UNCHANGED <<active, session, generation, sd>>
       ELSE UNCHANGED <<readers, active, session, generation, sd>>
    /\ UNCHANGED <<last, mutationVars>>

CanEnd(s, g) == active /\ readers = 0 /\ session = s /\ generation = g

EndSession(s, g) ==
    /\ CanEnd(s, g)
    /\ Close
    /\ UNCHANGED <<last, readers, held, mutationVars>>

ForceEnd ==
    /\ IF readers # 0
       THEN active' = FALSE /\ UNCHANGED <<session, generation, sd>>
       ELSE /\ active' = FALSE /\ session' = Nobody /\ generation' = 0
            /\ sd' = IF sd = "lesson" THEN "free" ELSE sd
    /\ UNCHANGED <<last, readers, held, mutationVars>>

-----------------------------------------------------------------------------
(* The coordinator by itself, under any callers. *)

StorageNext ==
    \/ \E m \in Mutators : BeginMutation(m) \/ ReleaseSd(m) \/ ReleaseMutation(m)
    \/ \E s \in Sessions : BeginSession(s)
    \/ \E r \in Readers, g \in 1..MaxGeneration : Retain(r, g)
    \/ \E r \in Readers : ReleaseRead(r)
    \/ \E s \in Sessions, g \in 1..MaxGeneration : EndSession(s, g)
    \/ ForceEnd

StorageSpec == StorageInit /\ [][StorageNext]_storageVars

-----------------------------------------------------------------------------
StorageTypeOK ==
    /\ mutating \in BOOLEAN /\ active \in BOOLEAN
    /\ session \in Sessions \cup {Nobody}
    /\ generation \in 0..MaxGeneration /\ last \in 0..MaxGeneration
    /\ readers \in Nat
    /\ sd \in {"free", "mutation", "lesson"}
    /\ lease \in [Mutators -> {"none", "held", "closing"}]
    /\ held \in [Readers -> 0..MaxGeneration]

\* While a task may write lesson files no other task may, no lesson session is
\* active and no file handle of a lesson is open, not even one that a session
\* ended by force has left behind.
WritersAlone ==
    \A m \in Mutators : lease[m] = "held" =>
        /\ ~active
        /\ \A r \in Readers : held[r] = 0
        /\ \A n \in Mutators : lease[n] = "held" => n = m

\* Every open file handle is of the one session the coordinator counts readers
\* for: none survives into a later session, where the files may be others.
ReadersOfOneSession ==
    /\ readers = Cardinality({r \in Readers : held[r] # 0})
    /\ \A r \in Readers : held[r] # 0 => held[r] = generation

\* A session that was ended by force keeps the card only for its open handles:
\* one of them is of the generation that is still counted, so that closing them
\* gives the card back instead of locking the lesson files until the next boot.
ReservationOwed ==
    sd = "lesson" /\ ~active => \E r \in Readers : held[r] # 0 /\ held[r] = generation
=============================================================================
