-------------------------- MODULE LessonStorageProofs --------------------------
(***************************************************************************)
(* The coordinator's exclusion for any number of tasks, handles, sessions  *)
(* and generations.  The SD reservation is the linchpin: it says which of  *)
(* the two sides the card belongs to, and a session that was ended by      *)
(* force keeps it until its last reader is gone.                           *)
(***************************************************************************)
EXTENDS LessonStorage, FiniteSetTheorems, TLAPS

Open == {r \in Readers : held[r] # 0}

\* Whose the card is, and why.
Reserved ==
    /\ sd = "lesson" <=> active \/ readers # 0
    /\ sd = "mutation" <=> \E m \in Mutators : lease[m] = "held"

\* A mutation flag has one lease behind it.
OneMutation ==
    /\ mutating <=> \E m \in Mutators : lease[m] # "none"
    /\ \A m, n \in Mutators : lease[m] # "none" /\ lease[n] # "none" => m = n

\* A generation stands for one session only.
Generations ==
    /\ generation <= last
    /\ active \/ readers # 0 => generation # 0

IInv == StorageTypeOK /\ Reserved /\ OneMutation /\ Generations /\ ReadersOfOneSession

LEMMA Constants == MaxGeneration \in Nat /\ Nobody \notin Sessions
<1>. QED BY StorageAssumption DEF StorageAssumption

LEMMA FiniteReaders == IsFiniteSet(Readers)
<1>. QED BY StorageAssumption, Zenon DEF StorageAssumption

\* Opening a handle adds one to the open ones, closing it takes one away.
LEMMA OpenCounted ==
    ASSUME StorageTypeOK, NEW r \in Readers, NEW g \in 0..MaxGeneration,
           held' = [held EXCEPT ![r] = g]
    PROVE  /\ held[r] = 0 /\ g # 0 => Cardinality(Open') = Cardinality(Open) + 1
           /\ held[r] # 0 /\ g = 0 => Cardinality(Open') = Cardinality(Open) - 1
           /\ Cardinality(Open) \in Nat
           /\ held[r] # 0 => Cardinality(Open) # 0
<1>1. IsFiniteSet(Open)
  <2>1. Open \subseteq Readers /\ IsFiniteSet(Readers)
    BY FiniteReaders DEF Open
  <2>. QED BY <2>1, FS_Subset
<1>2. ASSUME held[r] = 0, g # 0
      PROVE  Cardinality(Open') = Cardinality(Open) + 1
  <2>1. Open' = Open \cup {r} /\ r \notin Open
    BY <1>2 DEF Open, StorageTypeOK
  <2>. QED BY <1>1, <2>1, FS_AddElement
<1>3. ASSUME held[r] # 0, g = 0
      PROVE  Cardinality(Open') = Cardinality(Open) - 1
  <2>1. Open' = Open \ {r} /\ r \in Open
    BY <1>3 DEF Open, StorageTypeOK
  <2>. QED BY <1>1, <2>1, FS_RemoveElement
<1>4. Cardinality(Open) \in Nat
  BY <1>1, FS_CardinalityType
<1>5. ASSUME held[r] # 0
      PROVE  Cardinality(Open) # 0
  <2>1. r \in Open
    BY <1>5 DEF Open
  <2>. QED BY <1>1, <2>1, FS_EmptySet
<1>. QED BY <1>2, <1>3, <1>4, <1>5

\* With no reader counted no handle is open.
LEMMA NoneOpen ==
    ASSUME StorageTypeOK, ReadersOfOneSession
    PROVE  readers = 0 <=> \A r \in Readers : held[r] = 0
<1>1. IsFiniteSet(Open)
  <2>1. Open \subseteq Readers /\ IsFiniteSet(Readers)
    BY FiniteReaders DEF Open
  <2>. QED BY <2>1, FS_Subset
<1>2. readers = 0 <=> Open = {}
  BY <1>1, FS_EmptySet DEF ReadersOfOneSession, Open
<1>. QED BY <1>2 DEF Open

LEMMA StorageInitInv == StorageInit => IInv
<1>. SUFFICES ASSUME StorageInit PROVE IInv
  OBVIOUS
<1>1. {r \in Readers : held[r] # 0} = {}
  BY DEF StorageInit
<1>2. Cardinality({r \in Readers : held[r] # 0}) = 0
  BY <1>1, FS_EmptySet
<1>3. generation \in 0..MaxGeneration /\ last \in 0..MaxGeneration /\ held \in [Readers -> 0..MaxGeneration]
  BY Constants DEF StorageInit
<1>4. StorageTypeOK
  BY <1>3 DEF StorageInit, StorageTypeOK
<1>5. Reserved /\ OneMutation /\ Generations
  BY DEF StorageInit, Reserved, OneMutation, Generations
<1>6. ReadersOfOneSession
  BY <1>2 DEF StorageInit, ReadersOfOneSession
<1>. QED BY <1>4, <1>5, <1>6 DEF IInv

LEMMA MutationInv ==
    ASSUME IInv, NEW m \in Mutators, BeginMutation(m) \/ ReleaseSd(m) \/ ReleaseMutation(m)
    PROVE  IInv'
<1>. USE DEF IInv, sessionVars, mutationVars
<1>1. CASE BeginMutation(m)
  <2>1. StorageTypeOK' /\ Generations' /\ ReadersOfOneSession'
    BY <1>1 DEF BeginMutation, CanMutate, StorageTypeOK, Generations, ReadersOfOneSession
  <2>2. OneMutation'
    BY <1>1 DEF BeginMutation, CanMutate, StorageTypeOK, OneMutation
  <2>3. Reserved'
    BY <1>1 DEF BeginMutation, CanMutate, StorageTypeOK, Reserved
  <2>. QED BY <2>1, <2>2, <2>3
<1>2. CASE ReleaseSd(m)
  <2>1. StorageTypeOK' /\ Generations' /\ ReadersOfOneSession'
    BY <1>2 DEF ReleaseSd, StorageTypeOK, Generations, ReadersOfOneSession
  <2>2. OneMutation'
    BY <1>2 DEF ReleaseSd, StorageTypeOK, OneMutation
  <2>3. Reserved'
    BY <1>2 DEF ReleaseSd, StorageTypeOK, Reserved, OneMutation
  <2>. QED BY <2>1, <2>2, <2>3
<1>3. CASE ReleaseMutation(m)
  <2>1. StorageTypeOK' /\ Generations' /\ ReadersOfOneSession'
    BY <1>3 DEF ReleaseMutation, StorageTypeOK, Generations, ReadersOfOneSession
  <2>2. OneMutation'
    BY <1>3 DEF ReleaseMutation, StorageTypeOK, OneMutation
  <2>3. Reserved'
    BY <1>3 DEF ReleaseMutation, StorageTypeOK, Reserved
  <2>. QED BY <2>1, <2>2, <2>3
<1>. QED BY <1>1, <1>2, <1>3

LEMMA RetainInv ==
    ASSUME IInv, NEW r \in Readers, NEW g \in 1..MaxGeneration, Retain(r, g)
    PROVE  IInv'
<1>. USE DEF IInv, sessionVars, mutationVars, Retain
<1>1. StorageTypeOK' /\ OneMutation' /\ Reserved' /\ Generations'
  BY DEF StorageTypeOK, OneMutation, Reserved, Generations
<1>2. Cardinality(Open') = Cardinality(Open) + 1
  <2>1. g \in 0..MaxGeneration /\ g # 0
    OBVIOUS
  <2>. QED BY <2>1, OpenCounted
<1>3. ReadersOfOneSession'
  BY <1>2 DEF ReadersOfOneSession, Open, StorageTypeOK
<1>. QED BY <1>1, <1>3

LEMMA ReleaseReadInv ==
    ASSUME IInv, NEW r \in Readers, ReleaseRead(r)
    PROVE  IInv'
<1>. USE DEF IInv, mutationVars, ReleaseRead, Close
<1>1. /\ Cardinality(Open') = Cardinality(Open) - 1
      /\ Cardinality(Open) \in Nat /\ Cardinality(Open) # 0
  <2>1. 0 \in 0..MaxGeneration
    BY Constants
  <2>. QED BY <2>1, OpenCounted
<1>2. generation = held[r] /\ readers # 0 /\ readers' = readers - 1
  BY <1>1 DEF ReadersOfOneSession, Open, StorageTypeOK
<1>3. StorageTypeOK'
  <2>1. active' \in BOOLEAN /\ session' \in Sessions \cup {Nobody}
    BY <1>2 DEF StorageTypeOK
  <2>2. generation' \in 0..MaxGeneration /\ last' \in 0..MaxGeneration
    BY <1>2, Constants DEF StorageTypeOK
  <2>3. sd' \in {"free", "mutation", "lesson"} /\ readers' \in Nat
    BY <1>2 DEF StorageTypeOK
  <2>4. held' \in [Readers -> 0..MaxGeneration] /\ UNCHANGED mutationVars
    BY <1>2, Constants DEF StorageTypeOK
  <2>. QED BY <2>1, <2>2, <2>3, <2>4 DEF StorageTypeOK
<1>7. OneMutation'
  BY DEF OneMutation
<1>4. Reserved' /\ Generations'
  BY <1>2 DEF StorageTypeOK, Reserved, Generations
<1>5. readers' = Cardinality(Open')
  BY <1>1, <1>2 DEF ReadersOfOneSession, Open
<1>6. ReadersOfOneSession'
  <2>1. CASE readers = 1 /\ ~active
    <3>1. readers' = 0
      BY <1>2, <2>1
    <3>2. Open' = {}
      <4>1. Open' \subseteq Readers /\ IsFiniteSet(Readers)
        BY FiniteReaders DEF Open
      <4>2. IsFiniteSet(Open')
        BY <4>1, FS_Subset
      <4>. QED BY <1>5, <3>1, <4>2, FS_EmptySet
    <3>. QED BY <1>5, <3>2 DEF ReadersOfOneSession, Open
  <2>2. CASE ~(readers = 1 /\ ~active)
    BY <1>2, <1>5, <2>2 DEF ReadersOfOneSession, Open, StorageTypeOK
  <2>. QED BY <2>1, <2>2
<1>. QED BY <1>3, <1>4, <1>6, <1>7

LEMMA SessionInv ==
    ASSUME IInv,
           \/ \E s \in Sessions : BeginSession(s)
           \/ \E s \in Sessions, g \in 1..MaxGeneration : EndSession(s, g)
           \/ ForceEnd
    PROVE  IInv'
<1>. USE DEF IInv, mutationVars
<1>1. ASSUME NEW s \in Sessions, BeginSession(s)
      PROVE  IInv'
  <2>. USE <1>1 DEF BeginSession, CanBegin
  <2>1. readers = 0 /\ \A r \in Readers : held[r] = 0
    BY NoneOpen DEF Reserved
  <2>5. OneMutation'
    BY DEF OneMutation
  <2>2. StorageTypeOK'
    BY Constants DEF StorageTypeOK
  <2>3. Reserved' /\ Generations'
    BY DEF StorageTypeOK, Reserved, Generations
  <2>4. ReadersOfOneSession'
    BY <2>1 DEF ReadersOfOneSession
  <2>. QED BY <2>2, <2>3, <2>4, <2>5
<1>2. ASSUME NEW s \in Sessions, NEW g \in 1..MaxGeneration, EndSession(s, g)
      PROVE  IInv'
  <2>. USE <1>2 DEF EndSession, CanEnd, Close
  <2>1. \A r \in Readers : held[r] = 0
    BY NoneOpen
  <2>5. OneMutation'
    BY DEF OneMutation
  <2>2. StorageTypeOK'
    <3>1. active' \in BOOLEAN /\ session' \in Sessions \cup {Nobody}
      BY DEF StorageTypeOK
    <3>2. generation' \in 0..MaxGeneration /\ last' \in 0..MaxGeneration
      BY Constants DEF StorageTypeOK
    <3>3. sd' \in {"free", "mutation", "lesson"} /\ readers' \in Nat
      BY DEF StorageTypeOK
    <3>4. held' \in [Readers -> 0..MaxGeneration] /\ UNCHANGED mutationVars
      BY Constants DEF StorageTypeOK
    <3>. QED BY <3>1, <3>2, <3>3, <3>4 DEF StorageTypeOK
  <2>3. Reserved' /\ Generations'
    BY DEF StorageTypeOK, Reserved, Generations
  <2>4. ReadersOfOneSession'
    BY <2>1 DEF ReadersOfOneSession
  <2>. QED BY <2>2, <2>3, <2>4, <2>5
<1>3. ASSUME ForceEnd
      PROVE  IInv'
  <2>. USE <1>3 DEF ForceEnd
  <2>5. OneMutation'
    BY DEF OneMutation
  <2>1. StorageTypeOK'
    <3>1. active' \in BOOLEAN /\ session' \in Sessions \cup {Nobody}
      BY DEF StorageTypeOK
    <3>2. generation' \in 0..MaxGeneration /\ last' \in 0..MaxGeneration
      BY Constants DEF StorageTypeOK
    <3>3. sd' \in {"free", "mutation", "lesson"} /\ readers' \in Nat
      BY DEF StorageTypeOK
    <3>4. held' \in [Readers -> 0..MaxGeneration] /\ UNCHANGED mutationVars
      BY Constants DEF StorageTypeOK
    <3>. QED BY <3>1, <3>2, <3>3, <3>4 DEF StorageTypeOK
  <2>2. Reserved' /\ Generations'
    BY DEF StorageTypeOK, Reserved, Generations
  <2>3. ReadersOfOneSession'
    BY NoneOpen DEF ReadersOfOneSession
  <2>. QED BY <2>1, <2>2, <2>3, <2>5
<1>. QED BY <1>1, <1>2, <1>3

\* Every operation of the coordinator keeps the invariant.
LEMMA StorageStepInv == IInv /\ [StorageNext]_storageVars => IInv'
<1>. SUFFICES ASSUME IInv, [StorageNext]_storageVars PROVE IInv'
  OBVIOUS
<1>1. CASE UNCHANGED storageVars
  BY <1>1 DEF storageVars, coordinatorVars, IInv, StorageTypeOK, Reserved, OneMutation, Generations,
     ReadersOfOneSession
<1>2. CASE StorageNext
  BY <1>2, MutationInv, RetainInv, ReleaseReadInv, SessionInv DEF StorageNext
<1>. QED BY <1>1, <1>2

\* The invariant holds in every state the coordinator reaches.
THEOREM StorageInvariant == StorageSpec => []IInv
<1>. QED BY StorageInitInv, StorageStepInv, PTL DEF StorageSpec

\* The coordinator keeps to the values of its types, and every open handle is
\* of the session whose readers are counted (ReleaseLessonRead).
THEOREM StorageReaders == StorageSpec => [](StorageTypeOK /\ ReadersOfOneSession)
<1>1. IInv => StorageTypeOK /\ ReadersOfOneSession
  BY DEF IInv
<1>. QED BY <1>1, StorageInvariant, PTL

\* The card is not locked by a lesson that is over and whose handles are closed
\* (ForceEndLessonSession, ReleaseLessonRead).
THEOREM StorageReturns == StorageSpec => []ReservationOwed
<1>1. IInv => ReservationOwed
  <2>. SUFFICES ASSUME IInv, sd = "lesson", ~active
                PROVE  \E r \in Readers : held[r] # 0 /\ held[r] = generation
    BY DEF ReservationOwed
  <2>1. readers # 0
    BY DEF IInv, Reserved
  <2>2. \E r \in Readers : held[r] # 0
    BY <2>1, NoneOpen DEF IInv
  <2>. QED BY <2>2 DEF IInv, ReadersOfOneSession
<1>. QED BY <1>1, StorageInvariant, PTL

\* The reservation says who may write, and so who may not.
LEMMA Excluded == IInv => WritersAlone
<1>. SUFFICES ASSUME IInv, NEW m \in Mutators, lease[m] = "held"
              PROVE  /\ ~active
                     /\ \A r \in Readers : held[r] = 0
                     /\ \A n \in Mutators : lease[n] = "held" => n = m
  BY DEF WritersAlone
<1>1. sd = "mutation"
  BY DEF IInv, Reserved
<1>2. ~active /\ readers = 0
  BY <1>1 DEF IInv, Reserved
<1>3. \A r \in Readers : held[r] = 0
  BY <1>2, NoneOpen DEF IInv
<1>4. \A n \in Mutators : lease[n] = "held" => n = m
  BY DEF IInv, OneMutation
<1>. QED BY <1>2, <1>3, <1>4

\* A task that holds a mutation lease is alone with the files, whatever tasks,
\* handles and sessions there are (TryBeginMutation, ForceEndLessonSession).
THEOREM StorageExclusion == StorageSpec => []WritersAlone
<1>. QED BY Excluded, StorageInvariant, PTL
=============================================================================
