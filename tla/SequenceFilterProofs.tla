-------------------------- MODULE SequenceFilterProofs --------------------------
(***************************************************************************)
(* What Only keeps of a sequence.  Its definition is recursive, so these   *)
(* facts need induction over the length.  The library states induction for *)
(* an operator, which the provers cannot instantiate; here it is stated    *)
(* for a set of naturals, from the well-foundedness of < (WFMin).          *)
(***************************************************************************)
EXTENDS SequenceFilter, WellFoundedInduction, SequenceTheorems, TLAPS

\* Induction, by the least natural number that is not in the set.
LEMMA Induct ==
    ASSUME NEW T \in SUBSET Nat, 0 \in T, \A n \in T : n + 1 \in T
    PROVE  T = Nat
<1>1. ASSUME Nat \ T # {} PROVE FALSE
  <2>1. PICK x \in Nat \ T : \A y \in Nat \ T : ~(<<y, x>> \in OpToRel(<, Nat))
    BY <1>1, NatLessThanWellFounded, WFMin
  <2>2. \A y \in Nat \ T : ~(y < x)
    BY <2>1 DEF OpToRel
  <2>3. x \in Nat /\ x \notin T
    OBVIOUS
  <2>4. x # 0 /\ x - 1 \in Nat
    BY <2>3
  <2>5. x - 1 \in T
    BY <2>2, <2>4
  <2>6. x - 1 + 1 = x
    BY <2>3
  <2>. QED BY <2>3, <2>5, <2>6
<1>. QED BY <1>1

\* The value at n of the function that Only is built from.
Kept(q, S, n, f) ==
    IF n = 0 THEN << >> ELSE IF q[n] \in S THEN Append(f[n - 1], q[n]) ELSE f[n - 1]

\* The recursion has a solution on every prefix.
LEMMA Prefixes ==
    ASSUME NEW T, NEW q \in Seq(T), NEW S, NEW m \in Nat, m <= Len(q)
    PROVE  \E f : f = [n \in 0..m |-> Kept(q, S, n, f)]
<1>. DEFINE Good == {k \in Nat : \E f : f = [n \in 0..k |-> Kept(q, S, n, f)]}
<1>1. 0 \in Good
  <2>1. [n \in 0..0 |-> << >>] = [n \in 0..0 |-> Kept(q, S, n, [j \in 0..0 |-> << >>])]
    BY DEF Kept
  <2>. QED BY <2>1
<1>2. ASSUME NEW k \in Good PROVE k + 1 \in Good
  <2>1. PICK f : f = [n \in 0..k |-> Kept(q, S, n, f)]
    OBVIOUS
  <2>. DEFINE g == [n \in 0..(k + 1) |-> IF n <= k THEN f[n] ELSE Kept(q, S, n, f)]
  <2>2. k \in Nat /\ \A n \in 0..k : f[n] = Kept(q, S, n, f)
    BY <2>1
  <2>3. ASSUME NEW n \in 0..(k + 1) PROVE g[n] = Kept(q, S, n, g)
    <3>1. CASE n = 0
      BY <2>1, <2>2, <3>1 DEF Kept
    <3>2. CASE n # 0
      <4>1. n - 1 \in 0..k /\ n - 1 \in 0..(k + 1) /\ g[n - 1] = f[n - 1]
        BY <2>2, <3>2
      <4>2. Kept(q, S, n, g) = Kept(q, S, n, f)
        BY <4>1 DEF Kept
      <4>3. g[n] = Kept(q, S, n, f)
        BY <2>2
      <4>. QED BY <4>2, <4>3
    <3>. QED BY <3>1, <3>2
  <2>4. g = [n \in 0..(k + 1) |-> Kept(q, S, n, g)]
    BY <2>3
  <2>. QED BY <2>2, <2>4
<1>. HIDE DEF Good
<1>3. Good = Nat
  <2>1. Good \in SUBSET Nat
    BY DEF Good
  <2>. QED BY <2>1, <1>1, <1>2, Induct
<1>. QED BY <1>3 DEF Good

\* So the function that Only is built from satisfies its own equation.
LEMMA OnlyDefined ==
    ASSUME NEW T, NEW q \in Seq(T), NEW S
    PROVE  \E f : /\ f = [n \in 0..Len(q) |-> Kept(q, S, n, f)]
                  /\ Only(q, S) = f[Len(q)]
<1>. DEFINE f == CHOOSE f : f = [n \in 0..Len(q) |-> Kept(q, S, n, f)]
<1>1. f = [n \in 0..Len(q) |-> Kept(q, S, n, f)]
  <2>1. \E g : g = [n \in 0..Len(q) |-> Kept(q, S, n, g)]
    BY Prefixes
  <2>. QED BY <2>1, Zenon
<1>2. Only(q, S) = f[Len(q)]
  BY DEF Only, Kept
<1>. QED BY <1>1, <1>2

\* That equation, case by case.
LEMMA OnlySteps ==
    ASSUME NEW T, NEW q \in Seq(T), NEW S
    PROVE  \E f : /\ f[0] = << >> /\ Only(q, S) = f[Len(q)]
                  /\ \A n \in 1..Len(q) :
                         f[n] = IF q[n] \in S THEN Append(f[n - 1], q[n]) ELSE f[n - 1]
<1>1. PICK f : f = [n \in 0..Len(q) |-> Kept(q, S, n, f)] /\ Only(q, S) = f[Len(q)]
  BY OnlyDefined
<1>2. \A n \in 0..Len(q) : f[n] = Kept(q, S, n, f)
  BY <1>1
<1>3. f[0] = << >>
  BY <1>2 DEF Kept
<1>4. \A n \in 1..Len(q) : f[n] = IF q[n] \in S THEN Append(f[n - 1], q[n]) ELSE f[n - 1]
  BY <1>2 DEF Kept
<1>. QED BY <1>1, <1>3, <1>4, Zenon

\* The sequences a filter may leave of q: elements of q that are in S, and no
\* more of them than q has.
Thinned(q, T, S) ==
    {c \in Seq(T \cap S) : /\ Len(c) <= Len(q)
                           /\ \A i \in 1..Len(c) : \E j \in 1..Len(q) : q[j] = c[i]}

\* A filtered sequence is no longer than the sequence, and holds only elements
\* of the sequence that are in the set.
LEMMA OnlyFits ==
    ASSUME NEW T, NEW q \in Seq(T), NEW S
    PROVE  Only(q, S) \in Thinned(q, T, S)
<1>1. PICK f : /\ f[0] = << >> /\ Only(q, S) = f[Len(q)]
               /\ \A n \in 1..Len(q) :
                      f[n] = IF q[n] \in S THEN Append(f[n - 1], q[n]) ELSE f[n - 1]
  BY OnlySteps
<1>. DEFINE Fit(n) == /\ f[n] \in Seq(T \cap S) /\ Len(f[n]) <= n
                      /\ \A i \in 1..Len(f[n]) : \E j \in 1..n : q[j] = f[n][i]
            Good == {n \in Nat : n <= Len(q) => Fit(n)}
<1>2. 0 \in Good
  <2>1. f[0] \in Seq(T \cap S) /\ Len(f[0]) = 0
    BY <1>1
  <2>. QED BY <2>1
<1>3. ASSUME NEW k \in Good PROVE k + 1 \in Good
  <2>1. SUFFICES ASSUME k + 1 <= Len(q) PROVE Fit(k + 1)
    OBVIOUS
  <2>2. k \in Nat /\ Fit(k) /\ k + 1 \in 1..Len(q)
    BY <2>1
  <2>3. q[k + 1] \in T
    BY <2>2
  <2>4. f[k + 1] = IF q[k + 1] \in S THEN Append(f[k], q[k + 1]) ELSE f[k]
    BY <1>1, <2>2
  <2>5. CASE q[k + 1] \in S
    <3>1. f[k + 1] = Append(f[k], q[k + 1]) /\ q[k + 1] \in T \cap S
      BY <2>3, <2>4, <2>5
    <3>2. /\ f[k + 1] \in Seq(T \cap S) /\ Len(f[k + 1]) = Len(f[k]) + 1
          /\ f[k + 1][Len(f[k]) + 1] = q[k + 1]
          /\ \A i \in 1..Len(f[k]) : f[k + 1][i] = f[k][i]
      BY <2>2, <3>1
    <3>3. \A i \in 1..Len(f[k + 1]) : i \in 1..Len(f[k]) \/ i = Len(f[k]) + 1
      BY <2>2, <3>2
    <3>4. \A i \in 1..Len(f[k + 1]) : \E j \in 1..(k + 1) : q[j] = f[k + 1][i]
      BY <2>2, <3>2, <3>3
    <3>5. Len(f[k + 1]) <= k + 1
      BY <2>2, <3>2
    <3>6. f[k + 1] \in Seq(T \cap S)
      BY <3>2
    <3>. QED BY <3>4, <3>5, <3>6
  <2>6. CASE q[k + 1] \notin S
    BY <2>2, <2>4, <2>6
  <2>. QED BY <2>5, <2>6
<1>. HIDE DEF Good
<1>4. Good = Nat
  <2>1. Good \in SUBSET Nat
    BY DEF Good
  <2>. QED BY <2>1, <1>2, <1>3, Induct
<1>5. Fit(Len(q))
  BY <1>4 DEF Good
<1>6. f[Len(q)] \in Thinned(q, T, S)
  BY <1>5 DEF Thinned
<1>. QED BY <1>1, <1>6, Zenon

\* The type of the filtered sequence, for the proofs that need no more.
LEMMA OnlyType ==
    ASSUME NEW T, NEW q \in Seq(T), NEW S
    PROVE  Only(q, S) \in Seq(T \cap S) /\ Len(Only(q, S)) <= Len(q)
<1>1. PICK c : c = Only(q, S) /\ c \in Thinned(q, T, S)
  BY OnlyFits, Zenon
<1>2. c \in Seq(T \cap S) /\ Len(c) <= Len(q)
  BY <1>1 DEF Thinned
<1>. QED BY <1>1, <1>2, Zenon

\* What is appended is filtered by itself.
LEMMA OnlyAppended ==
    ASSUME NEW T, NEW q \in Seq(T), NEW S, NEW e \in T
    PROVE  Only(Append(q, e), S) = IF e \in S THEN Append(Only(q, S), e) ELSE Only(q, S)
<1>1. PICK p \in Seq(T) : p = Append(q, e)
  <2>1. Append(q, e) \in Seq(T)
    OBVIOUS
  <2>. QED BY <2>1, Zenon
<1>2. Len(p) = Len(q) + 1 /\ p[Len(q) + 1] = e /\ \A n \in 1..Len(q) : p[n] = q[n]
  BY <1>1
<1>3. PICK f : /\ f[0] = << >> /\ Only(q, S) = f[Len(q)]
               /\ \A n \in 1..Len(q) :
                      f[n] = IF q[n] \in S THEN Append(f[n - 1], q[n]) ELSE f[n - 1]
  BY OnlySteps
<1>4. PICK g : /\ g[0] = << >> /\ Only(p, S) = g[Len(p)]
               /\ \A n \in 1..Len(p) :
                      g[n] = IF p[n] \in S THEN Append(g[n - 1], p[n]) ELSE g[n - 1]
  BY OnlySteps
<1>. DEFINE Good == {n \in Nat : n <= Len(q) => g[n] = f[n]}
<1>5. 0 \in Good
  BY <1>3, <1>4
<1>6. ASSUME NEW k \in Good PROVE k + 1 \in Good
  <2>1. SUFFICES ASSUME k + 1 <= Len(q) PROVE g[k + 1] = f[k + 1]
    OBVIOUS
  <2>2. k \in Nat /\ g[k] = f[k] /\ k + 1 \in 1..Len(q) /\ k + 1 \in 1..Len(p) /\ k + 1 - 1 = k
    BY <2>1, <1>2
  <2>3. p[k + 1] = q[k + 1]
    BY <2>2, <1>2
  <2>. QED BY <1>3, <1>4, <2>2, <2>3
<1>. HIDE DEF Good
<1>7. Good = Nat
  <2>1. Good \in SUBSET Nat
    BY DEF Good
  <2>. QED BY <2>1, <1>5, <1>6, Induct
<1>8. g[Len(q)] = f[Len(q)]
  BY <1>7 DEF Good
<1>9. Len(q) + 1 \in 1..Len(p) /\ Len(q) + 1 - 1 = Len(q)
  BY <1>2
<1>. QED BY <1>1, <1>2, <1>3, <1>4, <1>8, <1>9
=============================================================================
