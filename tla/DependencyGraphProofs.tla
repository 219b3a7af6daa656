------------------------ MODULE DependencyGraphProofs ------------------------
(***************************************************************************)
(* What the operator computeWaves returns, for every finite set of items   *)
(* and every graph: the induction over the turns of its recursive function *)
(* goes by a least counterexample.                                         *)
(***************************************************************************)
EXTENDS DependencyGraph, Sequences, FiniteSetTheorems, WellFoundedInduction, TLAPS

(* The least-number principle.                                             *)
LEMMA Least ==
  ASSUME NEW T \in SUBSET Nat, T # {}
  PROVE  \E m \in T : \A k \in T : m <= k
<1> DEFINE R == {ss \in Nat \X Nat : ss[1] < ss[2]}
<1>1. IsWellFoundedOn(R, Nat)
  BY NatLessThanWellFounded DEF OpToRel
<1> HIDE DEF R
<1>2. PICK m \in T : \A k \in T : ~(<<k, m>> \in R)
  BY <1>1, WFMin
<1>3. \A k, j \in Nat : k < j => <<k, j>> \in R
  BY DEF R
<1>4. ASSUME NEW k \in T
      PROVE  m <= k
  <2>1. k \in Nat /\ m \in Nat
    OBVIOUS
  <2>2. ~(k < m)
    BY <1>2, <1>3, <2>1
  <2> QED
    BY <2>1, <2>2
<1> QED
  BY <1>4

-----------------------------------------------------------------------------
(* The recursive function of computeWaves: what has completed after each   *)
(* turn.                                                                   *)
Turn(d, items, depends) == d \cup Ready(items \ d, d, depends)
Unfolds(f, n, items, depends) ==
  f = [k \in 0..n |-> IF k = 0 THEN {} ELSE Turn(f[k - 1], items, depends)]
Done(items, depends) ==
  CHOOSE f : Unfolds(f, Cardinality(items), items, depends)

(* There is such a function for every number of turns.                     *)
LEMMA UnfoldsExists ==
  ASSUME NEW items, NEW depends, NEW n \in Nat
  PROVE  \E f : Unfolds(f, n, items, depends)
<1> DEFINE T == {m \in Nat : ~\E f : Unfolds(f, m, items, depends)}
<1> SUFFICES ASSUME T # {}
             PROVE  FALSE
  OBVIOUS
<1> HIDE DEF T
<1>1. T \in SUBSET Nat
  BY DEF T
<1>2. PICK m \in T : \A k \in T : m <= k
  BY <1>1, Least
<1>3. m \in Nat /\ ~\E f : Unfolds(f, m, items, depends)
  BY <1>2 DEF T
<1>4. CASE m = 0
  <2> DEFINE f == [k \in 0..0 |-> {}]
  <2>1. Unfolds(f, 0, items, depends)
    BY DEF Unfolds
  <2> QED
    BY <1>3, <1>4, <2>1
<1>5. CASE m # 0
  <2>1. m - 1 \in Nat /\ m - 1 \notin T
    BY <1>2, <1>3, <1>5
  <2>2. PICK f : Unfolds(f, m - 1, items, depends)
    BY <2>1 DEF T
  <2> DEFINE g == [k \in 0..m |-> IF k = m THEN Turn(f[m - 1], items, depends) ELSE f[k]]
             h == [k \in 0..m |-> IF k = 0 THEN {} ELSE Turn(g[k - 1], items, depends)]
  <2>3. ASSUME NEW k \in 0..m
        PROVE  g[k] = h[k]
    <3>1. CASE k = m
      <4>1. g[k] = Turn(f[m - 1], items, depends)
        BY <3>1
      <4>2. g[m - 1] = f[m - 1]
        BY <1>3, <1>5
      <4> QED
        BY <1>5, <3>1, <4>1, <4>2
    <3>2. CASE k # m /\ k # 0
      <4>1. k \in 0..(m - 1) /\ k - 1 \in 0..m /\ k - 1 # m
        BY <1>3, <3>2
      <4>2. f[k] = Turn(f[k - 1], items, depends)
        BY <2>2, <3>2, <4>1 DEF Unfolds
      <4>3. g[k] = f[k] /\ g[k - 1] = f[k - 1]
        BY <3>2, <4>1
      <4> QED
        BY <3>2, <4>2, <4>3
    <3>3. CASE k # m /\ k = 0
      <4>1. 0 \in 0..(m - 1)
        BY <1>3, <1>5
      <4>2. f[0] = {}
        BY <2>2, <4>1 DEF Unfolds
      <4> QED
        BY <3>3, <4>2
    <3> QED
      BY <3>1, <3>2, <3>3
  <2>4. g = h
    <3>1. g = [k \in 0..m |-> g[k]] /\ h = [k \in 0..m |-> h[k]]
      OBVIOUS
    <3> HIDE DEF g, h
    <3> QED
      BY <2>3, <3>1
  <2>5. Unfolds(g, m, items, depends)
    <3> HIDE DEF g
    <3> QED
      BY <2>4 DEF Unfolds
  <2> QED
    BY <1>3, <2>5
<1> QED
  BY <1>4, <1>5

(* computeWaves is what it says: the waves are the differences between     *)
(* turns, as long as something is left.                                    *)
TurnsTaken(items, depends) ==
  Cardinality({k \in 0..Cardinality(items) : Done(items, depends)[k] # items})
LEMMA Unfolded ==
  ASSUME NEW items, IsFiniteSet(items), NEW depends
  PROVE  /\ Unfolds(Done(items, depends), Cardinality(items), items, depends)
         /\ computeWaves(items, depends) =
              [k \in 1..TurnsTaken(items, depends) |->
                 Done(items, depends)[k] \ Done(items, depends)[k - 1]]
<1>1. Cardinality(items) \in Nat
  BY FS_CardinalityType
<1>2. Unfolds(Done(items, depends), Cardinality(items), items, depends)
  BY <1>1, UnfoldsExists DEF Done
<1>3. computeWaves(items, depends) =
              [k \in 1..TurnsTaken(items, depends) |->
                 Done(items, depends)[k] \ Done(items, depends)[k - 1]]
  BY DEF computeWaves, TurnsTaken, Done, Unfolds, Turn
<1> QED
  BY <1>2, <1>3

(* One turn adds items that were left, at least one if any were.           *)
LEMMA TurnAdds ==
  ASSUME NEW items, NEW depends, NEW d \in SUBSET items
  PROVE  /\ Turn(d, items, depends) \in SUBSET items
         /\ d \subseteq Turn(d, items, depends)
         /\ d # items => Turn(d, items, depends) # d
<1>1. /\ Ready(items \ d, d, depends) \subseteq items \ d
      /\ items \ d # {} => Ready(items \ d, d, depends) # {}
  BY DEF Ready, Satisfied
<1> QED
  BY <1>1 DEF Turn

(* What has completed after each turn: more and more items, one at least   *)
(* per turn until all of them have.                                        *)
LEMMA DoneGrows ==
  ASSUME NEW items, IsFiniteSet(items), NEW depends
  PROVE  LET n == Cardinality(items)
             done == Done(items, depends)
         IN /\ n \in Nat
            /\ done[0] = {}
            /\ \A k \in 0..n : done[k] \in SUBSET items
            /\ \A k \in 1..n : /\ done[k] = Turn(done[k - 1], items, depends)
                               /\ done[k - 1] \subseteq done[k]
                               /\ done[k - 1] # items => done[k - 1] # done[k]
            /\ \A k \in 0..n : done[k] = items \/ Cardinality(done[k]) >= k
<1> DEFINE n == Cardinality(items)
           done == Done(items, depends)
<1>1. n \in Nat /\ Unfolds(done, n, items, depends)
  BY FS_CardinalityType, Unfolded
<1> HIDE DEF n, done
<1>2. done[0] = {} /\ \A k \in 1..n : done[k] = Turn(done[k - 1], items, depends)
  <2>1. 0 \in 0..n /\ \A k \in 1..n : k \in 0..n /\ k # 0
    BY <1>1
  <2> QED
    BY <1>1, <2>1 DEF Unfolds
<1>3. \A k \in 0..n : done[k] \in SUBSET items
  <2> DEFINE T == {k \in 0..n : done[k] \notin SUBSET items}
  <2> SUFFICES ASSUME T # {}
               PROVE  FALSE
    OBVIOUS
  <2>1. PICK m \in T : \A k \in T : m <= k
    <3>1. T \in SUBSET Nat
      BY <1>1
    <3> HIDE DEF T
    <3> QED
      BY <3>1, Least
  <2>2. m \in 1..n /\ m - 1 \in 0..n
    BY <1>1, <1>2
  <2>3. m - 1 \notin T
    BY <2>1, <2>2
  <2>4. done[m - 1] \in SUBSET items
    BY <2>2, <2>3
  <2> QED
    BY <1>2, <2>2, <2>4, TurnAdds
<1>4. \A k \in 1..n : /\ done[k - 1] \subseteq done[k]
                      /\ done[k - 1] # items => done[k - 1] # done[k]
  <2> SUFFICES ASSUME NEW k \in 1..n
               PROVE  /\ done[k - 1] \subseteq done[k]
                      /\ done[k - 1] # items => done[k - 1] # done[k]
    OBVIOUS
  <2>1. done[k - 1] \in SUBSET items
    BY <1>1, <1>3
  <2> QED
    BY <1>2, <2>1, TurnAdds
<1>5. \A k \in 0..n : done[k] = items \/ Cardinality(done[k]) >= k
  <2> DEFINE T == {k \in 0..n : ~(done[k] = items \/ Cardinality(done[k]) >= k)}
  <2> SUFFICES ASSUME T # {}
               PROVE  FALSE
    OBVIOUS
  <2>1. PICK m \in T : \A k \in T : m <= k
    <3>1. T \in SUBSET Nat
      BY <1>1
    <3> HIDE DEF T
    <3> QED
      BY <3>1, Least
  <2>2. m \in 0..n /\ done[m] # items /\ ~(Cardinality(done[m]) >= m)
    BY <2>1
  <2>3. m # 0
    BY <1>2, <2>2, FS_EmptySet
  <2>4. m \in 1..n /\ m - 1 \in 0..n /\ m - 1 \notin T
    BY <1>1, <2>1, <2>2, <2>3
  <2>5. done[m - 1] = items \/ Cardinality(done[m - 1]) >= m - 1
    BY <2>4
  <2>6. done[m - 1] \in SUBSET items /\ done[m] \in SUBSET items
    BY <1>3, <2>4, <2>2
  <2>7. done[m - 1] # items /\ done[m - 1] \subseteq done[m] /\ done[m - 1] # done[m]
    BY <1>4, <2>2, <2>4, <2>6
  <2>8. IsFiniteSet(done[m]) /\ done[m - 1] \in SUBSET done[m]
    BY <2>6, <2>7, FS_Subset
  <2>9. /\ Cardinality(done[m - 1]) <= Cardinality(done[m])
        /\ Cardinality(done[m - 1]) # Cardinality(done[m])
        /\ IsFiniteSet(done[m - 1])
    BY <2>7, <2>8, FS_Subset
  <2>10. Cardinality(done[m - 1]) \in Nat /\ Cardinality(done[m]) \in Nat
    BY <2>8, <2>9, FS_CardinalityType
  <2> QED
    BY <2>2, <2>4, <2>5, <2>7, <2>9, <2>10
<1> QED
  BY <1>1, <1>2, <1>3, <1>4, <1>5 DEF n, done

(* The last turn is the first after which nothing is left.                 *)
LEMMA LastTurn ==
  ASSUME NEW items, IsFiniteSet(items), NEW depends
  PROVE  LET n == Cardinality(items)
             last == TurnsTaken(items, depends)
             done == Done(items, depends)
         IN /\ last \in 0..n
            /\ \A k \in 0..n : done[k] = items <=> k >= last
<1> DEFINE n == Cardinality(items)
           done == Done(items, depends)
           T == {k \in 0..n : done[k] = items}
           U == {k \in 0..n : done[k] # items}
<1>1. /\ n \in Nat
      /\ \A k \in 0..n : done[k] \in SUBSET items
      /\ \A k \in 1..n : done[k - 1] \subseteq done[k]
      /\ done[n] = items \/ Cardinality(done[n]) >= n
  BY DoneGrows
<1> HIDE DEF done
<1>2. n \in T
  <2>1. done[n] \in SUBSET items
    BY <1>1
  <2>2. IsFiniteSet(done[n]) /\ Cardinality(done[n]) <= n
        /\ (Cardinality(done[n]) = n => done[n] = items)
    BY <2>1, FS_Subset
  <2>3. Cardinality(done[n]) \in Nat
    BY <2>2, FS_CardinalityType
  <2> QED
    BY <1>1, <2>2, <2>3
<1>3. PICK m \in T : \A k \in T : m <= k
  <2>1. T \in SUBSET Nat
    BY <1>1
  <2> HIDE DEF T
  <2> QED
    BY <1>2, <2>1, Least
<1>4. \A k \in 0..n : done[k] = items <=> k >= m
  <2> DEFINE V == {k \in 0..n : k >= m /\ done[k] # items}
  <2>1. V = {}
    <3> SUFFICES ASSUME V # {}
                 PROVE  FALSE
      OBVIOUS
    <3>1. PICK j \in V : \A k \in V : j <= k
      <4>1. V \in SUBSET Nat
        BY <1>1
      <4> HIDE DEF V
      <4> QED
        BY <4>1, Least
    <3>2. j \in 0..n /\ j >= m /\ done[j] # items /\ m \in 0..n /\ done[m] = items
      BY <1>3, <3>1
    <3>3. j \in 1..n /\ j - 1 \in 0..n /\ j - 1 >= m
      BY <1>1, <3>2
    <3>4. j - 1 \notin V
      BY <3>1, <3>3
    <3>5. done[j - 1] = items
      BY <3>3, <3>4
    <3>6. done[j - 1] \subseteq done[j] /\ done[j] \in SUBSET items
      BY <1>1, <3>2, <3>3
    <3> QED
      BY <3>2, <3>5, <3>6
  <2>2. ASSUME NEW k \in 0..n, done[k] = items
        PROVE  k >= m
    BY <1>1, <1>3, <2>2
  <2> QED
    BY <2>1, <2>2
<1>5. U = 0..(m - 1) /\ m \in 0..n
  BY <1>1, <1>3, <1>4
<1>6. Cardinality(U) = m
  <2>1. m \in Nat /\ 0 \in Int /\ m - 1 \in Int
    BY <1>1, <1>5
  <2>2. Cardinality(0..(m - 1)) = IF 0 > m - 1 THEN 0 ELSE (m - 1) - 0 + 1
    BY <2>1, FS_Interval
  <2> HIDE DEF n, T, U
  <2> QED
    BY <1>5, <2>1, <2>2
<1>7. TurnsTaken(items, depends) = m
  BY <1>6 DEF TurnsTaken, done
<1> QED
  BY <1>4, <1>5, <1>7 DEF done

-----------------------------------------------------------------------------
(* What computeWaves returns, for every finite set of items and every       *)
(* graph: waves that are not empty and have no item in common, that together *)
(* have every item, and that come after what their items depend on, except  *)
(* that the last one may be what was stuck.                                 *)
WavesSort(items, depends, W) ==
  /\ W \in Seq(SUBSET items) /\ Len(W) <= Cardinality(items)
  /\ items = UNION {W[k] : k \in DOMAIN W}
  /\ \A k \in DOMAIN W : W[k] # {}
  /\ \A j, k \in DOMAIN W : j # k => W[j] \cap W[k] = {}
  /\ \A k \in DOMAIN W : \A i \in W[k] :
       \/ \A d \in depends[i] : \E j \in DOMAIN W : j < k /\ d \in W[j]
       \/ k = Len(W)

(* The order of execution of every plan: computeWaves sorts its items into  *)
(* waves (WavesSort), whatever the plan files say of dependencies.          *)
THEOREM ComputeWavesSorts ==
  ASSUME NEW items, IsFiniteSet(items), NEW depends
  PROVE  WavesSort(items, depends, computeWaves(items, depends))
<1> DEFINE n == Cardinality(items)
           done == Done(items, depends)
           last == TurnsTaken(items, depends)
           W == computeWaves(items, depends)
<1>1. /\ n \in Nat
      /\ done[0] = {}
      /\ \A k \in 0..n : done[k] \in SUBSET items
      /\ \A k \in 1..n : /\ done[k] = Turn(done[k - 1], items, depends)
                         /\ done[k - 1] \subseteq done[k]
                         /\ done[k - 1] # items => done[k - 1] # done[k]
  BY DoneGrows
<1>2. /\ last \in 0..n
      /\ \A k \in 0..n : done[k] = items <=> k >= last
  BY LastTurn
<1>3. W = [k \in 1..last |-> done[k] \ done[k - 1]]
  BY Unfolded
<1> HIDE DEF n, done, last, W
<1>4. /\ DOMAIN W = 1..last
      /\ \A k \in 1..last : /\ k \in 1..n /\ k \in 0..n /\ k - 1 \in 0..n
                           /\ W[k] = done[k] \ done[k - 1]
  BY <1>1, <1>2, <1>3
<1>5. W \in Seq(SUBSET items) /\ Len(W) = last
  <2>1. \A k \in 1..last : W[k] \in SUBSET items
    BY <1>1, <1>4
  <2>2. W \in [1..last -> SUBSET items] /\ last \in Nat
    BY <1>2, <1>3, <1>4, <2>1
  <2> QED
    BY <2>2
<1>6. ASSUME NEW k \in 1..last
      PROVE  W[k] # {}
  <2>1. done[k - 1] # items
    BY <1>2, <1>4
  <2>2. done[k - 1] \subseteq done[k] /\ done[k - 1] # done[k]
    BY <1>1, <1>4, <2>1
  <2>3. W[k] = done[k] \ done[k - 1]
    BY <1>4
  <2> QED
    BY <2>2, <2>3
(* An item that has completed is in a wave up to then.                      *)
<1>7. \A k \in 0..last : \A i \in done[k] : \E j \in 1..k : i \in W[j]
  <2> SUFFICES ASSUME NEW k \in 0..last, NEW i \in done[k]
               PROVE  \E j \in 1..k : i \in W[j]
    OBVIOUS
  <2> DEFINE T == {m \in 0..k : i \in done[m]}
  <2>1. PICK m \in T : \A l \in T : m <= l
    <3>1. T \in SUBSET Nat /\ k \in T
      BY <1>2
    <3> HIDE DEF T
    <3> QED
      BY <3>1, Least
  <2>2. m \in 0..k /\ i \in done[m] /\ m # 0
    BY <1>1, <2>1
  <2>3. m \in 1..last /\ m \in 1..k /\ m - 1 \in 0..k /\ m - 1 \notin T
    BY <1>2, <2>1, <2>2
  <2>4. i \notin done[m - 1]
    BY <2>3
  <2> QED
    BY <1>4, <2>2, <2>3, <2>4
(* What was in an earlier wave has completed.                               *)
<1>8. \A j \in 0..last : \A k \in j..last : done[j] \subseteq done[k]
  <2> SUFFICES ASSUME NEW j \in 0..last, NEW i \in done[j]
               PROVE  \A k \in j..last : i \in done[k]
    BY <1>2
  <2> DEFINE T == {k \in j..last : i \notin done[k]}
  <2> SUFFICES ASSUME T # {}
               PROVE  FALSE
    OBVIOUS
  <2>1. PICK m \in T : \A l \in T : m <= l
    <3>1. T \in SUBSET Nat
      BY <1>2
    <3> HIDE DEF T
    <3> QED
      BY <3>1, Least
  <2>2. m \in j..last /\ i \notin done[m] /\ m # j
    BY <2>1
  <2>3. m \in 1..last /\ m - 1 \in j..last /\ m - 1 \notin T
    BY <1>2, <2>1, <2>2
  <2>4. i \in done[m - 1]
    BY <2>3
  <2> QED
    BY <1>1, <1>4, <2>2, <2>3, <2>4
<1>9. items = UNION {W[k] : k \in 1..last}
  <2>1. done[last] = items
    BY <1>1, <1>2
  <2>2. \A k \in 1..last : W[k] \in SUBSET items
    BY <1>1, <1>4
  <2>3. \A i \in items : \E k \in 1..last : i \in W[k]
    BY <1>2, <1>7, <2>1
  <2> QED
    BY <2>2, <2>3
<1>10. ASSUME NEW j \in 1..last, NEW k \in 1..last, j # k
       PROVE  W[j] \cap W[k] = {}
  <2>1. ASSUME NEW a \in 1..last, NEW b \in 1..last, a < b
        PROVE  W[a] \cap W[b] = {}
    <3>1. a \in 0..last /\ b - 1 \in a..last
      BY <1>2, <2>1
    <3>2. done[a] \subseteq done[b - 1]
      BY <1>8, <3>1
    <3> QED
      BY <1>4, <3>2
  <2>2. j < k \/ k < j
    BY <1>2, <1>10
  <2> QED
    BY <2>1, <2>2
<1>11. ASSUME NEW k \in 1..last, NEW i \in W[k], k # last
       PROVE  \A d \in depends[i] : \E j \in 1..last : j < k /\ d \in W[j]
  <2> DEFINE d0 == done[k - 1]
  <2>1. i \in done[k] /\ i \notin d0 /\ done[k] = Turn(d0, items, depends) /\ done[k] # items
    BY <1>1, <1>2, <1>4, <1>11
  <2>2. k - 1 \in 0..last /\ d0 \in SUBSET items
    BY <1>1, <1>2, <1>4
  <2>3. depends[i] \subseteq d0
    <3>1. i \in Ready(items \ d0, d0, depends)
      BY <2>1 DEF Turn
    <3>2. Satisfied(items \ d0, d0, depends) # {}
      BY <2>1, <2>2 DEF Turn, Ready
    <3> QED
      BY <3>1, <3>2 DEF Ready, Satisfied
  <2>4. \A d \in d0 : \E j \in 1..(k - 1) : d \in W[j]
    BY <1>7, <2>2
  <2>5. \A j \in 1..(k - 1) : j \in 1..last /\ j < k
    BY <1>2
  <2> QED
    BY <2>3, <2>4, <2>5
<1>12. last <= n
  BY <1>1, <1>2
<1> QED
  BY <1>4, <1>5, <1>6, <1>9, <1>10, <1>11, <1>12 DEF WavesSort, n, W
=============================================================================
