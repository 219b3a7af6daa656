-------------------------- MODULE ComputeWavesProofs --------------------------
(***************************************************************************)
(* What computeWaves promises, for every set of items and every graph.     *)
(***************************************************************************)
EXTENDS ComputeWaves, DependencyGraphProofs

(* Nothing that is left could have been in a wave before the last one.     *)
NothingOverdue ==
  waves # <<>> => \A i \in remaining : ~(depends[i] \subseteq Before(Len(waves)))

IInv == TypeOK /\ WavesPartition /\ DependenciesFirst /\ EarliestWave /\ NothingOverdue

(* One turn of the loop, seen from the sequence of waves: the old waves and *)
(* what comes before each of them stay, and `ready` is the last one.        *)
LEMMA TurnOfLoop ==
  ASSUME TypeOK, WavesPartition, NextWave, remaining # {}
  PROVE  LET ready == Ready(remaining, completed, depends) IN
         /\ ready \subseteq remaining /\ ready # {}
         /\ waves' \in Seq(SUBSET Items)
         /\ Len(waves') = Len(waves) + 1
         /\ \A k \in DOMAIN waves : waves'[k] = waves[k]
         /\ waves'[Len(waves) + 1] = ready
         /\ \A k \in 1..(Len(waves) + 1) : Before(k)' = Before(k)
         /\ Before(Len(waves) + 1) = completed
<1> DEFINE ready == Ready(remaining, completed, depends)
<1>1. ready \subseteq remaining /\ ready # {}
  BY DEF Ready, Satisfied
<1>2. waves \in Seq(SUBSET Items) /\ ready \in SUBSET Items
  BY <1>1 DEF TypeOK
<1>3. waves' = Append(waves, ready)
  BY DEF NextWave
<1> HIDE DEF ready
<1>4. /\ waves' \in Seq(SUBSET Items)
      /\ Len(waves') = Len(waves) + 1
      /\ \A k \in DOMAIN waves : waves'[k] = waves[k]
      /\ waves'[Len(waves) + 1] = ready
  BY <1>2, <1>3
<1>5. ASSUME NEW k \in 1..(Len(waves) + 1)
      PROVE  Before(k)' = Before(k)
  <2>1. \A j \in 1..(k - 1) : waves'[j] = waves[j]
    BY <1>2, <1>4
  <2> QED
    BY <2>1 DEF Before
<1>6. Before(Len(waves) + 1) = completed
  <2>1. DOMAIN waves = 1..Len(waves) /\ Len(waves) \in Nat
    BY <1>2
  <2>2. 1..((Len(waves) + 1) - 1) = DOMAIN waves
    BY <2>1
  <2> QED
    BY <2>2 DEF Before, WavesPartition
<1> QED
  BY <1>1, <1>4, <1>5, <1>6 DEF ready

LEMMA InitEstablishes == Init => IInv
<1> SUFFICES ASSUME Init PROVE IInv
  OBVIOUS
<1>1. waves = <<>> /\ DOMAIN waves = {} /\ completed = {} /\ remaining = Items
  BY DEF Init
<1>2. TypeOK
  BY <1>1 DEF Init, TypeOK
<1>3. WavesPartition
  BY <1>1 DEF WavesPartition
<1> QED
  BY <1>1, <1>2, <1>3 DEF IInv, DependenciesFirst, EarliestWave, NothingOverdue

LEMMA NextPreserves == IInv /\ [NextWave]_vars => IInv'
<1> SUFFICES ASSUME IInv, [NextWave]_vars PROVE IInv'
  OBVIOUS
<1>1. CASE UNCHANGED vars
  BY <1>1 DEF vars, IInv, TypeOK, WavesPartition, DependenciesFirst,
              EarliestWave, NothingOverdue, InOrder, Forced, Before
<1>2. CASE NextWave
  <2> DEFINE ready == Ready(remaining, completed, depends)
  <2>0. PICK n : n = Len(waves) + 1
    OBVIOUS
  <2>1. /\ remaining # {} /\ depends' = depends
        /\ remaining' = remaining \ ready /\ completed' = completed \cup ready
    BY <1>2 DEF NextWave
  <2>2. /\ ready \subseteq remaining /\ ready # {}
        /\ waves' \in Seq(SUBSET Items) /\ Len(waves') = n
        /\ \A k \in DOMAIN waves : waves'[k] = waves[k]
        /\ waves'[n] = ready
        /\ \A k \in 1..n : Before(k)' = Before(k)
        /\ Before(n) = completed
    BY <1>2, <2>0, <2>1, TurnOfLoop DEF IInv
  <2>3. ready = remaining \/ \A i \in ready : depends[i] \subseteq completed
    BY DEF Ready, Satisfied
  <2>4. \/ \A i \in ready : depends[i] \subseteq completed
        \/ ready = remaining /\ \A i \in ready : ~(depends[i] \subseteq completed)
    BY DEF Ready, Satisfied
  <2>5. \A i \in remaining : depends[i] \subseteq completed => i \in ready
    BY DEF Ready, Satisfied
  <2> HIDE DEF ready
  <2>6. /\ DOMAIN waves = 1..Len(waves) /\ Len(waves) \in Nat
        /\ DOMAIN waves' = DOMAIN waves \cup {n} /\ n \notin DOMAIN waves
    BY <2>0, <2>2 DEF IInv, TypeOK
  <2>7. TypeOK'
    BY <2>1, <2>2 DEF IInv, TypeOK
  <2>8. WavesPartition'
    <3>1. completed' = Items \ remaining'
      BY <2>1, <2>2 DEF IInv, WavesPartition, TypeOK
    <3>2. UNION {waves'[k] : k \in DOMAIN waves'} = (UNION {waves[k] : k \in DOMAIN waves}) \cup ready
      BY <2>2, <2>6
    <3>3. \A k \in DOMAIN waves : waves[k] \cap ready = {}
      BY <2>2 DEF IInv, WavesPartition
    <3>4. \A k \in DOMAIN waves' : waves'[k] # {}
      BY <2>2, <2>6 DEF IInv, WavesPartition
    <3>5. \A j, k \in DOMAIN waves' : j # k => waves'[j] \cap waves'[k] = {}
      BY <2>2, <2>6, <3>3 DEF IInv, WavesPartition
    <3> QED
      BY <2>1, <3>1, <3>2, <3>4, <3>5 DEF IInv, WavesPartition
  <2>9. \A k \in DOMAIN waves : InOrder(k)
    BY <2>1 DEF IInv, DependenciesFirst
  <2>10. \A k \in DOMAIN waves : InOrder(k)'
    BY <2>0, <2>1, <2>2, <2>6, <2>9 DEF InOrder
  <2>11. \/ InOrder(n)'
         \/ Forced(n)' /\ remaining' = {}
    <3>1. n \in 1..n
      BY <2>0, <2>6
    <3>2. Before(n)' = completed
      BY <2>2, <3>1
    <3> QED
      BY <2>1, <2>2, <2>4, <3>2 DEF InOrder, Forced
  <2>12. DependenciesFirst'
    BY <2>2, <2>6, <2>10, <2>11 DEF DependenciesFirst
  <2>13. EarliestWave'
    <3> SUFFICES ASSUME NEW k \in DOMAIN waves', k > 1, InOrder(k)', NEW i \in waves'[k]
                 PROVE  depends[i] \cap waves'[k - 1] # {}
      BY <2>1 DEF EarliestWave
    <3>1. CASE k \in DOMAIN waves
      <4>1. k - 1 \in DOMAIN waves
        BY <2>6, <3>1
      <4> QED
        BY <2>2, <2>9, <3>1, <4>1 DEF IInv, EarliestWave
    <3>2. CASE k = n
      <4>1. waves # <<>> /\ Len(waves) \in DOMAIN waves /\ k - 1 = Len(waves)
        BY <2>0, <2>6, <3>2
      <4>2. i \in remaining
        BY <2>2, <3>2
      <4>3. ~(depends[i] \subseteq Before(Len(waves)))
        BY <4>1, <4>2 DEF IInv, NothingOverdue
      <4>4. n \in 1..n /\ Before(n)' = Before(n)
        BY <2>0, <2>2, <2>6
      <4>5. depends[i] \subseteq Before(n)
        BY <2>1, <3>2, <4>4 DEF InOrder
      <4>6. Before(n) = Before(Len(waves)) \cup waves[Len(waves)]
        <5>1. 1..(n - 1) = 1..(Len(waves) - 1) \cup {Len(waves)}
          BY <2>0, <2>6, <4>1
        <5> QED
          BY <5>1 DEF Before
      <4>7. waves'[k - 1] = waves[Len(waves)]
        BY <2>2, <4>1
      <4> QED
        BY <4>3, <4>5, <4>6, <4>7
    <3> QED
      BY <2>6, <3>1, <3>2
  <2>14. NothingOverdue'
    <3>1. n \in 1..n /\ Before(n)' = completed
      BY <2>0, <2>2, <2>6
    <3> SUFFICES ASSUME NEW i \in remaining'
                 PROVE  ~(depends[i] \subseteq completed)
      BY <2>1, <2>2, <3>1 DEF NothingOverdue
    <3> QED
      BY <2>1, <2>5
  <2> QED
    BY <2>7, <2>8, <2>12, <2>13, <2>14 DEF IInv
<1> QED
  BY <1>1, <1>2

LEMMA Inductive == Spec => []IInv
  BY InitEstablishes, NextPreserves, PTL DEF Spec

(* The variables keep their types. *)
THEOREM TypeCorrect == Spec => []TypeOK
<1>1. IInv => TypeOK
  BY DEF IInv
<1> QED
  BY <1>1, Inductive, PTL

(* computeWaves neither loses nor repeats an item. *)
THEOREM WavesPartitionItems == Spec => []WavesPartition
<1>1. IInv => WavesPartition
  BY DEF IInv
<1> QED
  BY <1>1, Inductive, PTL

(* Only the last wave can hold an item before its dependencies, and then    *)
(* only items that are stuck.                                               *)
THEOREM OrderIsKept == Spec => []DependenciesFirst
<1>1. IInv => DependenciesFirst
  BY DEF IInv
<1> QED
  BY <1>1, Inductive, PTL

(* No item waits for a wave it does not need. *)
THEOREM WavesAreEarliest == Spec => []EarliestWave
<1>1. IInv => EarliestWave
  BY DEF IInv
<1> QED
  BY <1>1, Inductive, PTL

(* A forced wave is itself a stuck set, so a graph without one is sorted.   *)
THEOREM SortsEveryDag == Spec => []ForcedOnlyWhenStuck
<1>1. IInv => ForcedOnlyWhenStuck
  <2> SUFFICES ASSUME IInv, \A S \in SUBSET Items : S # {} => ~Stuck(S),
                      NEW k \in DOMAIN waves
               PROVE  InOrder(k)
    BY DEF ForcedOnlyWhenStuck
  <2> SUFFICES ASSUME Forced(k), k = Len(waves), remaining = {}
               PROVE  FALSE
    BY DEF IInv, DependenciesFirst
  <2>1. waves[k] \subseteq Items /\ waves[k] # {}
    BY DEF IInv, TypeOK, WavesPartition
  <2>2. DOMAIN waves = 1..Len(waves) /\ Len(waves) \in Nat
    BY DEF IInv, TypeOK
  <2>3. Items = Before(k) \cup waves[k]
    <3>1. DOMAIN waves = 1..(k - 1) \cup {k}
      BY <2>2
    <3>2. Items = UNION {waves[j] : j \in DOMAIN waves}
      BY DEF IInv, WavesPartition
    <3> QED
      BY <3>1, <3>2 DEF Before
  <2>4. Stuck(waves[k])
    <3> SUFFICES ASSUME NEW i \in waves[k]
                 PROVE  depends[i] \cap (waves[k] \cup (Ids \ Items)) # {}
      BY DEF Stuck
    <3>1. ~(depends[i] \subseteq Before(k))
      BY DEF Forced
    <3>2. depends[i] \subseteq Ids
      BY <2>1 DEF IInv, TypeOK
    <3> QED
      BY <2>3, <3>1, <3>2
  <2> QED
    BY <2>1, <2>4
<1> QED
  BY <1>1, Inductive, PTL

-----------------------------------------------------------------------------
(* The loop against the operator: after each turn the locals hold what the  *)
(* recursive function of computeWaves has for that turn.                    *)
Follows ==
  /\ Len(waves) \in 0..Cardinality(Items)
  /\ completed = Done(Items, depends)[Len(waves)]
  /\ \A k \in DOMAIN waves :
       waves[k] = Done(Items, depends)[k] \ Done(Items, depends)[k - 1]

LEMMA FollowsInit == Init => Follows
<1> SUFFICES ASSUME Init PROVE Follows
  OBVIOUS
<1>1. waves = <<>> /\ DOMAIN waves = {} /\ Len(waves) = 0 /\ completed = {}
  BY DEF Init
<1>2. Cardinality(Items) \in Nat /\ Done(Items, depends)[0] = {}
  BY ItemsAssumption, DoneGrows
<1> QED
  BY <1>1, <1>2 DEF Follows

LEMMA FollowsNext == IInv /\ Follows /\ [NextWave]_vars => Follows'
<1> SUFFICES ASSUME IInv, Follows, [NextWave]_vars
             PROVE  Follows'
  OBVIOUS
<1>1. CASE UNCHANGED vars
  BY <1>1 DEF vars, Follows
<1>2. CASE NextWave
  <2> DEFINE n == Cardinality(Items)
             l == Len(waves)
             done == Done(Items, depends)
             ready == Ready(remaining, completed, depends)
  <2>1. /\ depends' = depends /\ completed' = completed \cup ready
        /\ waves' = Append(waves, ready) /\ remaining # {}
    BY <1>2 DEF NextWave
  <2>2. /\ n \in Nat
        /\ \A k \in 1..n : done[k] = Turn(done[k - 1], Items, depends)
    BY ItemsAssumption, DoneGrows
  <2>3. done[n] = Items
    <3> DEFINE last == TurnsTaken(Items, depends)
    <3>1. last \in 0..n /\ \A k \in 0..n : done[k] = Items <=> k >= last
      BY ItemsAssumption, LastTurn
    <3> HIDE DEF n, done, last
    <3> QED
      BY <2>2, <3>1
  <2>4. /\ l \in 0..n /\ completed = done[l]
        /\ \A k \in DOMAIN waves : waves[k] = done[k] \ done[k - 1]
    BY DEF Follows
  <2>5. completed = Items \ remaining /\ remaining \subseteq Items /\ waves \in Seq(SUBSET Items)
    BY DEF IInv, WavesPartition, TypeOK
  <2>6. l # n
    BY <2>1, <2>3, <2>4, <2>5
  <2>7. l + 1 \in 1..n /\ (l + 1) - 1 = l
    BY <2>2, <2>4, <2>6
  <2>8. done[l + 1] = completed \cup ready
    <3>1. done[l + 1] = Turn(completed, Items, depends)
      BY <2>2, <2>4, <2>7
    <3>2. Items \ completed = remaining
      BY <2>5
    <3> QED
      BY <3>1, <3>2 DEF Turn
  <2>9. ready = done[l + 1] \ done[l]
    BY <2>4, <2>5, <2>8 DEF Ready, Satisfied
  <2> HIDE DEF ready, done, n
  <2>10. /\ Len(waves') = l + 1 /\ DOMAIN waves' = DOMAIN waves \cup {l + 1}
         /\ waves'[l + 1] = ready
         /\ \A k \in DOMAIN waves : waves'[k] = waves[k]
    BY <2>1, <2>5
  <2>11. \A k \in DOMAIN waves' : waves'[k] = done[k] \ done[k - 1]
    BY <2>4, <2>7, <2>9, <2>10
  <2> QED
    BY <2>1, <2>7, <2>8, <2>10, <2>11, <2>2 DEF Follows, done, n
<1> QED
  BY <1>1, <1>2

(* The loop returns what the operator computeWaves says (LoopComputesWaves) *)
(* for every set of items and every graph: its waves are the turns of the   *)
(* recursive function, and it ends at the first that leaves nothing.        *)
THEOREM LoopIsOperator == Spec => []LoopComputesWaves
<1>1. IInv /\ Follows => LoopComputesWaves
  <2> SUFFICES ASSUME IInv, Follows, remaining = {}
               PROVE  waves = computeWaves(Items, depends)
    BY DEF LoopComputesWaves
  <2> DEFINE n == Cardinality(Items)
             l == Len(waves)
             done == Done(Items, depends)
             last == TurnsTaken(Items, depends)
  <2>1. /\ last \in 0..n
        /\ \A k \in 0..n : done[k] = Items <=> k >= last
    BY ItemsAssumption, LastTurn
  <2>2. /\ n \in Nat
        /\ \A k \in 0..n : done[k] \in SUBSET Items
    BY ItemsAssumption, DoneGrows
  <2>3. computeWaves(Items, depends) = [k \in 1..last |-> done[k] \ done[k - 1]]
    BY ItemsAssumption, Unfolded
  <2>4. /\ l \in 0..n /\ completed = done[l]
        /\ \A k \in DOMAIN waves : waves[k] = done[k] \ done[k - 1]
    BY DEF Follows
  <2>5. /\ completed = Items /\ waves \in Seq(SUBSET Items)
        /\ \A k \in DOMAIN waves : waves[k] # {}
    BY DEF IInv, WavesPartition, TypeOK
  <2>6. waves = [k \in 1..l |-> waves[k]] /\ DOMAIN waves = 1..l
    BY <2>5
  <2> HIDE DEF n, l, done, last
  <2>7. l >= last
    BY <2>1, <2>4, <2>5
  <2>8. ~(l > last)
    <3> SUFFICES ASSUME l > last PROVE FALSE
      OBVIOUS
    <3>1. l \in 1..l /\ l \in 0..n /\ l - 1 \in 0..n /\ l - 1 >= last
      BY <2>1, <2>2, <2>4
    <3>2. done[l - 1] = Items /\ done[l] \in SUBSET Items
      BY <2>1, <2>2, <3>1
    <3>3. waves[l] = done[l] \ done[l - 1] /\ waves[l] # {}
      BY <2>4, <2>5, <2>6, <3>1
    <3> QED
      BY <3>2, <3>3
  <2>9. l = last
    BY <2>1, <2>2, <2>4, <2>7, <2>8
  <2>10. [k \in 1..l |-> waves[k]] = [k \in 1..l |-> done[k] \ done[k - 1]]
    BY <2>4, <2>6
  <2> QED
    BY <2>3, <2>6, <2>9, <2>10
<1>2. Spec => []Follows
  BY Inductive, FollowsInit, FollowsNext, PTL DEF Spec
<1> QED
  BY <1>1, <1>2, Inductive, PTL
=============================================================================
