----------------------------- MODULE ComputeWaves -----------------------------
(***************************************************************************)
(* The loop of computeWaves (src/services/dependency-graph.ts), one turn   *)
(* of the loop per step, over every dependency graph: plan files are       *)
(* written by hand or by a model, so cycles, self-loops and ids that name  *)
(* nothing all occur.                                                      *)
(***************************************************************************)
EXTENDS DependencyGraph, Sequences

CONSTANTS Items,   \* the items to be sorted
          Ids      \* every id that a `depends` list may name

ASSUME ItemsAssumption == IsFiniteSet(Items) /\ Items \subseteq Ids

VARIABLES depends,     \* the argument of computeWaves
          remaining, completed, waves   \* its locals
vars == <<depends, remaining, completed, waves>>

Init ==
  /\ depends \in [Items -> SUBSET Ids]
  /\ remaining = Items
  /\ completed = {}
  /\ waves = <<>>

(* Mutant: the loop stops at the first turn in which nothing is ready. *)
StopAtCycle ==
  LET ready == Satisfied(remaining, completed, depends)
  IN /\ ready # {}
     /\ remaining' = remaining \ ready
     /\ completed' = completed \cup ready
     /\ waves' = Append(waves, ready)
     /\ UNCHANGED depends
(* Mutant: a dependency is ticked off as soon as it is seen to be ready. *)
NextWaveEager ==
  LET ready == Ready(remaining, completed, depends)
      chained == Satisfied(remaining, completed \cup ready, depends)
  IN /\ remaining # {}
     /\ remaining' = remaining \ (ready \cup chained)
     /\ completed' = completed \cup ready \cup chained
     /\ waves' = Append(waves, ready \cup chained)
     /\ UNCHANGED depends
(* Mutant: only what was ready by itself leaves `remaining`. *)
NextWaveKeepsForced ==
  LET ready == Ready(remaining, completed, depends)
  IN /\ remaining # {}
     /\ remaining' = remaining \ Satisfied(remaining, completed, depends)
     /\ completed' = completed \cup ready
     /\ waves' = Append(waves, ready)
     /\ UNCHANGED depends
(* Mutant: one ready item per wave. *)
NextWaveOne ==
  \E i \in Ready(remaining, completed, depends) :
    /\ remaining' = remaining \ {i}
    /\ completed' = completed \cup {i}
    /\ waves' = Append(waves, {i})
    /\ UNCHANGED depends
NextWave ==
  LET ready == Ready(remaining, completed, depends)
  IN /\ remaining # {}
     /\ remaining' = remaining \ ready
     /\ completed' = completed \cup ready
     /\ waves' = Append(waves, ready)
     /\ UNCHANGED depends

Spec == Init /\ [][NextWave]_vars /\ WF_vars(NextWave)
-----------------------------------------------------------------------------
TypeOK ==
  /\ depends \in [Items -> SUBSET Ids]
  /\ remaining \subseteq Items
  /\ completed \subseteq Items
  /\ waves \in Seq(SUBSET Items)

(* The items of the waves before wave k. *)
Before(k) == UNION {waves[j] : j \in 1..(k - 1)}
InOrder(k) == \A i \in waves[k] : depends[i] \subseteq Before(k)
Forced(k) == \A i \in waves[k] : ~(depends[i] \subseteq Before(k))

(* Every item is in exactly one wave or still remaining, and no wave is     *)
(* empty: nothing is run twice, nothing is lost to a cycle.                 *)
WavesPartition ==
  /\ completed = Items \ remaining
  /\ completed = UNION {waves[k] : k \in DOMAIN waves}
  /\ \A k \in DOMAIN waves : waves[k] # {}
  /\ \A j, k \in DOMAIN waves : j # k => waves[j] \cap waves[k] = {}

(* The dependencies of an item come in earlier waves.  Only the last wave   *)
(* may break this, and it then holds exactly the items stuck on a cycle or  *)
(* on an unknown id: no item that could have run in order is caught in it.  *)
DependenciesFirst ==
  \A k \in DOMAIN waves :
    InOrder(k) \/ (Forced(k) /\ k = Len(waves) /\ remaining = {})

(* Nothing waits for a wave it does not need: an item of a wave in order    *)
(* depends on some item of the wave before.                                 *)
EarliestWave ==
  \A k \in DOMAIN waves : k > 1 /\ InOrder(k) =>
    \A i \in waves[k] : depends[i] \cap waves[k - 1] # {}

(* A set of items none of which can ever be satisfied. *)
Stuck(S) == \A i \in S : depends[i] \cap (S \cup (Ids \ Items)) # {}
(* The loop gives up the order only where there is no order to be had: a    *)
(* graph without cycles and unknown ids never has a forced wave.            *)
ForcedOnlyWhenStuck ==
  (\A S \in SUBSET Items : S # {} => ~Stuck(S)) =>
    \A k \in DOMAIN waves : InOrder(k)

(* The loop is what the operator computeWaves says of it, which is what the *)
(* model of the auto-executor uses.                                         *)
LoopComputesWaves == remaining = {} => waves = computeWaves(Items, depends)

(* The loop ends for every graph: no plan can hang the event loop.          *)
Terminates == <>(remaining = {})
=============================================================================
