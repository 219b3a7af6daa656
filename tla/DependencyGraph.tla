---------------------------- MODULE DependencyGraph ----------------------------
(***************************************************************************)
(* src/services/dependency-graph.ts: how the slices of a milestone, or the *)
(* plan tasks of a slice, are sorted into waves that may run in parallel.  *)
(* `depends` maps an item to the ids it names, which need not be items.    *)
(***************************************************************************)
EXTENDS Naturals, FiniteSets

(* Mutant: some dependency is enough (`some` for `every`). *)
SatisfiedSome(remaining, completed, depends) ==
  {i \in remaining : depends[i] \cap completed # {}}
(* The items whose every dependency has completed. *)
Satisfied(remaining, completed, depends) ==
  {i \in remaining : depends[i] \subseteq completed}

(* One turn of the loop of computeWaves.  When no item is ready, because of *)
(* a cycle or of an id that is not an item, everything that is left goes    *)
(* into one last wave.                                                      *)
Ready(remaining, completed, depends) ==
  LET ready == Satisfied(remaining, completed, depends)
  IN IF ready = {} THEN remaining ELSE ready

(* What computeWaves returns: the sequence of its waves. *)
computeWaves(items, depends) ==
  LET n == Cardinality(items)
      done[k \in 0..n] ==
        IF k = 0 THEN {}
        ELSE done[k - 1] \cup Ready(items \ done[k - 1], done[k - 1], depends)
      length == Cardinality({k \in 0..n : done[k] # items})
  IN [k \in 1..length |-> done[k] \ done[k - 1]]
=============================================================================
