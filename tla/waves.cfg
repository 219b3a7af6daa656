\* Every graph of three items that may also name an unknown id.
SPECIFICATION Spec
CONSTANTS
  Items = {a, b, c}
  Ids = {a, b, c, x}
INVARIANTS
  WavesPartition DependenciesFirst EarliestWave ForcedOnlyWhenStuck
  LoopComputesWaves
PROPERTY Terminates
\* computeWaves returns.
CHECK_DEADLOCK FALSE
