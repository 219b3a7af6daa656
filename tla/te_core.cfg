SPECIFICATION Spec
CONSTANTS
  Tasks = {t1, t2}
  Keys = {k1, k2}
  NoKey = NoKey
  NoRun = NoRun
  MaxPerKey = 1
  MaxRetries = 1
  MaxQuestions = 1
  FastFail = TRUE
SYMMETRY Symmetry
INVARIANTS SingleRun SessionsReachable RowsAreOwned SlotAccounting KeyCapacity
PROPERTIES EndsAreKept CancelNotOverwritten
