SPECIFICATION Spec
CONSTANTS
  Tasks = {t1}
  Keys = {k1}
  NoKey = NoKey
  NoRun = NoRun
  MaxPerKey = 1
  MaxRetries = 0
  MaxQuestions = 1
  FastFail = FALSE
PROPERTY CancelIsFinal
