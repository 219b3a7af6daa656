SPECIFICATION FairSpec
CONSTANTS
  Tasks = {t1, t2}
  Keys = {k1}
  NoKey = NoKey
  NoRun = NoRun
  MaxPerKey = 1
  MaxRetries = 0
  MaxQuestions = 1
  FastFail = FALSE
INVARIANTS TypeOK
PROPERTY  ParkedResumes
