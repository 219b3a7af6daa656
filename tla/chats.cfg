SPECIFICATION Spec
CONSTANTS
  Sends = {s1, s2}
  Wakes = {w1, w2}
  NoTurn = NoTurn
  RequiresApproval = TRUE
INVARIANTS ParkedIsWoken BusyMeansReplaying TurnsAreSeen 
PROPERTIES ImplementsChatLife ParkedResumes
