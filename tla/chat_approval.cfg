SPECIFICATION Spec
CONSTANTS
  Sends = {s1}
  Wakes = {w1}
  NoTurn = NoTurn
  RequiresApproval = TRUE
PROPERTIES ReplaysAreReviewed
