\* Two slices in a row, the first with two plan tasks, under fairness.
SPECIFICATION FairSpec
CONSTANTS
  p1 = p1
  p2 = p2
  p3 = p3
  s1 = s1
  s2 = s2
  NoTask = NoTask
  Slices = {s1, s2}
  PlanTasks = {p1, p2, p3}
  SliceOf <- TwoSlicesOf
  SliceDepends <- SecondDependsOnFirst
  TaskDepends <- FirstInARow
  MaxExecs = 6
  MaxChains = 1
  Questions = TRUE
  Limits = FALSE
  Reruns = {}
  Crashes = TRUE
  CancelsLate = FALSE
PROPERTIES ExecutionEnds InOrder
\* The system rests once the ids are used up.
CHECK_DEADLOCK FALSE
