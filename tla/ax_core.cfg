\* Two plan tasks in a row; limits, questions, retries, stops, crashes.
SPECIFICATION Spec
CONSTANTS
  p1 = p1
  p2 = p2
  p3 = p3
  s1 = s1
  s2 = s2
  NoTask = NoTask
  Slices = {s1}
  PlanTasks = {p1, p2}
  SliceOf <- OneSliceOf
  SliceDepends <- NoSliceDepends
  TaskDepends <- InARow
  MaxExecs = 6
  MaxChains = 1
  Questions = TRUE
  Limits = TRUE
  Reruns = {}
  Crashes = TRUE
  CancelsLate = FALSE
INVARIANTS TypeOK   
\* The system rests once the ids are used up.
CHECK_DEADLOCK FALSE
