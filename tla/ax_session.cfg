\* README and code: one session works on a row.
SPECIFICATION Spec
CONSTANTS
  p1 = p1
  p2 = p2
  p3 = p3
  s1 = s1
  s2 = s2
  NoTask = NoTask
  Slices = {s1}
  PlanTasks = {p1, p2}
  SliceOf <- OneSliceOf
  SliceDepends <- NoSliceDepends
  TaskDepends <- InARow
  MaxExecs = 5
  MaxChains = 2
  Questions = FALSE
  Limits = FALSE
  Reruns = {}
  Crashes = FALSE
  CancelsLate = FALSE
INVARIANTS OneSession
\* The system rests once the ids are used up.
CHECK_DEADLOCK FALSE
