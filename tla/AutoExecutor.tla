----------------------------- MODULE AutoExecutor -----------------------------
(***************************************************************************)
(* The auto-executor (src/services/auto-executor.ts) runs the plan of one  *)
(* milestone: slices in dependency waves, inside a slice its plan tasks in *)
(* dependency waves, each plan task as a row of the table tasks (an        *)
(* execution task) handed to the task executor.  The plan lives in         *)
(* markdown files, the rows in SQLite; both survive a crash, and three     *)
(* parties write the plan: the promises that wait for a row, syncPlan /    *)
(* repointPlan called by the task executor, and the planning routes.       *)
(*                                                                         *)
(* The task executor is abstracted to what the plan can see of it: the     *)
(* row, the execute() calls that have not started a session (pend, its     *)
(* queue included) and the sessions that run (live).  Module TaskExecutor  *)
(* has the rest.  timed_out is folded into failed, which the plan treats   *)
(* alike; pending_approval cannot occur, because execution tasks are       *)
(* inserted with requires_approval false.                                  *)
(***************************************************************************)
EXTENDS DependencyGraph, SequencesExt

CONSTANTS
  Slices, PlanTasks,           \* the slugs of one milestone's plan
  SliceOf, SliceDepends, TaskDepends,
  NoTask,                      \* "undefined" location
  MaxExecs,                    \* bound: ids of the table tasks that are used
  MaxChains,                   \* bound: execute() calls counted per row
  Questions,                   \* do sessions ask questions?
  Limits,                      \* do sessions hit provider limits?
  Reruns,                      \* the rows the user reruns, by status
  Crashes,                     \* does the daemon die and boot again?
  CancelsLate                  \* does the user cancel a row beyond the queue?

ASSUME PlanAssumption ==
  /\ Slices # {} /\ IsFiniteSet(Slices) /\ IsFiniteSet(PlanTasks)
  /\ SliceOf \in [PlanTasks -> Slices]
  /\ SliceDepends \in [Slices -> SUBSET Slices]
  /\ TaskDepends \in [PlanTasks -> SUBSET PlanTasks]
  /\ NoTask \notin PlanTasks
ASSUME BoundsAssumption ==
  /\ MaxExecs \in Nat \ {0} /\ MaxChains \in Nat \ {0}
  /\ {Questions, Limits, Crashes, CancelsLate} \subseteq BOOLEAN
  /\ Reruns \subseteq {"queued", "running", "waiting_for_input", "rate_limited",
                 "done", "failed", "cancelled"}

Execs == 1..MaxExecs
NoExec == 0
Executions == {1, 2}

VARIABLES
  \* ---- durable: the plan files and the rows
  milestone, slice, plan,   \* status of the milestone, slices, plan tasks
  execOf,         \* execution_task_id in the file of a plan task
  row,            \* tasks.status
  owner,          \* tasks.prompt_file: the plan task a row was made for
  retried,        \* rows whose retry_count has reached max_retries
  \* ---- memory: the task executor
  pend, live,     \* execute() calls without, and with, a session
  deferred,       \* retries handed to setTimeout(fn, 0)
  imports,        \* calls behind `import("../auto-executor.js")`
  \* ---- memory: the auto-executor
  cache,          \* planTaskByExecutionCache: ids with a positive entry
  active,         \* activeExecutions: the execution of this milestone, or 0
  ex,             \* AutoExecutorState and the promises under it
  starting,       \* the handler goes on with startAutoExecution
  called,         \* rows it has called execute() on, before that
  daemon          \* is the process up?

planVars == <<milestone, slice, plan, execOf>>
rowVars  == <<row, owner, retried>>
teVars   == <<pend, live, deferred, imports>>
loopVars == <<starting, called, daemon>>
axVars   == <<cache, active, ex, loopVars>>
vars     == <<planVars, rowVars, teVars, axVars>>
-----------------------------------------------------------------------------
PlanStatus == {"pending", "active", "completed", "failed"}
LiveRow == {"queued", "running", "waiting_for_input", "rate_limited"}
RowStatus == LiveRow \cup {"absent", "done", "failed", "cancelled"}
Over == {"completed", "failed"}

TasksOf(s) == {p \in PlanTasks : SliceOf[p] = s}
SliceWaves == computeWaves(Slices, SliceDepends)
TaskWaves(s) == computeWaves(TasksOf(s), [p \in TasksOf(s) |-> TaskDepends[p]])

Made == {e \in Execs : row[e] # "absent"}
FreshExec == Cardinality(Made) + 1

(* wave, pos: how many waves of slices, and of the tasks of a slice, have   *)
(* been started; opened: slices whose promise is pending; waits: rows whose *)
(* promise is pending.                                                      *)
Execution == [open : BOOLEAN, running : BOOLEAN, wave : 0..Cardinality(Slices),
              opened : SUBSET Slices, pos : [Slices -> 0..Cardinality(PlanTasks)],
              waits : SUBSET Execs]
Idle == [open |-> FALSE, running |-> FALSE, wave |-> 0, opened |-> {},
         pos |-> [s \in Slices |-> 0], waits |-> {}]
WaitsOf(x, s) == {e \in ex[x].waits : SliceOf[owner[e]] = s}

(* Promise continuations of the auto-executor that are due. *)
SliceDue(x, s) == s \in ex[x].opened /\ WaitsOf(x, s) = {}
AdvanceDue ==
  \E x \in Executions :
    ex[x].open /\ (ex[x].opened = {} \/ \E s \in ex[x].opened : SliceDue(x, s))
(* Promise jobs run before the next request, timer or session event.  The   *)
(* execute() calls of a turn are among them: as far as they touch the plan, *)
(* they are those on rows an execution waits for, and those of the handler. *)
InLoop == daemon /\ ~starting
Drained == InLoop /\ imports = <<>> /\ ~AdvanceDue
Serving == Drained /\ called = {}
InTurn(e) == InLoop /\ (Serving \/ e \in called \/ \E x \in Executions : e \in ex[x].waits)

Init ==
  /\ milestone = "pending"
  /\ slice = [s \in Slices |-> "pending"]
  /\ plan = [p \in PlanTasks |-> "pending"]
  /\ execOf = [p \in PlanTasks |-> NoExec]
  /\ row = [e \in Execs |-> "absent"]
  /\ owner = [e \in Execs |-> NoTask]
  /\ retried = {}
  /\ pend = [e \in Execs |-> 0]
  /\ live = [e \in Execs |-> 0]
  /\ deferred = {} /\ imports = <<>> /\ cache = {}
  /\ active = 0
  /\ ex = [x \in Executions |-> Idle]
  /\ starting = FALSE /\ called = {}
  /\ daemon = TRUE
-----------------------------------------------------------------------------
(* Calling execute() on each row of E.  A row has one entry in the queue;   *)
(* otherwise nothing in the code looks whether the row is at work already.  *)
(* MaxChains bounds the calls that count (1: as if a second call did        *)
(* nothing; OneSession is about that call).                                 *)
Chains(e) == pend[e] + live[e] + (IF e \in deferred THEN 1 ELSE 0)
Queued(e) == pend[e] > 0 /\ e \notin called
Dispatch(E) ==
  LET counted == {e \in E : Chains(e) < MaxChains /\ ~Queued(e)}
  IN pend' = [e \in Execs |-> IF e \in counted THEN pend[e] + 1 ELSE pend[e]]

(* executePlanTask for every plan task of P, up to its promise: skip what   *)
(* is over, keep the row the file points at while it is live, insert a row  *)
(* otherwise, and call execute() on it in either case.                      *)
Todo(P) == {p \in P : plan[p] \notin Over}
(* Mutant: a row is always inserted. *)
ReusableNever(p) == FALSE
Reusable(p) == execOf[p] # NoExec /\ row[execOf[p]] \in LiveRow
Targets(P) ==
  LET new == SetToSeq({p \in Todo(P) : ~Reusable(p)})
  IN [p \in Todo(P) |->
        IF Reusable(p) THEN execOf[p]
        ELSE FreshExec - 1 + CHOOSE i \in DOMAIN new : new[i] = p]
Launch(P) ==
  LET target == Targets(P)
      E == {target[p] : p \in Todo(P)}
  IN /\ E \subseteq Execs
     /\ plan' = [p \in PlanTasks |-> IF p \in Todo(P) THEN "active" ELSE plan[p]]
     /\ execOf' = [p \in PlanTasks |-> IF p \in Todo(P) THEN target[p] ELSE execOf[p]]
     /\ row' = [e \in Execs |-> IF e \in E /\ row[e] = "absent" THEN "queued" ELSE row[e]]
     /\ owner' = [e \in Execs |-> IF e \in E THEN CHOOSE p \in Todo(P) : target[p] = e
                                  ELSE owner[e]]
     /\ Dispatch(E)
Launched(P) == {Targets(P)[p] : p \in Todo(P)}

(* executeSlice for every slice of a wave, up to its first await. *)
OpenWave(x, n) ==
  LET S == {s \in SliceWaves[n] : slice[s] \notin Over}
      W == {s \in S : TasksOf(s) # {}}
      P == UNION {TaskWaves(s)[1] : s \in W}
  IN /\ slice' = [s \in Slices |-> IF s \in S THEN "active" ELSE slice[s]]
     /\ Launch(P)
     /\ ex' = [ex EXCEPT ![x] =
                 [open |-> TRUE, running |-> TRUE, wave |-> n, opened |-> S,
                  pos |-> [s \in Slices |-> IF s \in W THEN 1 ELSE 0],
                  waits |-> Launched(P)]]

(* startAutoExecution up to its first await: nothing while the milestone    *)
(* has an execution.                                                        *)
Unused == CHOOSE x \in Executions : ~ex[x].open
BeginExecution ==
  /\ daemon /\ starting
  /\ starting' = FALSE
  /\ IF active # 0
     THEN UNCHANGED <<planVars, row, owner, pend, active, ex>>
     ELSE /\ \E x \in Executions : ~ex[x].open
          /\ milestone' = "active"
          /\ active' = Unused
          /\ OpenWave(Unused, 1)
  /\ UNCHANGED <<retried, live, deferred, imports, cache, called, daemon>>

(* The promises of a wave of plan tasks have settled: start the next wave.  *)
SliceStartsWave(x, s) ==
  LET n == ex[x].pos[s] + 1 IN
  /\ InLoop /\ SliceDue(x, s)
  /\ ex[x].running /\ n <= Len(TaskWaves(s))
  /\ Launch(TaskWaves(s)[n])
  /\ ex' = [ex EXCEPT ![x].pos[s] = n, ![x].waits = @ \cup Launched(TaskWaves(s)[n])]
  /\ UNCHANGED <<milestone, slice, retried, live, deferred, imports,
                 cache, active, loopVars>>

AllOver(pl, s) == TasksOf(s) # {} /\ \A p \in TasksOf(s) : pl[p] = "completed"
AnyIs(pl, s, status) == \E p \in TasksOf(s) : pl[p] = status
(* The end of executeSlice, after the last wave or a stop. *)
SliceFinishes(x, s) ==
  /\ InLoop /\ SliceDue(x, s)
  /\ ~ex[x].running \/ ex[x].pos[s] = Len(TaskWaves(s))
  /\ slice' = [slice EXCEPT ![s] = IF AllOver(plan, s) THEN "completed"
                                   ELSE IF AnyIs(plan, s, "failed") THEN "failed"
                                   ELSE "active"]
  /\ ex' = [ex EXCEPT ![x].opened = @ \ {s}]
  /\ UNCHANGED <<milestone, plan, execOf, rowVars, teVars, cache, active,
                 loopVars>>

(* The promises of a wave of slices have settled: start the next wave, or,  *)
(* after the last one or a stop, write the milestone and leave the map.     *)
(* Mutant: without the await on the slices. *)
MilestoneStartsWaveEarly(x) ==
  /\ InLoop /\ ex[x].open
  /\ ex[x].running /\ ex[x].wave < Len(SliceWaves)
  /\ OpenWave(x, ex[x].wave + 1)
  /\ UNCHANGED <<milestone, retried, live, deferred, imports,
                 cache, active, loopVars>>
MilestoneStartsWave(x) ==
  /\ InLoop /\ ex[x].open /\ ex[x].opened = {}
  /\ ex[x].running /\ ex[x].wave < Len(SliceWaves)
  /\ OpenWave(x, ex[x].wave + 1)
  /\ UNCHANGED <<milestone, retried, live, deferred, imports,
                 cache, active, loopVars>>
AllSlicesOver(sl) == \A s \in Slices : sl[s] = "completed"
MilestoneFinishes(x) ==
  /\ InLoop /\ ex[x].open /\ ex[x].opened = {}
  /\ ~ex[x].running \/ ex[x].wave = Len(SliceWaves)
  /\ milestone' = IF AllSlicesOver(slice) THEN "completed" ELSE "active"
  /\ active' = 0
  /\ ex' = [ex EXCEPT ![x] = Idle]
  /\ UNCHANGED <<slice, plan, execOf, rowVars, teVars, cache, loopVars>>

(* The end of a turn in which a handler called execute(). *)
TurnEnds ==
  /\ Drained /\ called # {}
  /\ called' = {}
  /\ UNCHANGED <<planVars, rowVars, teVars, cache, active, ex, starting, daemon>>
-----------------------------------------------------------------------------
(* syncPlan and repointPlan: jobs that the task executor puts behind a      *)
(* dynamic import, so they run after the code that called them.             *)
Job == [kind : {"sync"}, exec : Execs]
         \cup [kind : {"repoint"}, exec : Execs, to : Execs]
Sync(e) == [kind |-> "sync", exec |-> e]

(* findPlanTaskByExecutionId: the cache first, then the index or the files. *)
(* (A cached null is never wrong: no plan task starts to name a row that    *)
(* was looked up before.)                                                   *)
(* Mutant: any row leads to the plan task it was made for. *)
LocatedByFile(e) == owner[e]
Located(e) ==
  IF e \in cache \/ (owner[e] # NoTask /\ execOf[owner[e]] = e)
  THEN owner[e] ELSE NoTask

(* aggregateSliceStatus, when pl are the new statuses of the plan tasks. *)
Aggregate(pl, S) ==
  LET sl == [s \in Slices |->
               IF s \notin S THEN slice[s]
               ELSE IF AllOver(pl, s) THEN "completed"
               ELSE IF AnyIs(pl, s, "active") THEN "active"
               ELSE IF AnyIs(pl, s, "failed") THEN "failed"
               ELSE "pending"]
  IN /\ plan' = pl
     /\ slice' = sl
     /\ milestone' = IF AllSlicesOver(sl) THEN "completed" ELSE milestone

PlanOf(status) ==
  CASE status = "done" -> "completed"
    [] status \in {"failed", "cancelled"} -> "failed"
    [] status = "running" -> "active"
    [] OTHER -> "none"
(* The promises that wait for row e are settled. *)
Settled(e) == [x \in Executions |-> [ex[x] EXCEPT !.waits = @ \ {e}]]

(* syncPlanFromExecutionTask.  The terminal event settles every promise     *)
(* that waits for the row (their own write of the plan task repeats this).  *)
(* Mutant: no early return on a status that says nothing. *)
SyncPlanUnguarded ==
  LET e == Head(imports).exec
      p == Located(e)
      st == PlanOf(row[e])
  IN /\ InLoop /\ imports # <<>> /\ Head(imports).kind = "sync"
     /\ imports' = Tail(imports)
     /\ cache' = IF p = NoTask THEN cache ELSE cache \cup {e}
     /\ IF p = NoTask
        THEN UNCHANGED <<milestone, slice, plan, ex>>
        ELSE /\ Aggregate([plan EXCEPT ![p] = st], {SliceOf[p]})
             /\ ex' = IF st \in Over THEN Settled(e) ELSE ex
     /\ UNCHANGED <<execOf, rowVars, pend, live, deferred, active, loopVars>>
SyncPlan ==
  LET e == Head(imports).exec
      p == Located(e)
      st == PlanOf(row[e])
  IN /\ InLoop /\ imports # <<>> /\ Head(imports).kind = "sync"
     /\ imports' = Tail(imports)
     /\ cache' = IF p = NoTask THEN cache ELSE cache \cup {e}
     /\ IF p = NoTask \/ st = "none"
        THEN UNCHANGED <<milestone, slice, plan, ex>>
        ELSE /\ Aggregate([plan EXCEPT ![p] = st], {SliceOf[p]})
             /\ ex' = IF st \in Over THEN Settled(e) ELSE ex
     /\ UNCHANGED <<execOf, rowVars, pend, live, deferred, active, loopVars>>

(* repointPlanTask, called for an automatic retry. *)
RepointPlan ==
  LET e == Head(imports).exec
      p == Located(e)
  IN /\ InLoop /\ imports # <<>> /\ Head(imports).kind = "repoint"
     /\ imports' = Tail(imports)
     /\ IF p = NoTask
        THEN UNCHANGED <<planVars, cache>>
        ELSE /\ Aggregate([plan EXCEPT ![p] = "active"], {SliceOf[p]})
             /\ execOf' = [execOf EXCEPT ![p] = Head(imports).to]
             /\ cache' = {}
     /\ UNCHANGED <<rowVars, pend, live, deferred, active, ex, loopVars>>

(* The ticker of a waiting promise: it sees the row itself, and writes the  *)
(* plan task without the aggregation.                                       *)
(* Mutant: no ticker. *)
StaleCheckNever(x, e) == FALSE /\ UNCHANGED vars
StaleCheck(x, e) ==
  /\ Serving
  /\ e \in ex[x].waits
  /\ ~ex[x].running \/ row[e] \notin LiveRow
  /\ plan' = IF ex[x].running THEN [plan EXCEPT ![owner[e]] = PlanOf(row[e])] ELSE plan
  /\ ex' = [ex EXCEPT ![x].waits = @ \ {e}]
  /\ UNCHANGED <<milestone, slice, execOf, rowVars, teVars, cache, active,
                 loopVars>>

-----------------------------------------------------------------------------
(* The planning routes *)

(* Bound: enough unused ids for what an execution may still insert, a row   *)
(* and its retry per plan task that is not over.                            *)
Room(n) ==
  Cardinality(Made) + n + 2 * Cardinality({p \in PlanTasks : plan[p] \notin Over})
    <= MaxExecs

(* POST .../auto-execute, and every milestone of .../auto-execute-all. *)
StartAutoExecution ==
  /\ Serving /\ active = 0 /\ Room(0)
  /\ starting' = TRUE
  /\ UNCHANGED <<planVars, rowVars, teVars, cache, active, ex, called, daemon>>

(* DELETE .../auto-execute: every waiting promise is rejected at once. *)
(* Mutant: the flag without the abort signal. *)
StopWithoutAbort ==
  /\ Serving /\ active # 0
  /\ ex' = [ex EXCEPT ![active].running = FALSE]
  /\ active' = 0
  /\ UNCHANGED <<planVars, rowVars, teVars, cache, loopVars>>
StopAutoExecution ==
  /\ Serving /\ active # 0
  /\ ex' = [ex EXCEPT ![active].running = FALSE, ![active].waits = {}]
  /\ active' = 0
  /\ UNCHANGED <<planVars, rowVars, teVars, cache, loopVars>>

(* POST .../rerun-failed: a new row for every failed plan task, the plan    *)
(* repointed, execute(), and then startAutoExecution unless resume=false.   *)
RerunFailed ==
  LET F == {p \in PlanTasks : plan[p] = "failed" /\ execOf[p] # NoExec}
      order == SetToSeq(F)
      new == [p \in F |-> FreshExec - 1 + CHOOSE i \in DOMAIN order : order[i] = p]
      E == {new[p] : p \in F}
      failedTask == [e \in E |-> CHOOSE p \in F : new[p] = e]
  IN /\ Serving /\ F # {} /\ Room(3 * Cardinality(F))
     /\ Aggregate([p \in PlanTasks |-> IF p \in F THEN "active" ELSE plan[p]],
                  {SliceOf[p] : p \in F})
     /\ execOf' = [p \in PlanTasks |-> IF p \in F THEN new[p] ELSE execOf[p]]
     /\ row' = [e \in Execs |-> IF e \in E THEN "queued" ELSE row[e]]
     /\ owner' = [e \in Execs |-> IF e \in E THEN failedTask[e] ELSE owner[e]]
     /\ Dispatch(E)
     /\ cache' = {}
     /\ starting' \in BOOLEAN /\ called' = IF starting' THEN E ELSE {}
     /\ UNCHANGED <<retried, live, deferred, imports, active, ex, daemon>>

(* POST /tasks/:id/rerun of a row made for the plan. *)
Rerun(e) ==
  LET p == Located(e) IN
  /\ Serving /\ row[e] \in Reruns /\ Room(2)
  /\ row' = [row EXCEPT ![FreshExec] = "queued"]
  /\ owner' = [owner EXCEPT ![FreshExec] = owner[e]]
  /\ IF p = NoTask
     THEN UNCHANGED <<planVars, cache>>
     ELSE /\ Aggregate([plan EXCEPT ![p] = "active"], {SliceOf[p]})
          /\ execOf' = [execOf EXCEPT ![p] = FreshExec]
          /\ cache' = {}
  /\ Dispatch({FreshExec})
  /\ UNCHANGED <<retried, live, deferred, imports, active, ex, loopVars>>

(* POST /tasks/:id/cancel: the row is written, the plan is not. *)
Cancel(e) ==
  /\ Serving /\ row[e] \in LiveRow
  /\ live[e] > 0 \/ e \in deferred => CancelsLate
  /\ row' = [row EXCEPT ![e] = "cancelled"]
  /\ pend' = [pend EXCEPT ![e] = 0]
  /\ UNCHANGED <<planVars, owner, retried, live, deferred, imports, axVars>>
-----------------------------------------------------------------------------
(* The task executor, as far as the plan depends on it *)

(* A call of execute() starts a session, or fails before it has one (no     *)
(* key, budget, prompt), which is never retried.                            *)
StartSession(e) ==
  /\ InTurn(e) /\ pend[e] > 0
  /\ pend' = [pend EXCEPT ![e] = @ - 1]
  /\ live' = [live EXCEPT ![e] = @ + 1]
  /\ row' = [row EXCEPT ![e] = "running"]
  /\ UNCHANGED <<planVars, owner, retried, deferred, imports, axVars>>
FailToStart(e) ==
  /\ InTurn(e) /\ pend[e] > 0
  /\ pend' = [pend EXCEPT ![e] = @ - 1]
  /\ row' = [row EXCEPT ![e] = "failed"]
  /\ imports' = Append(imports, Sync(e))
  /\ UNCHANGED <<planVars, owner, retried, live, deferred, axVars>>

SessionEnds(e) ==
  /\ Serving /\ live[e] > 0
  /\ live' = [live EXCEPT ![e] = @ - 1]
Keeping(e, status) == IF row[e] = "cancelled" THEN "cancelled" ELSE status

(* finalizeSuccess returns early, without a syncPlan, on a cancelled row. *)
SessionSucceeds(e) ==
  /\ SessionEnds(e)
  /\ row[e] = "waiting_for_input" => live[e] > 1
  /\ row' = [row EXCEPT ![e] = Keeping(e, "done")]
  /\ imports' = IF row[e] = "cancelled" THEN imports ELSE Append(imports, Sync(e))
  /\ UNCHANGED <<planVars, owner, retried, pend, deferred, axVars>>

(* finalizeError, after an abort or a timeout, or with no retry left. *)
SessionAborts(e) ==
  /\ SessionEnds(e)
  /\ row' = [row EXCEPT ![e] = Keeping(e, "failed")]
  /\ imports' = Append(imports, Sync(e))
  /\ UNCHANGED <<planVars, owner, retried, pend, deferred, axVars>>

(* finalizeError, then scheduleRetry: a copy of the row, the plan repointed *)
(* behind the import, execute() behind a setTimeout.                        *)
SessionIsRetried(e) ==
  /\ SessionEnds(e)
  /\ e \notin retried /\ FreshExec \in Execs
  /\ row' = [row EXCEPT ![e] = Keeping(e, "failed"), ![FreshExec] = "queued"]
  /\ owner' = [owner EXCEPT ![FreshExec] = owner[e]]
  /\ retried' = retried \cup {FreshExec}
  /\ deferred' = deferred \cup {FreshExec}
  /\ imports' = imports \o <<Sync(e), [kind |-> "repoint", exec |-> e, to |-> FreshExec]>>
  /\ UNCHANGED <<planVars, pend, axVars>>
RunDeferred(e) ==
  /\ Serving /\ e \in deferred
  /\ deferred' = deferred \ {e}
  /\ pend' = [pend EXCEPT ![e] = @ + 1]
  /\ UNCHANGED <<planVars, rowVars, live, imports, axVars>>

(* A provider limit parks the row, and its timer resumes it. *)
SessionParks(e) ==
  /\ Limits /\ SessionEnds(e)
  /\ row' = [row EXCEPT ![e] = "rate_limited"]
  /\ imports' = Append(imports, Sync(e))
  /\ UNCHANGED <<planVars, owner, retried, pend, deferred, axVars>>
Resume(e) ==
  /\ Serving /\ row[e] = "rate_limited"
  /\ row' = [row EXCEPT ![e] = "queued"]
  /\ Dispatch({e})
  /\ UNCHANGED <<planVars, owner, retried, live, deferred, imports, axVars>>

(* A question, and its answer with and without the session in memory. *)
Ask(e) ==
  /\ Questions /\ Serving /\ live[e] > 0 /\ row[e] = "running"
  /\ row' = [row EXCEPT ![e] = "waiting_for_input"]
  /\ UNCHANGED <<planVars, owner, retried, teVars, axVars>>
Answer(e) ==
  /\ Serving /\ row[e] = "waiting_for_input"
  /\ IF live[e] > 0
     THEN row' = [row EXCEPT ![e] = "running"] /\ UNCHANGED pend
     ELSE row' = [row EXCEPT ![e] = "queued"] /\ Dispatch({e})
  /\ UNCHANGED <<planVars, owner, retried, live, deferred, imports, axVars>>

-----------------------------------------------------------------------------
(* Crash (or exit) and boot *)
Crash ==
  /\ Crashes /\ daemon /\ Room(0)
  /\ daemon' = FALSE
  /\ pend' = [e \in Execs |-> 0]
  /\ live' = [e \in Execs |-> 0]
  /\ deferred' = {} /\ imports' = <<>> /\ cache' = {}
  /\ active' = 0 /\ ex' = [x \in Executions |-> Idle]
  /\ starting' = FALSE /\ called' = {}
  /\ UNCHANGED <<planVars, rowVars>>

(* cancelOrphanedExecutionTasks *)
(* Mutant: no sweep. *)
OrphansUnswept == {}
Orphans == {e \in Execs : row[e] \in LiveRow /\ \A p \in PlanTasks : execOf[p] # e}
(* reconcilePlanStatuses, once the orphans are cancelled. *)
ReconciledPlan(rows) ==
  [p \in PlanTasks |->
     IF plan[p] \in Over \/ execOf[p] = NoExec THEN plan[p]
     ELSE IF PlanOf(rows[execOf[p]]) \in Over THEN PlanOf(rows[execOf[p]])
     ELSE plan[p]]
ReconciledSlices(pl) ==
  [s \in Slices |-> IF AllOver(pl, s) THEN "completed"
                    ELSE IF AnyIs(pl, s, "failed") THEN "failed" ELSE slice[s]]
(* resumeStaleMilestones *)
HasWork(m, sl) == m = "active" /\ \E s \in Slices : sl[s] \notin Over
(* server-entry.ts: the sweep, the reconciliation, resetStaleTasks, the     *)
(* resumption of the milestone and execute() on every row reset, in order.  *)
Boot ==
  LET swept == [e \in Execs |-> IF e \in Orphans THEN "cancelled" ELSE row[e]]
      requeued == {e \in Execs : swept[e] \in {"queued", "running"}}
  IN /\ ~daemon /\ daemon' = TRUE
     /\ plan' = ReconciledPlan(swept)
     /\ slice' = ReconciledSlices(plan')
     /\ milestone' = IF AllSlicesOver(slice') THEN "completed" ELSE milestone
     /\ row' = [e \in Execs |-> IF e \in requeued THEN "queued" ELSE swept[e]]
     /\ starting' = HasWork(milestone', slice')
     /\ called' = requeued
     /\ Dispatch(requeued)
     /\ UNCHANGED <<execOf, owner, retried, live, deferred, imports, cache, active, ex>>
-----------------------------------------------------------------------------
Advance(x) ==
  \/ \E s \in Slices : SliceStartsWave(x, s) \/ SliceFinishes(x, s)
  \/ MilestoneStartsWave(x) \/ MilestoneFinishes(x)
SessionSettles(e) ==
  SessionSucceeds(e) \/ SessionAborts(e) \/ SessionIsRetried(e) \/ SessionParks(e)
TaskExecutorStep(e) ==
  StartSession(e) \/ FailToStart(e) \/ SessionSettles(e) \/ RunDeferred(e) \/ Resume(e)
UserStep ==
  \/ StartAutoExecution \/ StopAutoExecution \/ RerunFailed
  \/ \E e \in Execs : Rerun(e) \/ Cancel(e) \/ Answer(e)

Next ==
  \/ BeginExecution \/ TurnEnds \/ SyncPlan \/ RepointPlan
  \/ \E x \in Executions : Advance(x) \/ \E e \in Execs : StaleCheck(x, e)
  \/ \E e \in Execs : TaskExecutorStep(e) \/ Ask(e)
  \/ UserStep \/ Crash \/ Boot

(* Promise jobs and timers are served; a row is given a key sooner or later *)
(* and a session that is not blocked on a question ends (both are what the  *)
(* fair runs of TaskExecutor show or assume).  Strong fairness where a      *)
(* promise job can come first.                                              *)
SettlesUnblocked(e) == SessionSettles(e) /\ row[e] # "waiting_for_input"
RowProgress ==
  \E e \in Execs : StartSession(e) \/ FailToStart(e) \/ SettlesUnblocked(e) \/ RunDeferred(e)
Ticker == \E x \in Executions, e \in Execs : StaleCheck(x, e)
Fairness ==
  /\ WF_vars(BeginExecution \/ TurnEnds)
  /\ WF_vars(SyncPlan \/ RepointPlan)
  /\ WF_vars(\E x \in Executions : Advance(x))
  /\ SF_vars(RowProgress)
  /\ SF_vars(Ticker)

Spec == Init /\ [][Next]_vars
FairSpec == Spec /\ Fairness
-----------------------------------------------------------------------------
(* Properties *)

TypeOK ==
  /\ milestone \in PlanStatus /\ slice \in [Slices -> PlanStatus]
  /\ plan \in [PlanTasks -> PlanStatus]
  /\ execOf \in [PlanTasks -> Execs \cup {NoExec}]
  /\ row \in [Execs -> RowStatus]
  /\ owner \in [Execs -> PlanTasks \cup {NoTask}]
  /\ retried \subseteq Execs /\ deferred \subseteq Execs /\ cache \subseteq Execs
  /\ pend \in [Execs -> 0..MaxChains] /\ live \in [Execs -> 0..MaxChains]
  /\ imports \in Seq(Job)
  /\ active \in Executions \cup {0}
  /\ ex \in [Executions -> Execution]
  /\ starting \in BOOLEAN /\ called \subseteq Execs /\ daemon \in BOOLEAN

(* However starts, stops and reruns follow each other, one execution works  *)
(* on the milestone, the one that activeExecutions names: a stopped one has *)
(* let go of its promises before anyone can start the next.                 *)
OneExecution ==
  Serving => \A x \in Executions : ex[x].open <=> active = x

(* An execution waits for the current attempt of a plan task: a retry moves *)
(* the plan on only after the promise for the failed attempt has settled.   *)
WaitsForCurrent ==
  \A x \in Executions : \A e \in ex[x].waits :
    owner[e] # NoTask /\ execOf[owner[e]] = e

(* Retries, reuse, reruns of a wave, orphans of a crash: at any time at     *)
(* most one row of a plan task is live, so its work is not done twice.      *)
OneLiveAttempt ==
  Serving => \A p \in PlanTasks :
    Cardinality({e \in Execs : owner[e] = p /\ row[e] \in LiveRow}) <= 1

(* A plan task starts only after an attempt at each task it depends on has *)
(* ended, in its slice and, unless that slice was given up as failed, in a  *)
(* slice before it, across stops, crashes, reruns and retries.  That        *)
(* attempt may have failed, and its retry may still be at work.             *)
LaunchesNow(p) ==
  \E x \in Executions : \E e \in ex'[x].waits \ ex[x].waits : owner'[e] = p
Attempted(q) ==
  \E e \in Execs : owner[e] = q /\ row[e] \in {"done", "failed", "cancelled"}
InOrder ==
  [][\A p \in PlanTasks : LaunchesNow(p) =>
       /\ \A q \in TaskDepends[p] : Attempted(q)
       /\ \A q \in PlanTasks : SliceOf[q] \in SliceDepends[SliceOf[p]] =>
            slice[SliceOf[q]] = "failed" \/ Attempted(q)]_vars

(* A slice that is called completed has completed all its plan tasks, and a *)
(* milestone all its slices, whoever wrote the files last.                  *)
CompletedMeansCompleted ==
  Serving =>
    /\ \A s \in Slices : slice[s] = "completed" => AllOver(plan, s)
    /\ milestone = "completed" => AllSlicesOver(slice)

(* After a boot the plan agrees with the rows: no plan task is active with  *)
(* a row that has ended, no live row is one the plan has moved on from, and *)
(* a slice with a failed plan task is called failed.                        *)
BootRepairs ==
  [][~daemon /\ daemon' =>
       /\ \A p \in PlanTasks : execOf[p] # NoExec /\ plan'[p] \notin Over =>
            row'[execOf[p]] \in LiveRow
       /\ \A e \in Execs : row'[e] \in LiveRow => \E p \in PlanTasks : execOf[p] = e
       /\ \A s \in Slices : AnyIs(plan', s, "failed") => slice'[s] = "failed"]_vars

(* An execution ends, although a cancelled row in the queue never sends its *)
(* terminal event: unless it is stopped by a crash or sits on a question.   *)
ExecutionEnds ==
  \A x \in Executions :
    ex[x].open ~> ~ex[x].open \/ \E e \in Execs : row[e] = "waiting_for_input"
-----------------------------------------------------------------------------
(* What the repository says and the code does not keep. *)

(* No row is worked on by two sessions at once. *)
OneSession == \A e \in Execs : live[e] <= 1
=============================================================================
