------------------------- MODULE AutoExecutorProofs -------------------------
(***************************************************************************)
(* Proofs about AutoExecutor, for every plan, every number of rows and     *)
(* every bound of the model: one execution works on a milestone; files,    *)
(* promises and jobs name rows that are there; a boot repairs the plan.    *)
(* Then, for a plan whose rows nobody reworks while they are at work: an   *)
(* execution waits for the current attempt, a plan task has one live       *)
(* attempt, and what is called completed is completed.                     *)
(***************************************************************************)
EXTENDS AutoExecutor, DependencyGraphProofs, TLAPS

Fields == {"open", "running", "wave", "opened", "pos", "waits"}

(* What the proof needs of the types: ex[x] is a record of these fields.   *)
Shape ==
  /\ DOMAIN ex = Executions
  /\ \A x \in Executions :
       /\ DOMAIN ex[x] = Fields
       /\ ex[x].open \in BOOLEAN

(* An open execution that activeExecutions does not name is on its way     *)
(* out: it was stopped, it has let go of its promises, and nobody is about *)
(* to start another one.                                                   *)
Stale(x) == ex[x].open /\ active # x
StopsInv ==
  /\ active \in Executions => ex[active].open
  /\ \A x \in Executions : Stale(x) =>
       active = 0 /\ ~starting /\ ~ex[x].running /\ ex[x].waits = {}

(* Nothing of the auto-executor outlives the daemon.                       *)
DownIsEmpty == ~daemon => \A x \in Executions : ~ex[x].open

IInv == Shape /\ active \in Executions \cup {0} /\ StopsInv /\ DownIsEmpty

-----------------------------------------------------------------------------
(* When the daemon serves a request, a stopped execution is gone: as long  *)
(* as it is open, one of its promise continuations is due.                 *)
LEMMA ServingMeansSettled ==
  ASSUME IInv, Serving
  PROVE  \A x \in Executions : ~Stale(x)
<1> SUFFICES ASSUME NEW x \in Executions, Stale(x)
             PROVE  FALSE
  OBVIOUS
<1>1. ex[x].open /\ ex[x].waits = {}
  BY DEF IInv, StopsInv, Stale
<1>2. ~AdvanceDue
  BY DEF Serving, Drained
<1>3. \A s \in ex[x].opened : SliceDue(x, s)
  BY <1>1 DEF SliceDue, WaitsOf
<1> QED
  BY <1>1, <1>2, <1>3 DEF AdvanceDue

(* A step that leaves the executions of the milestone alone.               *)
LEMMA Untouched ==
  ASSUME IInv, UNCHANGED <<active, ex, starting, daemon>>
  PROVE  IInv'
  BY DEF IInv, Shape, StopsInv, Stale, DownIsEmpty

(* An execution that runs may go on to another wave, of slices or of tasks *)
LEMMA GoesOn ==
  ASSUME IInv, NEW x \in Executions, daemon, ex[x].running,
         UNCHANGED <<active, starting, daemon>>,
         DOMAIN ex' = Executions, DOMAIN ex'[x] = Fields,
         ex'[x].open = ex[x].open,
         \A y \in Executions : y # x => ex'[y] = ex[y]
  PROVE  IInv'
  BY DEF IInv, Shape, StopsInv, Stale, DownIsEmpty

(* The promises of an execution settle, or a slice of it ends.             *)
LEMMA LetsGo ==
  ASSUME IInv, UNCHANGED <<active, starting, daemon>>,
         DOMAIN ex' = Executions,
         \A x \in Executions :
           /\ DOMAIN ex'[x] = Fields
           /\ ex'[x].open = ex[x].open /\ ex'[x].running = ex[x].running
           /\ ex'[x].waits \subseteq ex[x].waits
  PROVE  IInv'
<1>1. \A x \in Executions : Stale(x)' => Stale(x) /\ (ex[x].waits = {} => ex'[x].waits = {})
  BY DEF Stale
<1> QED
  BY <1>1 DEF IInv, Shape, StopsInv, DownIsEmpty, Stale

-----------------------------------------------------------------------------
LEMMA BeginStep ==
  ASSUME IInv, BeginExecution
  PROVE  IInv'
<1>1. CASE active # 0
  BY <1>1 DEF BeginExecution, IInv, Shape, StopsInv, Stale, DownIsEmpty
<1>2. CASE active = 0
  <2> DEFINE x == Unused
  <2>1. \A y \in Executions : ~ex[y].open
    BY <1>2 DEF BeginExecution, IInv, StopsInv, Stale, Executions
  <2>2. x \in Executions
    BY <2>1 DEF Unused, Executions
  <2>3. active' = x /\ OpenWave(x, 1) /\ starting' = FALSE /\ daemon' = daemon /\ daemon
    BY <1>2 DEF BeginExecution
  <2> HIDE DEF x
  <2>4. /\ DOMAIN ex' = Executions /\ \A y \in Executions : y # x => ex'[y] = ex[y]
        /\ DOMAIN ex'[x] = Fields /\ ex'[x].open
    BY <2>2, <2>3 DEF OpenWave, IInv, Shape, Fields
  <2> QED
    BY <2>1, <2>2, <2>3, <2>4 DEF IInv, Shape, StopsInv, Stale, DownIsEmpty
<1> QED
  BY <1>1, <1>2

(* A wave of plan tasks, or of slices, is started: only an execution that  *)
(* runs does, and one that was stopped does not run.                       *)
LEMMA WaveStep ==
  ASSUME IInv, NEW x \in Executions,
         (\E s \in Slices : SliceStartsWave(x, s)) \/ MilestoneStartsWave(x)
  PROVE  IInv'
<1>1. ASSUME NEW s \in Slices, SliceStartsWave(x, s)
      PROVE  IInv'
  <2>1. /\ daemon /\ ex[x].running /\ UNCHANGED <<active, starting, daemon>>
        /\ \E n, w : ex' = [ex EXCEPT ![x].pos[s] = n, ![x].waits = @ \cup w]
    BY <1>1 DEF SliceStartsWave, InLoop, loopVars
  <2>2. /\ DOMAIN ex' = Executions /\ DOMAIN ex'[x] = Fields
        /\ ex'[x].open = ex[x].open
        /\ \A y \in Executions : y # x => ex'[y] = ex[y]
    BY <2>1 DEF IInv, Shape, Fields
  <2> QED
    BY <2>1, <2>2, GoesOn
<1>2. ASSUME MilestoneStartsWave(x)
      PROVE  IInv'
  <2>1. /\ daemon /\ ex[x].running /\ ex[x].open
        /\ UNCHANGED <<active, starting, daemon>>
        /\ OpenWave(x, ex[x].wave + 1)
    BY <1>2 DEF MilestoneStartsWave, InLoop, loopVars
  <2>2. /\ DOMAIN ex' = Executions /\ DOMAIN ex'[x] = Fields
        /\ ex'[x].open = TRUE
        /\ \A y \in Executions : y # x => ex'[y] = ex[y]
    BY <2>1 DEF OpenWave, IInv, Shape, Fields
  <2> QED
    BY <2>1, <2>2, GoesOn DEF IInv, Shape
<1> QED
  BY <1>1, <1>2

(* The end of a slice: the milestone stops waiting for it.                 *)
LEMMA SliceStep ==
  ASSUME IInv, NEW x \in Executions, NEW s \in Slices, SliceFinishes(x, s)
  PROVE  IInv'
<1>1. /\ ex' = [ex EXCEPT ![x].opened = @ \ {s}]
      /\ UNCHANGED <<active, starting, daemon>>
  BY DEF SliceFinishes, loopVars
<1>2. /\ DOMAIN ex' = Executions
      /\ \A y \in Executions :
           /\ DOMAIN ex'[y] = Fields
           /\ ex'[y].open = ex[y].open /\ ex'[y].running = ex[y].running
           /\ ex'[y].waits \subseteq ex[y].waits
  BY <1>1 DEF IInv, Shape, Fields
<1> QED
  BY <1>1, <1>2, LetsGo

(* The end of an execution empties activeExecutions; while one that was    *)
(* stopped ends, there is no other to be dropped from it.                  *)
LEMMA FinishStep ==
  ASSUME IInv, NEW x \in Executions, MilestoneFinishes(x)
  PROVE  IInv'
<1>1. /\ ex' = [ex EXCEPT ![x] = Idle] /\ active' = 0 /\ ex[x].open
      /\ UNCHANGED <<starting, daemon>>
  BY DEF MilestoneFinishes, loopVars
<1>2. /\ DOMAIN ex' = Executions /\ DOMAIN ex'[x] = Fields /\ ex'[x].open = FALSE
      /\ \A y \in Executions : y # x => ex'[y] = ex[y]
  BY <1>1 DEF IInv, Shape, Fields, Idle
<1>3. \A y \in Executions : y # x /\ ex[y].open => Stale(y)
  BY <1>1 DEF IInv, StopsInv, Stale, Executions
<1>4. Shape'
  BY <1>2 DEF IInv, Shape
<1>5. StopsInv'
  <2>1. \A y \in Executions : Stale(y)' => Stale(y)
    BY <1>2, <1>3 DEF Stale
  <2>2. \A y \in Executions : Stale(y)' => ex'[y] = ex[y]
    BY <1>2 DEF Stale
  <2>3. active' \notin Executions
    BY <1>1 DEF Executions
  <2> QED
    BY <1>1, <2>1, <2>2, <2>3 DEF IInv, StopsInv
<1>6. DownIsEmpty'
  BY <1>1, <1>2 DEF IInv, DownIsEmpty
<1> QED
  BY <1>1, <1>4, <1>5, <1>6 DEF IInv

(* A terminal event, or the ticker, settles promises.                      *)
LEMMA SettleStep ==
  ASSUME IInv, SyncPlan \/ \E x \in Executions, e \in Execs : StaleCheck(x, e)
  PROVE  IInv'
<1>1. UNCHANGED <<active, starting, daemon>>
  BY DEF SyncPlan, StaleCheck, loopVars
<1>2. /\ DOMAIN ex' = Executions
      /\ \A y \in Executions :
           /\ DOMAIN ex'[y] = Fields
           /\ ex'[y].open = ex[y].open /\ ex'[y].running = ex[y].running
           /\ ex'[y].waits \subseteq ex[y].waits
  <2>1. CASE ex' = ex
    BY <2>1 DEF IInv, Shape
  <2>2. ASSUME NEW e, ex' = Settled(e)
        PROVE  /\ DOMAIN ex' = Executions
               /\ \A y \in Executions :
                    /\ DOMAIN ex'[y] = Fields
                    /\ ex'[y].open = ex[y].open /\ ex'[y].running = ex[y].running
                    /\ ex'[y].waits \subseteq ex[y].waits
    BY <2>2 DEF Settled, IInv, Shape, Fields
  <2>3. ASSUME NEW x \in Executions, NEW e \in Execs, ex' = [ex EXCEPT ![x].waits = @ \ {e}]
        PROVE  /\ DOMAIN ex' = Executions
               /\ \A y \in Executions :
                    /\ DOMAIN ex'[y] = Fields
                    /\ ex'[y].open = ex[y].open /\ ex'[y].running = ex[y].running
                    /\ ex'[y].waits \subseteq ex[y].waits
    BY <2>3 DEF IInv, Shape, Fields
  <2> QED
    BY <2>1, <2>2, <2>3 DEF SyncPlan, StaleCheck
<1> QED
  BY <1>1, <1>2, LetsGo

(* The user starts or stops an execution, or reruns what failed: all of it *)
(* between two requests, when nothing that was stopped is left.            *)
LEMMA UserStepKeeps ==
  ASSUME IInv, StartAutoExecution \/ StopAutoExecution \/ RerunFailed
  PROVE  IInv'
<1>1. \A x \in Executions : ~Stale(x)
  BY ServingMeansSettled DEF StartAutoExecution, StopAutoExecution, RerunFailed
<1>2. daemon /\ ~starting /\ daemon' = daemon
  BY DEF StartAutoExecution, StopAutoExecution, RerunFailed, Serving, Drained, InLoop, loopVars
<1>3. CASE StartAutoExecution \/ RerunFailed
  <2>1. UNCHANGED <<active, ex>>
    BY <1>3 DEF StartAutoExecution, RerunFailed
  <2> QED
    BY <1>1, <1>2, <2>1 DEF IInv, Shape, StopsInv, Stale, DownIsEmpty
<1>4. CASE StopAutoExecution
  <2>1. /\ active \in Executions /\ active' = 0 /\ UNCHANGED starting
        /\ ex' = [ex EXCEPT ![active].running = FALSE, ![active].waits = {}]
    BY <1>4 DEF StopAutoExecution, IInv, loopVars
  <2>2. /\ DOMAIN ex' = Executions
        /\ \A y \in Executions : DOMAIN ex'[y] = Fields /\ ex'[y].open = ex[y].open
        /\ ~ex'[active].running /\ ex'[active].waits = {}
        /\ \A y \in Executions : y # active => ex'[y] = ex[y]
    BY <2>1 DEF IInv, Shape, Fields
  <2> QED
    BY <1>1, <1>2, <2>1, <2>2 DEF IInv, Shape, StopsInv, Stale, DownIsEmpty, Executions
<1> QED
  BY <1>3, <1>4

(* No execution: the state after a boot, and after a death.                *)
LEMMA IdleIsFine ==
  /\ active = 0 /\ ex = [x \in Executions |-> Idle] => IInv
  /\ active' = 0 /\ ex' = [x \in Executions |-> Idle] => IInv'
<1>1. ASSUME active = 0, ex = [x \in Executions |-> Idle]
      PROVE  IInv
  <2>1. /\ DOMAIN ex = Executions
        /\ \A x \in Executions : DOMAIN ex[x] = Fields /\ ex[x].open = FALSE
    BY <1>1 DEF Idle, Fields
  <2>2. active \notin Executions
    BY <1>1 DEF Executions
  <2> QED
    BY <1>1, <2>1, <2>2 DEF IInv, Shape, StopsInv, Stale, DownIsEmpty
<1>2. ASSUME active' = 0, ex' = [x \in Executions |-> Idle]
      PROVE  IInv'
  <2>1. /\ DOMAIN ex' = Executions
        /\ \A x \in Executions : DOMAIN ex'[x] = Fields /\ ex'[x].open = FALSE
    BY <1>2 DEF Idle, Fields
  <2>2. active' \notin Executions
    BY <1>2 DEF Executions
  <2> QED
    BY <1>2, <2>1, <2>2 DEF IInv, Shape, StopsInv, Stale, DownIsEmpty
<1> QED
  BY <1>1, <1>2

(* The daemon's death takes every execution with it, and a boot finds none *)
LEMMA DaemonStep ==
  ASSUME IInv, Crash \/ Boot
  PROVE  IInv'
<1>1. CASE Crash
  BY <1>1, IdleIsFine DEF Crash
<1>2. CASE Boot
  BY <1>2 DEF Boot, IInv, Shape, StopsInv, Stale, DownIsEmpty
<1> QED
  BY <1>1, <1>2

(* The steps of the task executor and of the users of single rows.         *)
LEMMA RowStep ==
  ASSUME IInv, NEW e \in Execs,
         TaskExecutorStep(e) \/ Ask(e) \/ Rerun(e) \/ Cancel(e) \/ Answer(e)
  PROVE  IInv'
<1>1. UNCHANGED <<active, ex, starting, daemon>>
  BY DEF TaskExecutorStep, SessionSettles, StartSession, FailToStart, SessionSucceeds,
         SessionAborts, SessionIsRetried, SessionParks, RunDeferred, Resume, Ask, Rerun,
         Cancel, Answer, axVars, loopVars
<1> QED
  BY <1>1, Untouched

-----------------------------------------------------------------------------
(* The invariant holds before the first boot's work, and every step keeps  *)
(* it.                                                                     *)
LEMMA IInvInit == Init => IInv
  BY IdleIsFine DEF Init

LEMMA IInvStep == IInv /\ [Next]_vars => IInv'
<1> SUFFICES ASSUME IInv, [Next]_vars
             PROVE  IInv'
  OBVIOUS
<1>1. CASE BeginExecution
  BY <1>1, BeginStep
<1>2. CASE TurnEnds \/ RepointPlan
  BY <1>2, Untouched DEF TurnEnds, RepointPlan, loopVars
<1>3. CASE SyncPlan
  BY <1>3, SettleStep
<1>4. ASSUME NEW x \in Executions, Advance(x)
      PROVE  IInv'
  BY <1>4, WaveStep, SliceStep, FinishStep DEF Advance
<1>5. ASSUME NEW x \in Executions, NEW e \in Execs, StaleCheck(x, e)
      PROVE  IInv'
  BY <1>5, SettleStep
<1>6. ASSUME NEW e \in Execs,
             TaskExecutorStep(e) \/ Ask(e) \/ Rerun(e) \/ Cancel(e) \/ Answer(e)
      PROVE  IInv'
  BY <1>6, RowStep
<1>7. CASE StartAutoExecution \/ StopAutoExecution \/ RerunFailed
  BY <1>7, UserStepKeeps
<1>8. CASE Crash \/ Boot
  BY <1>8, DaemonStep
<1>9. CASE UNCHANGED vars
  BY <1>9, Untouched DEF vars, axVars, loopVars
<1> QED
  BY <1>1, <1>2, <1>3, <1>4, <1>5, <1>6, <1>7, <1>8, <1>9 DEF Next, UserStep

(* IInv is inductive, so every reachable state satisfies it: executions,   *)
(* activeExecutions and the promises under them fit together.              *)
THEOREM Invariant == Spec => []IInv
  BY IInvInit, IInvStep, PTL DEF Spec

(* One execution works on a milestone (OneExecution), whatever starts,     *)
(* stops and reruns the user mixes, for every plan: the stop rejects the   *)
(* promises of an execution, and its continuations run before the next     *)
(* request is served.                                                      *)
THEOREM ExecutionsAreSingle == Spec => []OneExecution
<1>1. ASSUME IInv, Serving, NEW x \in Executions
      PROVE  ex[x].open <=> active = x
  <2>1. ~Stale(x)
    BY <1>1, ServingMeansSettled
  <2> QED
    BY <1>1, <2>1 DEF IInv, StopsInv, Stale, Shape
<1>2. IInv => OneExecution
  BY <1>1 DEF OneExecution
<1> QED
  BY Invariant, <1>2, PTL

-----------------------------------------------------------------------------
(* Numbering a finite set: the positions of its elements in SetToSeq are    *)
(* 1..Cardinality, each once.                                               *)
Position(q, p) == CHOOSE i \in DOMAIN q : q[i] = p
LEMMA Positions ==
  ASSUME NEW S, IsFiniteSet(S)
  PROVE  /\ Cardinality(S) \in Nat
         /\ \A p \in S : /\ Position(SetToSeq(S), p) \in 1..Cardinality(S)
                         /\ SetToSeq(S)[Position(SetToSeq(S), p)] = p
         /\ \A i \in 1..Cardinality(S) : \E p \in S : Position(SetToSeq(S), p) = i
<1> DEFINE n == Cardinality(S)
           q == SetToSeq(S)
<1>1. n \in Nat /\ ExistsBijection(1..n, S)
  BY FS_CardinalityType
<1>2. \E f \in [1..n -> S] : IsInjective(f)
  BY <1>1 DEF ExistsBijection, Bijection, Injection
<1>3. q \in [1..n -> S] /\ IsInjective(q)
  BY <1>2 DEF SetToSeq
<1> HIDE DEF q
<1>4. q \in Injection(1..n, S)
  BY <1>3 DEF Injection
<1>5. Cardinality(1..n) = n
  BY <1>1, FS_Interval
<1>6. q \in Surjection(1..n, S)
  BY <1>4, <1>5, FS_Injection
<1>7. \A p \in S : \E i \in 1..n : q[i] = p
  BY <1>6 DEF Surjection
<1>8. \A p \in S : Position(q, p) \in 1..n /\ q[Position(q, p)] = p
  BY <1>3, <1>7 DEF Position
<1>9. \A i \in 1..n : q[i] \in S /\ Position(q, q[i]) = i
  BY <1>3, <1>8 DEF IsInjective
<1> QED
  BY <1>1, <1>8, <1>9 DEF q

(* The waves of the plan: subsets of its slices and of its plan tasks, as   *)
(* many at most as there are items, and some if there is an item.           *)
LEMMA SliceWavesType ==
  /\ Cardinality(Slices) \in Nat
  /\ SliceWaves \in Seq(SUBSET Slices)
  /\ Len(SliceWaves) \in 1..Cardinality(Slices)
<1>1. IsFiniteSet(Slices) /\ Slices # {}
  BY PlanAssumption
<1>2. WavesSort(Slices, SliceDepends, SliceWaves)
  BY <1>1, ComputeWavesSorts DEF SliceWaves
<1>3. SliceWaves \in Seq(SUBSET Slices) /\ Len(SliceWaves) <= Cardinality(Slices)
      /\ Slices = UNION {SliceWaves[k] : k \in DOMAIN SliceWaves}
  BY <1>2 DEF WavesSort
<1>4. Len(SliceWaves) # 0
  <2>1. DOMAIN SliceWaves # {}
    BY <1>1, <1>3
  <2>2. DOMAIN SliceWaves = 1..Len(SliceWaves)
    BY <1>3
  <2> QED
    BY <2>1, <2>2
<1> QED
  BY <1>1, <1>3, <1>4, FS_CardinalityType

LEMMA TaskWavesType ==
  ASSUME NEW s \in Slices
  PROVE  /\ Cardinality(PlanTasks) \in Nat
         /\ TaskWaves(s) \in Seq(SUBSET TasksOf(s))
         /\ Len(TaskWaves(s)) \in 0..Cardinality(PlanTasks)
         /\ TasksOf(s) # {} => Len(TaskWaves(s)) # 0
         /\ \A j, k \in DOMAIN TaskWaves(s) : j # k => TaskWaves(s)[j] \cap TaskWaves(s)[k] = {}
<1>1. IsFiniteSet(PlanTasks) /\ TasksOf(s) \in SUBSET PlanTasks
  BY PlanAssumption DEF TasksOf
<1>2. IsFiniteSet(TasksOf(s)) /\ Cardinality(TasksOf(s)) <= Cardinality(PlanTasks)
  BY <1>1, FS_Subset
<1>3. WavesSort(TasksOf(s), [p \in TasksOf(s) |-> TaskDepends[p]], TaskWaves(s))
  BY <1>2, ComputeWavesSorts DEF TaskWaves
<1>4. /\ TaskWaves(s) \in Seq(SUBSET TasksOf(s)) /\ Len(TaskWaves(s)) <= Cardinality(TasksOf(s))
      /\ TasksOf(s) = UNION {TaskWaves(s)[k] : k \in DOMAIN TaskWaves(s)}
      /\ \A j, k \in DOMAIN TaskWaves(s) : j # k => TaskWaves(s)[j] \cap TaskWaves(s)[k] = {}
  BY <1>3 DEF WavesSort
<1>5. Cardinality(TasksOf(s)) \in Nat /\ Cardinality(PlanTasks) \in Nat
  BY <1>1, <1>2, FS_CardinalityType
<1>6. TasksOf(s) # {} => Len(TaskWaves(s)) # 0
  <2>1. TasksOf(s) # {} => DOMAIN TaskWaves(s) # {}
    BY <1>4
  <2>2. DOMAIN TaskWaves(s) = 1..Len(TaskWaves(s)) /\ Len(TaskWaves(s)) \in Nat
    BY <1>4
  <2> QED
    BY <2>1, <2>2
<1>7. Len(TaskWaves(s)) \in 0..Cardinality(PlanTasks)
  <2>1. Len(TaskWaves(s)) \in Nat
    BY <1>4
  <2> QED
    BY <1>2, <1>4, <1>5, <2>1
<1> QED
  BY <1>4, <1>5, <1>6, <1>7

(* The plan tasks that start when a wave of slices is opened.               *)
FirstTasks(n) ==
  UNION {TaskWaves(s)[1] : s \in {t \in {u \in SliceWaves[n] : slice[u] \notin Over} : TasksOf(t) # {}}}
LEMMA FirstTasksType ==
  ASSUME NEW n \in 1..Len(SliceWaves)
  PROVE  /\ SliceWaves[n] \in SUBSET Slices
         /\ FirstTasks(n) \in SUBSET PlanTasks
         /\ \A p \in FirstTasks(n) : SliceOf[p] \in SliceWaves[n] /\ slice[SliceOf[p]] \notin Over
<1>1. SliceWaves[n] \in SUBSET Slices
  BY SliceWavesType
<1>2. ASSUME NEW s \in SliceWaves[n], TasksOf(s) # {}
      PROVE  TaskWaves(s)[1] \subseteq TasksOf(s)
  <2>1. 1 \in 1..Len(TaskWaves(s)) /\ TaskWaves(s) \in Seq(SUBSET TasksOf(s))
    BY <1>1, <1>2, TaskWavesType
  <2> QED
    BY <2>1
<1> QED
  BY <1>1, <1>2 DEF FirstTasks, TasksOf

-----------------------------------------------------------------------------
(* What rows, files, promises and jobs say of each other.  Rows are made in *)
(* the order of their ids and never unmade; a row that is not made is not   *)
(* at work; what a file, a promise, a job or the cache names is made; a     *)
(* file names a row that was made for its plan task.                        *)
Numbered == \E n \in 0..MaxExecs : Made = 1..n
RowFits(e) ==
  /\ Chains(e) <= MaxChains
  /\ row[e] = "absent" => Chains(e) = 0
  /\ row[e] # "absent" => owner[e] \in PlanTasks
FileFits(p) == execOf[p] # NoExec => row[execOf[p]] # "absent" /\ owner[execOf[p]] = p
JobFits(j) ==
  /\ row[j.exec] # "absent"
  /\ j.kind = "repoint" => row[j.to] # "absent" /\ owner[j.to] = owner[j.exec]
Rows ==
  /\ Numbered
  /\ \A e \in Execs : RowFits(e)
  /\ \A p \in PlanTasks : FileFits(p)
  /\ \A i \in DOMAIN imports : JobFits(imports[i])
  /\ \A x \in Executions : \A e \in ex[x].waits : row[e] # "absent"
  /\ \A e \in cache : row[e] # "absent"

RInv == TypeOK /\ Rows

(* The next id is the first that is not used.                               *)
LEMMA NextId ==
  ASSUME RInv
  PROVE  \E n \in 0..MaxExecs :
           /\ n = Cardinality(Made) /\ FreshExec = n + 1
           /\ \A e \in Execs : row[e] # "absent" <=> e <= n
<1>1. PICK n \in 0..MaxExecs : Made = 1..n
  BY DEF RInv, Rows, Numbered
<1>2. MaxExecs \in Nat /\ n \in Nat
  BY BoundsAssumption
<1>3. Cardinality(1..n) = n
  BY <1>2, FS_Interval
<1>4. \A e \in Execs : row[e] # "absent" <=> e <= n
  <2>1. \A e \in Execs : e \in Made <=> e \in 1..n
    BY <1>1
  <2> QED
    BY <1>2, <2>1 DEF Made, Execs
<1> QED
  BY <1>1, <1>3, <1>4 DEF FreshExec

(* Making the next k rows keeps the numbering.                              *)
LEMMA MakingRows ==
  ASSUME RInv, NEW k \in Nat, Cardinality(Made) + k <= MaxExecs,
         \A e \in Execs : row[e] # "absent" => row'[e] # "absent",
         \A e \in Execs : row[e] = "absent" =>
           (row'[e] # "absent" <=> e <= Cardinality(Made) + k)
  PROVE  Numbered'
<1>1. PICK n \in 0..MaxExecs :
           /\ n = Cardinality(Made)
           /\ \A e \in Execs : row[e] # "absent" <=> e <= n
  BY NextId
<1>2. MaxExecs \in Nat /\ n + k \in 0..MaxExecs
  BY <1>1, BoundsAssumption
<1>3. Made' = 1..(n + k)
  <2>1. \A e \in Execs : row'[e] # "absent" <=> e <= n + k
    BY <1>1, <1>2 DEF Execs
  <2> QED
    BY <1>2, <2>1 DEF Made, Execs
<1> QED
  BY <1>2, <1>3 DEF Numbered

(* Without a row made or unmade.                                            *)
LEMMA NoRowMade ==
  ASSUME RInv, \A e \in Execs : row'[e] = "absent" <=> row[e] = "absent"
  PROVE  Numbered'
<1>1. Made' = Made
  BY DEF Made
<1> QED
  BY <1>1 DEF RInv, Rows, Numbered

(* The ids of k new rows for the plan tasks of a set F: an id each, all of   *)
(* the next k ones, none of them used.                                      *)
NewId(F, p) == FreshExec - 1 + Position(SetToSeq(F), p)
LEMMA NewIds ==
  ASSUME RInv, NEW F \in SUBSET PlanTasks
  PROVE  LET n == Cardinality(Made)
             k == Cardinality(F)
         IN /\ n \in Nat /\ k \in Nat
            /\ \A p \in F : NewId(F, p) \in (n + 1)..(n + k)
            /\ \A e \in (n + 1)..(n + k) : \E p \in F : NewId(F, p) = e
            /\ \A p, q \in F : NewId(F, p) = NewId(F, q) => p = q
            /\ \A e \in Execs : row[e] # "absent" <=> e <= n
<1> DEFINE n == Cardinality(Made)
           k == Cardinality(F)
           at(p) == Position(SetToSeq(F), p)
<1>1. n \in Nat /\ FreshExec = n + 1 /\ \A e \in Execs : row[e] # "absent" <=> e <= n
  BY NextId, BoundsAssumption
<1>2. IsFiniteSet(F)
  BY PlanAssumption, FS_Subset
<1>3. /\ k \in Nat
      /\ \A p \in F : at(p) \in 1..k /\ SetToSeq(F)[at(p)] = p
      /\ \A i \in 1..k : \E p \in F : at(p) = i
  BY <1>2, Positions
<1> HIDE DEF n, k, at
<1>4. \A p \in F : NewId(F, p) = n + at(p)
  BY <1>1, <1>3 DEF NewId, at
<1>5. \A p \in F : NewId(F, p) \in (n + 1)..(n + k)
  BY <1>1, <1>3, <1>4
<1>6. ASSUME NEW e \in (n + 1)..(n + k)
      PROVE  \E p \in F : NewId(F, p) = e
  <2>1. PICK p \in F : at(p) = e - n
    BY <1>1, <1>3
  <2> QED
    BY <1>1, <1>4, <2>1
<1>7. ASSUME NEW p \in F, NEW q \in F, NewId(F, p) = NewId(F, q)
      PROVE  p = q
  <2>1. at(p) = at(q)
    BY <1>1, <1>3, <1>4, <1>7
  <2> QED
    BY <1>3, <2>1
<1> QED
  BY <1>1, <1>3, <1>5, <1>6, <1>7 DEF n, k

(* Counting an execute() call: one more at most, and only below the bound.  *)
LEMMA Dispatches ==
  ASSUME RInv, NEW E, Dispatch(E)
  PROVE  /\ pend' \in [Execs -> 0..MaxChains]
         /\ \A e \in Execs : pend'[e] = pend[e] \/ (e \in E /\ pend'[e] = pend[e] + 1 /\ Chains(e) < MaxChains)
<1>1. pend \in [Execs -> 0..MaxChains] /\ live \in [Execs -> 0..MaxChains] /\ MaxChains \in Nat
  BY BoundsAssumption DEF RInv, TypeOK
<1>2. \A e \in Execs : Chains(e) < MaxChains => pend[e] + 1 \in 0..MaxChains
  BY <1>1 DEF Chains
<1> QED
  BY <1>1, <1>2 DEF Dispatch

(* executePlanTask for the plan tasks of P: a row each, that of the file if *)
(* it is live and else a new one, which the file names from then on.        *)
Fresh(P) == {p \in Todo(P) : ~Reusable(p)}
LEMMA TargetsFacts ==
  ASSUME RInv, NEW P \in SUBSET PlanTasks, Launched(P) \subseteq Execs
  PROVE  LET t == Targets(P)
             n == Cardinality(Made)
             k == Cardinality(Fresh(P))
         IN /\ t \in [Todo(P) -> Execs]
            /\ \A p \in Todo(P) : /\ Reusable(p) => t[p] = execOf[p] /\ row[t[p]] \in LiveRow /\ owner[t[p]] = p
                                  /\ ~Reusable(p) => row[t[p]] = "absent"
            /\ \A p, q \in Todo(P) : t[p] = t[q] => p = q
            /\ n \in Nat /\ k \in Nat /\ n + k <= MaxExecs
            /\ \A e \in Execs : row[e] # "absent" <=> e <= n
            /\ \A e \in Execs : row[e] = "absent" => (e \in Launched(P) <=> e <= n + k)
<1> DEFINE t == Targets(P)
           n == Cardinality(Made)
           k == Cardinality(Fresh(P))
<1>1. Fresh(P) \in SUBSET PlanTasks /\ Todo(P) \in SUBSET PlanTasks
  BY DEF Fresh, Todo
<1>2. /\ n \in Nat /\ k \in Nat
      /\ \A p \in Fresh(P) : NewId(Fresh(P), p) \in (n + 1)..(n + k)
      /\ \A e \in (n + 1)..(n + k) : \E p \in Fresh(P) : NewId(Fresh(P), p) = e
      /\ \A p, q \in Fresh(P) : NewId(Fresh(P), p) = NewId(Fresh(P), q) => p = q
      /\ \A e \in Execs : row[e] # "absent" <=> e <= n
  BY <1>1, NewIds
<1>3. t = [p \in Todo(P) |-> IF Reusable(p) THEN execOf[p] ELSE NewId(Fresh(P), p)]
  BY DEF Targets, Fresh, NewId, Position
<1>4. Launched(P) = {t[p] : p \in Todo(P)}
  BY DEF Launched
<1> HIDE DEF t, n, k
<1>5. t \in [Todo(P) -> Execs]
  <2>1. \A p \in Todo(P) : t[p] \in Execs
    BY <1>4
  <2> QED
    BY <1>3, <2>1
<1>6. ASSUME NEW p \in Todo(P), Reusable(p)
      PROVE  t[p] = execOf[p] /\ row[t[p]] \in LiveRow /\ owner[t[p]] = p
  <2>1. t[p] = execOf[p] /\ row[t[p]] \in LiveRow
    BY <1>3, <1>6 DEF Reusable
  <2>2. FileFits(p) /\ execOf[p] # NoExec
    BY <1>1, <1>6 DEF RInv, Rows, Reusable
  <2> QED
    BY <2>1, <2>2 DEF FileFits
<1>7. ASSUME NEW p \in Todo(P), ~Reusable(p)
      PROVE  p \in Fresh(P) /\ t[p] = NewId(Fresh(P), p) /\ row[t[p]] = "absent"
  <2>1. p \in Fresh(P) /\ t[p] = NewId(Fresh(P), p)
    BY <1>3, <1>7 DEF Fresh
  <2>2. t[p] \in Execs /\ t[p] \in (n + 1)..(n + k)
    BY <1>2, <1>5, <2>1
  <2> QED
    BY <1>2, <2>1, <2>2
<1>8. ASSUME NEW p \in Todo(P), NEW q \in Todo(P), t[p] = t[q]
      PROVE  p = q
  <2>1. CASE Reusable(p) /\ Reusable(q)
    <3>1. owner[t[p]] = p
      BY <1>6, <2>1
    <3>2. owner[t[q]] = q
      BY <1>6, <2>1
    <3> QED
      BY <1>8, <3>1, <3>2
  <2>2. CASE ~Reusable(p) /\ ~Reusable(q)
    BY <1>2, <1>7, <1>8, <2>2
  <2>3. CASE (Reusable(p) /\ ~Reusable(q)) \/ (~Reusable(p) /\ Reusable(q))
    <3>1. "absent" \notin LiveRow
      BY DEF LiveRow
    <3> QED
      BY <1>6, <1>7, <1>8, <2>3, <3>1
  <2> QED
    BY <2>1, <2>2, <2>3
<1>9. \A p \in Fresh(P) : p \in Todo(P) /\ ~Reusable(p)
  BY DEF Fresh
<1>10. n + k <= MaxExecs
  <2>1. CASE k = 0
    <3>1. PICK m \in 0..MaxExecs : m = Cardinality(Made)
      BY NextId
    <3> QED
      BY <2>1, <3>1, BoundsAssumption DEF n
  <2>2. CASE k # 0
    <3>1. n + k \in (n + 1)..(n + k)
      BY <1>2, <2>2
    <3>2. PICK p \in Fresh(P) : NewId(Fresh(P), p) = n + k
      BY <1>2, <3>1
    <3>3. n + k \in Execs
      BY <1>5, <1>7, <1>9, <3>2
    <3> QED
      BY <3>3, BoundsAssumption DEF Execs
  <2> QED
    BY <2>1, <2>2
<1>11. ASSUME NEW e \in Execs, row[e] = "absent"
       PROVE  e \in Launched(P) <=> e <= n + k
  <2>1. e \in Nat /\ e > n
    BY <1>2, <1>11, BoundsAssumption DEF Execs
  <2>2. ASSUME e <= n + k
        PROVE  e \in Launched(P)
    <3>1. e \in (n + 1)..(n + k)
      BY <1>2, <2>1, <2>2
    <3>2. PICK p \in Fresh(P) : NewId(Fresh(P), p) = e
      BY <1>2, <3>1
    <3> QED
      BY <1>4, <1>7, <1>9, <3>2
  <2>3. ASSUME NEW p \in Todo(P), t[p] = e
        PROVE  e <= n + k
    <3>1. ~Reusable(p)
      BY <1>6, <1>11, <2>3 DEF LiveRow
    <3>2. p \in Fresh(P) /\ t[p] = NewId(Fresh(P), p)
      BY <1>7, <3>1
    <3> QED
      BY <1>2, <2>3, <3>2
  <2> QED
    BY <1>4, <2>2, <2>3
<1> QED
  BY <1>2, <1>5, <1>6, <1>7, <1>8, <1>10, <1>11 DEF t, n, k

LEMMA LaunchFacts ==
  ASSUME RInv, NEW P \in SUBSET PlanTasks, Launch(P)
  PROVE  LET t == Targets(P)
         IN /\ t \in [Todo(P) -> Execs] /\ Launched(P) \in SUBSET Execs
            /\ Launched(P) = {t[p] : p \in Todo(P)}
            /\ \A p \in Todo(P) : /\ Reusable(p) => t[p] = execOf[p] /\ row[t[p]] \in LiveRow
                                  /\ ~Reusable(p) => row[t[p]] = "absent"
                                  /\ plan'[p] = "active" /\ execOf'[p] = t[p]
                                  /\ row'[t[p]] \in LiveRow /\ owner'[t[p]] = p
            /\ \A p \in PlanTasks \ Todo(P) : plan'[p] = plan[p] /\ execOf'[p] = execOf[p]
            /\ \A e \in Execs : row[e] # "absent" => row'[e] = row[e] /\ owner'[e] = owner[e]
            /\ \A e \in Execs : row[e] = "absent" /\ e \notin Launched(P) => row'[e] = "absent"
            /\ \A e \in Execs : pend'[e] = pend[e] \/ (e \in Launched(P) /\ pend'[e] = pend[e] + 1 /\ Chains(e) < MaxChains)
            /\ Numbered'
            /\ plan' \in [PlanTasks -> PlanStatus] /\ execOf' \in [PlanTasks -> Execs \cup {NoExec}]
            /\ row' \in [Execs -> RowStatus] /\ owner' \in [Execs -> PlanTasks \cup {NoTask}]
            /\ pend' \in [Execs -> 0..MaxChains]
<1> DEFINE t == Targets(P)
           E == Launched(P)
<1>1. E = {t[p] : p \in Todo(P)}
  BY DEF Launched
<1>2. /\ E \subseteq Execs
      /\ plan' = [p \in PlanTasks |-> IF p \in Todo(P) THEN "active" ELSE plan[p]]
      /\ execOf' = [p \in PlanTasks |-> IF p \in Todo(P) THEN t[p] ELSE execOf[p]]
      /\ row' = [e \in Execs |-> IF e \in E /\ row[e] = "absent" THEN "queued" ELSE row[e]]
      /\ owner' = [e \in Execs |-> IF e \in E THEN CHOOSE p \in Todo(P) : t[p] = e
                                  ELSE owner[e]]
      /\ Dispatch(E)
  BY <1>1 DEF Launch
<1>3. /\ t \in [Todo(P) -> Execs]
      /\ \A p \in Todo(P) : /\ Reusable(p) => t[p] = execOf[p] /\ row[t[p]] \in LiveRow /\ owner[t[p]] = p
                            /\ ~Reusable(p) => row[t[p]] = "absent"
      /\ \A p, q \in Todo(P) : t[p] = t[q] => p = q
      /\ Cardinality(Made) \in Nat /\ Cardinality(Fresh(P)) \in Nat
      /\ Cardinality(Made) + Cardinality(Fresh(P)) <= MaxExecs
      /\ \A e \in Execs : row[e] = "absent" => (e \in E <=> e <= Cardinality(Made) + Cardinality(Fresh(P)))
  BY <1>2, TargetsFacts
<1> HIDE DEF t, E
<1>4. Todo(P) \in SUBSET PlanTasks
  BY DEF Todo
<1>5. /\ plan \in [PlanTasks -> PlanStatus] /\ execOf \in [PlanTasks -> Execs \cup {NoExec}]
      /\ row \in [Execs -> RowStatus] /\ owner \in [Execs -> PlanTasks \cup {NoTask}]
  BY DEF RInv, TypeOK
<1>6. \A p \in Todo(P) : owner'[t[p]] = p
  <2> SUFFICES ASSUME NEW p \in Todo(P)
               PROVE  owner'[t[p]] = p
    OBVIOUS
  <2>1. t[p] \in E /\ t[p] \in Execs
    BY <1>1, <1>3
  <2>2. owner'[t[p]] = CHOOSE q \in Todo(P) : t[q] = t[p]
    BY <1>2, <2>1
  <2>3. (CHOOSE q \in Todo(P) : t[q] = t[p]) = p
    BY <1>3
  <2> QED
    BY <2>2, <2>3
<1>7. \A p \in Todo(P) : row'[t[p]] \in LiveRow
  <2> SUFFICES ASSUME NEW p \in Todo(P)
               PROVE  row'[t[p]] \in LiveRow
    OBVIOUS
  <2>1. t[p] \in E /\ t[p] \in Execs
    BY <1>1, <1>3
  <2>2. row[t[p]] = "absent" \/ row[t[p]] \in LiveRow
    BY <1>3
  <2> QED
    BY <1>2, <2>1, <2>2 DEF LiveRow
<1>8. \A e \in Execs : row[e] # "absent" => row'[e] = row[e] /\ owner'[e] = owner[e]
  <2> SUFFICES ASSUME NEW e \in Execs, row[e] # "absent"
               PROVE  row'[e] = row[e] /\ owner'[e] = owner[e]
    OBVIOUS
  <2>1. row'[e] = row[e]
    BY <1>2
  <2>2. CASE e \in E
    <3>1. PICK p \in Todo(P) : t[p] = e
      BY <1>1, <2>2
    <3>2. owner[e] = p /\ owner'[e] = p
      BY <1>3, <1>6, <3>1
    <3> QED
      BY <2>1, <3>2
  <2>3. CASE e \notin E
    BY <1>2, <2>1, <2>3
  <2> QED
    BY <2>2, <2>3
<1>9. owner' \in [Execs -> PlanTasks \cup {NoTask}]
  <2>1. \A e \in E : \E p \in Todo(P) : t[p] = e /\ owner'[e] = p
    BY <1>1, <1>6
  <2>2. \A e \in Execs : owner'[e] \in PlanTasks \cup {NoTask}
    BY <1>2, <1>4, <1>5, <2>1
  <2>3. owner' = [e \in Execs |-> owner'[e]]
    BY <1>2
  <2> QED
    BY <2>2, <2>3
<1>10. Numbered'
  <2>1. \A e \in Execs : row[e] = "absent" => (row'[e] # "absent" <=> e \in E)
    BY <1>2
  <2> QED
    BY <1>3, <1>8, <2>1, MakingRows
<1>11. plan' \in [PlanTasks -> PlanStatus] /\ execOf' \in [PlanTasks -> Execs \cup {NoExec}]
  BY <1>2, <1>3, <1>5 DEF PlanStatus
<1>12. row' \in [Execs -> RowStatus]
  BY <1>2, <1>5 DEF RowStatus, LiveRow
<1>13. /\ pend' \in [Execs -> 0..MaxChains]
       /\ \A e \in Execs : pend'[e] = pend[e] \/ (e \in E /\ pend'[e] = pend[e] + 1 /\ Chains(e) < MaxChains)
  BY <1>2, Dispatches
<1>14. /\ \A p \in Todo(P) : plan'[p] = "active" /\ execOf'[p] = t[p]
       /\ \A p \in PlanTasks \ Todo(P) : plan'[p] = plan[p] /\ execOf'[p] = execOf[p]
       /\ \A e \in Execs : row[e] = "absent" /\ e \notin E => row'[e] = "absent"
  BY <1>2, <1>4
<1>15. E \in SUBSET Execs
  BY <1>2
<1> QED
  BY <1>1, <1>3, <1>6, <1>7, <1>8, <1>9, <1>10, <1>11, <1>12, <1>13, <1>14, <1>15 DEF t, E

-----------------------------------------------------------------------------
(* Keeping Rows: no row is unmade and none changes its plan task; what is    *)
(* named anew is made.                                                       *)
Grows == \A e \in Execs : row[e] # "absent" => row'[e] # "absent" /\ owner'[e] = owner[e]
LEMMA RowsKept ==
  ASSUME RInv, Numbered', Grows,
         \A e \in Execs : RowFits(e)',
         \A p \in PlanTasks : execOf'[p] = execOf[p] \/ FileFits(p)',
         \A i \in DOMAIN imports' :
           (\E k \in DOMAIN imports : imports'[i] = imports[k]) \/ JobFits(imports[i])',
         \A x \in Executions : \A e \in ex'[x].waits : e \in ex[x].waits \/ row'[e] # "absent",
         \A e \in cache' : e \in cache \/ row'[e] # "absent"
  PROVE  Rows'
<1>1. /\ execOf \in [PlanTasks -> Execs \cup {NoExec}] /\ imports \in Seq(Job)
      /\ cache \subseteq Execs /\ \A x \in Executions : ex[x].waits \subseteq Execs
  BY DEF RInv, TypeOK, Execution
<1>2. ASSUME NEW p \in PlanTasks
      PROVE  FileFits(p)'
  <2>1. CASE execOf'[p] = execOf[p]
    BY <1>1, <2>1 DEF RInv, Rows, FileFits, Grows
  <2> QED
    BY <2>1
<1>3. ASSUME NEW i \in DOMAIN imports'
      PROVE  JobFits(imports[i])'
  <2>1. ASSUME NEW k \in DOMAIN imports, imports'[i] = imports[k]
        PROVE  JobFits(imports[i])'
    <3>1. /\ imports[k] \in Job /\ imports[k].exec \in Execs
          /\ imports[k].kind = "repoint" => imports[k].to \in Execs
      BY <1>1 DEF Job
    <3>2. JobFits(imports[k])
      BY DEF RInv, Rows
    <3> QED
      BY <2>1, <3>1, <3>2 DEF JobFits, Grows
  <2> QED
    BY <2>1
<1>4. \A x \in Executions : \A e \in ex'[x].waits : row'[e] # "absent"
  BY <1>1 DEF RInv, Rows, Grows
<1>5. \A e \in cache' : row'[e] # "absent"
  BY <1>1 DEF RInv, Rows, Grows
<1> QED
  BY <1>2, <1>3, <1>4, <1>5 DEF Rows

(* A step that touches no row.                                              *)
LEMMA RowsUntouched ==
  ASSUME RInv, UNCHANGED <<row, owner, pend, live, deferred>>
  PROVE  Numbered' /\ Grows /\ \A e \in Execs : RowFits(e)'
<1>1. Numbered'
  BY NoRowMade
<1>2. Grows
  BY DEF Grows
<1>3. \A e \in Execs : RowFits(e)'
  BY DEF RInv, Rows, RowFits, Chains
<1> QED
  BY <1>1, <1>2, <1>3

(* The new statuses that syncPlan and repointPlan write are statuses.       *)
LEMMA Aggregates ==
  ASSUME TypeOK, NEW pl, NEW S, pl \in [PlanTasks -> PlanStatus], Aggregate(pl, S)
  PROVE  /\ plan' = pl /\ slice' \in [Slices -> PlanStatus] /\ milestone' \in PlanStatus
         /\ \A s \in Slices \ S : slice'[s] = slice[s]
         /\ \A s \in Slices : s \in S => (slice'[s] = "completed" <=> AllOver(pl, s))
         /\ milestone' = IF AllSlicesOver(slice') THEN "completed" ELSE milestone
  BY DEF Aggregate, TypeOK, PlanStatus

LEMMA SyncStep ==
  ASSUME RInv, SyncPlan
  PROVE  RInv'
<1> DEFINE e == Head(imports).exec
           p == Located(e)
           st == PlanOf(row[e])
<1>1. /\ imports \in Seq(Job) /\ imports # <<>> /\ imports' = Tail(imports)
      /\ cache' = IF p = NoTask THEN cache ELSE cache \cup {e}
      /\ UNCHANGED <<execOf, row, owner, retried, pend, live, deferred, active, starting, called, daemon>>
      /\ \/ UNCHANGED <<milestone, slice, plan, ex>>
         \/ /\ p # NoTask /\ st # "none"
            /\ Aggregate([plan EXCEPT ![p] = st], {SliceOf[p]})
            /\ ex' = IF st \in Over THEN Settled(e) ELSE ex
  BY DEF SyncPlan, rowVars, loopVars, RInv, TypeOK
<1>2. /\ 1 \in DOMAIN imports /\ Head(imports) = imports[1] /\ e \in Execs
      /\ imports' \in Seq(Job) /\ \A i \in DOMAIN imports' : i + 1 \in DOMAIN imports /\ imports'[i] = imports[i + 1]
  <2>1. Head(imports) \in Job
    BY <1>1
  <2>2. e \in Execs
    BY <2>1 DEF Job
  <2> QED
    BY <1>1, <2>2
<1>3. row[e] # "absent"
  <2>1. JobFits(Head(imports))
    BY <1>2 DEF RInv, Rows
  <2> QED
    BY <2>1 DEF JobFits
<1> HIDE DEF e, p, st
<1>4. /\ milestone' \in PlanStatus /\ slice' \in [Slices -> PlanStatus]
      /\ plan' \in [PlanTasks -> PlanStatus]
  <2>1. CASE UNCHANGED <<milestone, slice, plan, ex>>
    BY <2>1 DEF RInv, TypeOK
  <2>2. CASE st # "none" /\ Aggregate([plan EXCEPT ![p] = st], {SliceOf[p]})
    <3>1. st \in PlanStatus
      BY <2>2 DEF st, PlanOf, PlanStatus
    <3>2. [plan EXCEPT ![p] = st] \in [PlanTasks -> PlanStatus]
      BY <3>1 DEF RInv, TypeOK
    <3> QED
      BY <2>2, <3>2, Aggregates DEF RInv
  <2> QED
    BY <1>1, <2>1, <2>2
<1>5. /\ ex' \in [Executions -> Execution]
      /\ \A x \in Executions : ex'[x].waits \subseteq ex[x].waits
  <2>1. CASE ex' = ex
    BY <2>1 DEF RInv, TypeOK
  <2>2. CASE ex' = Settled(e)
    BY <2>2 DEF Settled, Execution, RInv, TypeOK
  <2> QED
    BY <1>1, <2>1, <2>2
<1>6. TypeOK'
  BY <1>1, <1>2, <1>4, <1>5 DEF RInv, TypeOK
<1>7. Rows'
  <2>1. Numbered' /\ Grows /\ \A d \in Execs : RowFits(d)'
    BY <1>1, RowsUntouched
  <2>2. \A d \in cache' : d \in cache \/ row'[d] # "absent"
    BY <1>1, <1>3
  <2> QED
    BY <1>1, <1>2, <1>5, <2>1, <2>2, RowsKept
<1> QED
  BY <1>6, <1>7 DEF RInv

LEMMA RepointStep ==
  ASSUME RInv, RepointPlan
  PROVE  RInv'
<1> DEFINE j == Head(imports)
           p == Located(j.exec)
<1>1. /\ imports \in Seq(Job) /\ imports # <<>> /\ imports' = Tail(imports) /\ j.kind = "repoint"
      /\ UNCHANGED <<row, owner, retried, pend, live, deferred, active, ex, starting, called, daemon>>
      /\ \/ UNCHANGED <<milestone, slice, plan, execOf, cache>>
         \/ /\ p # NoTask /\ Aggregate([plan EXCEPT ![p] = "active"], {SliceOf[p]})
            /\ execOf' = [execOf EXCEPT ![p] = j.to] /\ cache' = {}
  BY DEF RepointPlan, rowVars, loopVars, planVars, RInv, TypeOK
<1>2. /\ 1 \in DOMAIN imports /\ j = imports[1] /\ j.exec \in Execs /\ j.to \in Execs
      /\ imports' \in Seq(Job) /\ \A i \in DOMAIN imports' : i + 1 \in DOMAIN imports /\ imports'[i] = imports[i + 1]
  <2>1. j \in Job
    BY <1>1
  <2>2. j.exec \in Execs /\ j.to \in Execs
    BY <1>1, <2>1 DEF Job
  <2> QED
    BY <1>1, <2>2
<1>3. JobFits(j)
  BY <1>2 DEF RInv, Rows
<1> HIDE DEF j
<1>4. p # NoTask => p = owner[j.exec]
  BY DEF Located
<1> HIDE DEF p
<1>5. TypeOK'
  <2>1. /\ milestone' \in PlanStatus /\ slice' \in [Slices -> PlanStatus]
        /\ plan' \in [PlanTasks -> PlanStatus]
    <3>1. [plan EXCEPT ![p] = "active"] \in [PlanTasks -> PlanStatus]
      BY DEF RInv, TypeOK, PlanStatus
    <3>2. CASE Aggregate([plan EXCEPT ![p] = "active"], {SliceOf[p]})
      BY <3>1, <3>2, Aggregates DEF RInv
    <3>3. CASE UNCHANGED <<milestone, slice, plan>>
      BY <3>3 DEF RInv, TypeOK
    <3> QED
      BY <1>1, <3>2, <3>3
  <2>2. execOf' \in [PlanTasks -> Execs \cup {NoExec}] /\ cache' \subseteq Execs
    BY <1>1, <1>2 DEF RInv, TypeOK
  <2> QED
    BY <1>1, <1>2, <2>1, <2>2 DEF RInv, TypeOK
<1>6. Rows'
  <2>1. Numbered' /\ Grows /\ \A d \in Execs : RowFits(d)'
    BY <1>1, RowsUntouched
  <2>2. ASSUME NEW q \in PlanTasks
        PROVE  execOf'[q] = execOf[q] \/ FileFits(q)'
    <3>1. CASE p # NoTask /\ q = p /\ execOf' = [execOf EXCEPT ![p] = j.to]
      <4>1. execOf'[q] = j.to /\ owner[j.to] = q /\ row[j.to] # "absent"
        BY <1>1, <1>3, <1>4, <3>1 DEF RInv, TypeOK, JobFits
      <4> QED
        BY <1>1, <4>1 DEF FileFits
    <3>2. CASE q # p \/ execOf' = execOf
      BY <1>1, <3>2 DEF RInv, TypeOK
    <3> QED
      BY <1>1, <3>1, <3>2
  <2>3. cache' \subseteq cache
    BY <1>1
  <2> QED
    BY <1>1, <1>2, <2>1, <2>2, <2>3, RowsKept
<1> QED
  BY <1>5, <1>6 DEF RInv

(* A record without promises is one of an execution.                        *)
LEMMA IdleType == Idle \in Execution
<1>1. 0 \in 0..Cardinality(Slices) /\ 0 \in 0..Cardinality(PlanTasks)
  BY PlanAssumption, FS_CardinalityType
<1> QED
  BY <1>1 DEF Idle, Execution

(* Continuations that launch nothing, the ticker, the end of a turn, start  *)
(* and stop.                                                                *)
Quieter ==
  /\ ex' \in [Executions -> Execution] /\ active' \in Executions \cup {0}
  /\ \A y \in Executions : ex'[y].waits \subseteq ex[y].waits
  /\ milestone' \in PlanStatus /\ slice' \in [Slices -> PlanStatus]
  /\ plan' \in [PlanTasks -> PlanStatus]
LEMMA QuietStep ==
  ASSUME RInv, NEW x \in Executions,
         \/ \E s \in Slices : SliceFinishes(x, s)
         \/ MilestoneFinishes(x)
         \/ \E e \in Execs : StaleCheck(x, e)
         \/ TurnEnds \/ StartAutoExecution \/ StopAutoExecution
  PROVE  RInv'
<1>1. /\ UNCHANGED <<row, owner, retried, pend, live, deferred, imports, cache, execOf, daemon>>
      /\ called' \in {called, {}} /\ starting' \in {starting, TRUE}
  BY DEF SliceFinishes, MilestoneFinishes, StaleCheck, TurnEnds, StartAutoExecution,
         StopAutoExecution, rowVars, teVars, planVars, loopVars
<1>2. Quieter
  <2> USE DEF RInv, TypeOK, Quieter
  <2>1. ASSUME NEW s \in Slices, SliceFinishes(x, s)
        PROVE  Quieter
    <3>1. ex' \in [Executions -> Execution] /\ \A y \in Executions : ex'[y].waits \subseteq ex[y].waits
      BY <2>1 DEF SliceFinishes, Execution
    <3>2. slice' \in [Slices -> PlanStatus]
      BY <2>1 DEF SliceFinishes, PlanStatus
    <3> QED
      BY <2>1, <3>1, <3>2 DEF SliceFinishes
  <2>2. CASE MilestoneFinishes(x)
    <3>1. ex' \in [Executions -> Execution]
      BY <2>2, IdleType DEF MilestoneFinishes
    <3>2. \A y \in Executions : ex'[y].waits \subseteq ex[y].waits
      BY <2>2 DEF MilestoneFinishes, Idle
    <3> QED
      BY <2>2, <3>1, <3>2 DEF MilestoneFinishes, PlanStatus
  <2>3. ASSUME NEW e \in Execs, StaleCheck(x, e)
        PROVE  Quieter
    <3>1. row[e] # "absent"
      BY <2>3 DEF StaleCheck, Rows
    <3>2. plan' \in [PlanTasks -> PlanStatus]
      BY <2>3, <3>1 DEF StaleCheck, PlanOf, PlanStatus, RowStatus, LiveRow
    <3>3. ex' \in [Executions -> Execution] /\ \A y \in Executions : ex'[y].waits \subseteq ex[y].waits
      BY <2>3 DEF StaleCheck, Execution
    <3> QED
      BY <2>3, <3>2, <3>3 DEF StaleCheck
  <2>4. CASE TurnEnds \/ StartAutoExecution
    BY <2>4 DEF TurnEnds, StartAutoExecution, planVars, loopVars
  <2>5. CASE StopAutoExecution
    <3>1. /\ active \in Executions
          /\ ex' = [ex EXCEPT ![active] = [ex[active] EXCEPT !.running = FALSE, !.waits = {}]]
      BY <2>5 DEF StopAutoExecution
    <3>2. [ex[active] EXCEPT !.running = FALSE, !.waits = {}] \in Execution
      BY <3>1 DEF Execution
    <3>3. ex' \in [Executions -> Execution] /\ \A y \in Executions : ex'[y].waits \subseteq ex[y].waits
      BY <3>1, <3>2 DEF Execution
    <3> QED
      BY <2>5, <3>3 DEF StopAutoExecution, planVars
  <2> QED
    BY <2>1, <2>2, <2>3, <2>4, <2>5
<1>3. TypeOK'
  BY <1>1, <1>2 DEF RInv, TypeOK, Quieter
<1>4. Rows'
  <2>1. Numbered' /\ Grows /\ \A e \in Execs : RowFits(e)'
    BY <1>1, RowsUntouched
  <2> QED
    BY <1>1, <1>2, <2>1, RowsKept DEF Quieter
<1> QED
  BY <1>3, <1>4 DEF RInv

-----------------------------------------------------------------------------
(* The three steps that launch plan tasks.                                  *)
LEMMA LaunchKeepsRows ==
  ASSUME RInv, NEW P \in SUBSET PlanTasks, Launch(P),
         UNCHANGED <<live, deferred, imports, cache>>,
         \A x \in Executions : ex'[x].waits \subseteq ex[x].waits \cup Launched(P)
  PROVE  Rows'
<1> DEFINE t == Targets(P)
<1>1. /\ t \in [Todo(P) -> Execs] /\ Launched(P) \in SUBSET Execs
      /\ Launched(P) = {t[p] : p \in Todo(P)}
      /\ \A p \in Todo(P) : /\ execOf'[p] = t[p] /\ row'[t[p]] \in LiveRow /\ owner'[t[p]] = p
      /\ \A p \in PlanTasks \ Todo(P) : execOf'[p] = execOf[p]
      /\ \A e \in Execs : row[e] # "absent" => row'[e] = row[e] /\ owner'[e] = owner[e]
      /\ \A e \in Execs : row[e] = "absent" /\ e \notin Launched(P) => row'[e] = "absent"
      /\ \A e \in Execs : pend'[e] = pend[e] \/ (e \in Launched(P) /\ pend'[e] = pend[e] + 1 /\ Chains(e) < MaxChains)
      /\ Numbered'
  BY LaunchFacts
<1> HIDE DEF t
<1>2. "absent" \notin LiveRow /\ Todo(P) \subseteq PlanTasks
  BY DEF LiveRow, Todo
<1>3. \A e \in Launched(P) : row'[e] # "absent" /\ owner'[e] \in PlanTasks
  BY <1>1, <1>2
<1>4. Grows
  BY <1>1 DEF Grows
<1>5. ASSUME NEW e \in Execs
      PROVE  RowFits(e)'
  <2>1. RowFits(e) /\ pend[e] \in Nat /\ live[e] \in Nat
    BY BoundsAssumption DEF RInv, Rows, TypeOK
  <2>2. Chains(e)' <= MaxChains
    BY <1>1, <2>1, BoundsAssumption DEF Chains, RowFits
  <2>3. row'[e] = "absent" => Chains(e)' = 0
    BY <1>1, <1>3, <2>1 DEF Chains, RowFits
  <2>4. row'[e] # "absent" => owner'[e] \in PlanTasks
    BY <1>1, <1>3, <2>1 DEF RowFits
  <2> QED
    BY <2>2, <2>3, <2>4 DEF RowFits
<1>6. ASSUME NEW p \in PlanTasks
      PROVE  execOf'[p] = execOf[p] \/ FileFits(p)'
  BY <1>1, <1>2 DEF FileFits
<1>7. \A x \in Executions : \A e \in ex'[x].waits : e \in ex[x].waits \/ row'[e] # "absent"
  BY <1>3
<1> QED
  BY <1>1, <1>4, <1>5, <1>6, <1>7, RowsKept

LEMMA OpenWaveStep ==
  ASSUME RInv, NEW x \in Executions, NEW n \in 1..Len(SliceWaves), OpenWave(x, n),
         UNCHANGED <<live, deferred, imports, cache, retried, called, daemon>>,
         milestone' \in PlanStatus, active' \in Executions \cup {0}, starting' \in BOOLEAN
  PROVE  RInv'
<1> DEFINE S == {s \in SliceWaves[n] : slice[s] \notin Over}
           W == {s \in S : TasksOf(s) # {}}
           P == FirstTasks(n)
<1>1. /\ slice' = [s \in Slices |-> IF s \in S THEN "active" ELSE slice[s]]
      /\ Launch(P)
      /\ ex' = [ex EXCEPT ![x] =
                 [open |-> TRUE, running |-> TRUE, wave |-> n, opened |-> S,
                  pos |-> [s \in Slices |-> IF s \in W THEN 1 ELSE 0],
                  waits |-> Launched(P)]]
  BY DEF OpenWave, FirstTasks
<1>2. P \in SUBSET PlanTasks /\ S \in SUBSET Slices
  BY FirstTasksType
<1>3. n \in 0..Cardinality(Slices)
  BY SliceWavesType
<1>4. \A s \in W : 1 \in 0..Cardinality(PlanTasks)
  <2> SUFFICES ASSUME NEW s \in W
               PROVE  1 \in 0..Cardinality(PlanTasks)
    OBVIOUS
  <2>1. s \in Slices /\ TasksOf(s) # {}
    BY <1>2
  <2>2. Len(TaskWaves(s)) # 0 /\ Len(TaskWaves(s)) \in 0..Cardinality(PlanTasks) /\ Cardinality(PlanTasks) \in Nat
    BY <2>1, TaskWavesType
  <2> QED
    BY <2>2
<1>5. 0 \in 0..Cardinality(PlanTasks)
  BY PlanAssumption, FS_CardinalityType
<1>6. Launched(P) \in SUBSET Execs
  BY <1>1, <1>2, LaunchFacts
<1>7. [s \in Slices |-> IF s \in W THEN 1 ELSE 0] \in [Slices -> 0..Cardinality(PlanTasks)]
  BY <1>4, <1>5
<1> HIDE DEF S, W, P
<1>8. ex' \in [Executions -> Execution]
  <2>1. [open |-> TRUE, running |-> TRUE, wave |-> n, opened |-> S,
         pos |-> [s \in Slices |-> IF s \in W THEN 1 ELSE 0],
         waits |-> Launched(P)] \in Execution
    BY <1>2, <1>3, <1>6, <1>7 DEF Execution
  <2> QED
    BY <1>1, <2>1 DEF RInv, TypeOK
<1>9. slice' \in [Slices -> PlanStatus]
  BY <1>1 DEF RInv, TypeOK, PlanStatus
<1>10. TypeOK'
  BY <1>1, <1>2, <1>8, <1>9, LaunchFacts DEF RInv, TypeOK
<1>11. \A y \in Executions : ex'[y].waits \subseteq ex[y].waits \cup Launched(P)
  BY <1>1 DEF RInv, TypeOK
<1> QED
  BY <1>1, <1>2, <1>10, <1>11, LaunchKeepsRows DEF RInv

LEMMA LaunchStep ==
  ASSUME RInv, NEW x \in Executions,
         \/ BeginExecution
         \/ MilestoneStartsWave(x)
         \/ \E s \in Slices : SliceStartsWave(x, s)
  PROVE  RInv'
<1>1. CASE BeginExecution /\ active # 0
  <2>1. /\ UNCHANGED <<milestone, slice, plan, execOf, row, owner, pend, active, ex>>
        /\ UNCHANGED <<retried, live, deferred, imports, cache, called, daemon>>
        /\ starting' = FALSE
    BY <1>1 DEF BeginExecution, planVars
  <2>2. TypeOK'
    BY <2>1 DEF RInv, TypeOK
  <2>3. Numbered' /\ Grows /\ \A e \in Execs : RowFits(e)'
    BY <2>1, RowsUntouched
  <2>4. Rows'
    BY <2>1, <2>3, RowsKept
  <2> QED
    BY <2>2, <2>4 DEF RInv
<1>2. CASE BeginExecution /\ active = 0
  <2>1. Unused \in Executions
    BY <1>2 DEF BeginExecution, Unused
  <2>2. /\ UNCHANGED <<retried, live, deferred, imports, cache, called, daemon>>
        /\ starting' = FALSE /\ active' = Unused /\ milestone' = "active" /\ OpenWave(Unused, 1)
    BY <1>2 DEF BeginExecution
  <2>3. 1 \in 1..Len(SliceWaves)
    BY SliceWavesType
  <2> QED
    BY <2>1, <2>2, <2>3, OpenWaveStep DEF PlanStatus
<1>3. CASE MilestoneStartsWave(x)
  <2>1. /\ UNCHANGED <<milestone, retried, live, deferred, imports, cache, active, starting, called, daemon>>
        /\ OpenWave(x, ex[x].wave + 1) /\ ex[x].wave < Len(SliceWaves)
    BY <1>3 DEF MilestoneStartsWave, loopVars
  <2>2. ex[x].wave \in Nat /\ Len(SliceWaves) \in Nat
    BY SliceWavesType DEF RInv, TypeOK, Execution
  <2>3. ex[x].wave + 1 \in 1..Len(SliceWaves)
    BY <2>1, <2>2
  <2> QED
    BY <2>1, <2>3, OpenWaveStep DEF RInv, TypeOK
<1>4. ASSUME NEW s \in Slices, SliceStartsWave(x, s)
      PROVE  RInv'
  <2> DEFINE n == ex[x].pos[s] + 1
             P == TaskWaves(s)[n]
  <2>1. /\ UNCHANGED <<milestone, slice, retried, live, deferred, imports, cache, active, starting, called, daemon>>
        /\ Launch(P) /\ n <= Len(TaskWaves(s))
        /\ ex' = [ex EXCEPT ![x].pos[s] = n, ![x].waits = @ \cup Launched(P)]
    BY <1>4 DEF SliceStartsWave, loopVars
  <2>2. /\ TaskWaves(s) \in Seq(SUBSET TasksOf(s)) /\ Cardinality(PlanTasks) \in Nat
        /\ Len(TaskWaves(s)) \in 0..Cardinality(PlanTasks)
    BY TaskWavesType
  <2>3. ex[x].pos[s] \in Nat
    BY DEF RInv, TypeOK, Execution
  <2>4. n \in 1..Len(TaskWaves(s)) /\ n \in 0..Cardinality(PlanTasks)
    BY <2>1, <2>2, <2>3
  <2>5. P \in SUBSET PlanTasks
    BY <2>2, <2>4 DEF TasksOf
  <2> HIDE DEF n, P
  <2>6. Launched(P) \in SUBSET Execs
    BY <2>1, <2>5, LaunchFacts
  <2>7. ex' \in [Executions -> Execution]
    <3>1. ex[x] \in Execution /\ ex \in [Executions -> Execution]
      BY DEF RInv, TypeOK
    <3>2. ex[x].pos \in [Slices -> 0..Cardinality(PlanTasks)] /\ ex[x].waits \in SUBSET Execs
      BY <3>1 DEF Execution
    <3>3. ex' = [ex EXCEPT ![x] = [ex[x] EXCEPT !.pos = [ex[x].pos EXCEPT ![s] = n],
                                                !.waits = ex[x].waits \cup Launched(P)]]
      BY <2>1, <3>1 DEF Execution
    <3>4. [ex[x].pos EXCEPT ![s] = n] \in [Slices -> 0..Cardinality(PlanTasks)]
      BY <2>4, <3>2
    <3>5. [ex[x] EXCEPT !.pos = [ex[x].pos EXCEPT ![s] = n],
                        !.waits = ex[x].waits \cup Launched(P)] \in Execution
      BY <2>6, <3>1, <3>2, <3>4 DEF Execution
    <3> QED
      BY <3>1, <3>3, <3>5
  <2>8. \A y \in Executions : ex'[y].waits \subseteq ex[y].waits \cup Launched(P)
    BY <2>1 DEF RInv, TypeOK, Execution
  <2>9. TypeOK'
    BY <2>1, <2>5, <2>7, LaunchFacts DEF RInv, TypeOK
  <2> QED
    BY <2>1, <2>5, <2>8, <2>9, LaunchKeepsRows DEF RInv
<1> QED
  BY <1>1, <1>2, <1>3, <1>4

-----------------------------------------------------------------------------
(* The steps of the task executor and of the users of single rows.          *)
LEMMA SameRowsKept ==
  ASSUME RInv, NEW e \in Execs, row[e] # "absent",
         UNCHANGED <<planVars, owner, axVars>>,
         row' \in [Execs -> RowStatus],
         \A d \in Execs : row'[d] = "absent" <=> row[d] = "absent",
         retried' \subseteq Execs, deferred' \subseteq Execs,
         pend' \in [Execs -> 0..MaxChains], live' \in [Execs -> 0..MaxChains],
         \A d \in Execs : Chains(d)' <= MaxChains /\ (row[d] = "absent" => Chains(d)' = 0),
         imports' = imports \/ imports' = Append(imports, Sync(e))
  PROVE  RInv'
<1>1. UNCHANGED <<milestone, slice, plan, execOf, owner, cache, active, ex, starting, called, daemon>>
  BY DEF planVars, axVars, loopVars
<1>2. /\ imports \in Seq(Job) /\ Sync(e) \in Job
      /\ imports' \in Seq(Job)
      /\ \A i \in DOMAIN imports' : (i \in DOMAIN imports /\ imports'[i] = imports[i]) \/ imports'[i] = Sync(e)
  <2>1. imports \in Seq(Job) /\ Sync(e) \in Job
    BY DEF RInv, TypeOK, Sync, Job
  <2>2. CASE imports' = Append(imports, Sync(e))
    <3>1. /\ Len(imports') = Len(imports) + 1 /\ imports' \in Seq(Job)
          /\ \A i \in 1..Len(imports) : imports'[i] = imports[i]
          /\ imports'[Len(imports) + 1] = Sync(e)
      BY <2>1, <2>2
    <3>2. DOMAIN imports' = 1..(Len(imports) + 1) /\ DOMAIN imports = 1..Len(imports)
          /\ Len(imports) \in Nat
      BY <2>1, <3>1
    <3> QED
      BY <2>1, <3>1, <3>2
  <2> QED
    BY <2>1, <2>2
<1>3. TypeOK'
  BY <1>1, <1>2 DEF RInv, TypeOK
<1>4. Rows'
  <2>1. Numbered'
    BY NoRowMade
  <2>2. Grows
    BY <1>1 DEF Grows
  <2>3. \A d \in Execs : RowFits(d)'
    BY <1>1 DEF RInv, Rows, RowFits
  <2>4. ASSUME NEW i \in DOMAIN imports', imports'[i] = Sync(e)
        PROVE  JobFits(imports[i])'
    BY <2>4 DEF JobFits, Sync
  <2> QED
    BY <1>1, <1>2, <2>1, <2>2, <2>3, <2>4, RowsKept
<1> QED
  BY <1>3, <1>4 DEF RInv

(* A row that is at work is made.                                           *)
LEMMA AtWorkIsMade ==
  ASSUME RInv, NEW e \in Execs, pend[e] > 0 \/ live[e] > 0 \/ e \in deferred
  PROVE  row[e] # "absent"
<1>1. RowFits(e) /\ pend[e] \in Nat /\ live[e] \in Nat
  BY BoundsAssumption DEF RInv, Rows, TypeOK
<1> QED
  BY <1>1 DEF RowFits, Chains

LEMMA SessionStep ==
  ASSUME RInv, NEW e \in Execs,
         \/ StartSession(e) \/ FailToStart(e) \/ SessionSucceeds(e) \/ SessionAborts(e)
         \/ SessionParks(e) \/ RunDeferred(e) \/ Ask(e) \/ Cancel(e)
  PROVE  RInv'
<1> USE DEF LiveRow, RowStatus
<1>1. /\ row \in [Execs -> RowStatus] /\ MaxChains \in Nat
      /\ pend \in [Execs -> 0..MaxChains] /\ live \in [Execs -> 0..MaxChains]
      /\ retried \subseteq Execs /\ deferred \subseteq Execs
      /\ \A d \in Execs : Chains(d) <= MaxChains /\ (row[d] = "absent" => Chains(d) = 0)
  BY BoundsAssumption DEF RInv, TypeOK, Rows, RowFits
<1>2. row[e] # "absent"
  BY AtWorkIsMade DEF StartSession, FailToStart, SessionSucceeds, SessionAborts, SessionParks,
     SessionEnds, RunDeferred, Ask, Cancel
<1>3. CASE StartSession(e)
  <2>1. /\ UNCHANGED <<planVars, owner, axVars, imports, retried, deferred>>
        /\ row' = [row EXCEPT ![e] = "running"] /\ pend[e] > 0
        /\ pend' = [pend EXCEPT ![e] = @ - 1] /\ live' = [live EXCEPT ![e] = @ + 1]
    BY <1>3 DEF StartSession
  <2>2. live[e] + 1 \in 0..MaxChains /\ pend[e] - 1 \in 0..MaxChains
    BY <1>1, <2>1 DEF Chains
  <2>3. \A d \in Execs : Chains(d)' = Chains(d)
    BY <1>1, <2>1 DEF Chains
  <2> QED
    BY <1>1, <1>2, <2>1, <2>2, <2>3, SameRowsKept
<1>4. CASE FailToStart(e)
  <2>1. /\ UNCHANGED <<planVars, owner, axVars, live, retried, deferred>>
        /\ row' = [row EXCEPT ![e] = "failed"] /\ pend[e] > 0
        /\ pend' = [pend EXCEPT ![e] = @ - 1] /\ imports' = Append(imports, Sync(e))
    BY <1>4 DEF FailToStart
  <2>2. pend[e] - 1 \in 0..MaxChains
    BY <1>1, <2>1
  <2>3. \A d \in Execs : d # e => Chains(d)' = Chains(d)
    BY <1>1, <2>1 DEF Chains
  <2>4. Chains(e)' <= MaxChains
    BY <1>1, <2>1 DEF Chains
  <2>5. \A d \in Execs : Chains(d)' <= MaxChains /\ (row[d] = "absent" => Chains(d)' = 0)
    BY <1>1, <1>2, <2>3, <2>4
  <2> QED
    BY <1>1, <1>2, <2>1, <2>2, <2>5, SameRowsKept
<1>5. CASE SessionSucceeds(e) \/ SessionAborts(e) \/ SessionParks(e)
  <2>1. /\ UNCHANGED <<planVars, owner, axVars, pend, retried, deferred>>
        /\ \E st \in RowStatus \ {"absent"} : row' = [row EXCEPT ![e] = st]
        /\ live[e] > 0 /\ live' = [live EXCEPT ![e] = @ - 1]
        /\ imports' = imports \/ imports' = Append(imports, Sync(e))
    BY <1>5 DEF SessionSucceeds, SessionAborts, SessionParks, SessionEnds, Keeping
  <2>2. live[e] - 1 \in 0..MaxChains
    BY <1>1, <2>1
  <2>3. \A d \in Execs : Chains(d)' <= MaxChains /\ (row[d] = "absent" => Chains(d)' = 0)
    BY <1>1, <1>2, <2>1 DEF Chains
  <2>4. row' \in [Execs -> RowStatus] /\ \A d \in Execs : row'[d] = "absent" <=> row[d] = "absent"
    BY <1>1, <1>2, <2>1
  <2> QED
    BY <1>1, <1>2, <2>1, <2>2, <2>3, <2>4, SameRowsKept
<1>6. CASE RunDeferred(e)
  <2>1. /\ UNCHANGED <<planVars, row, owner, axVars, live, retried, imports>>
        /\ e \in deferred /\ deferred' = deferred \ {e}
        /\ pend' = [pend EXCEPT ![e] = @ + 1]
    BY <1>6 DEF RunDeferred, rowVars
  <2>2. pend[e] + 1 \in 0..MaxChains
    BY <1>1, <2>1 DEF Chains
  <2>3. \A d \in Execs : Chains(d)' = Chains(d)
    BY <1>1, <2>1 DEF Chains
  <2> QED
    BY <1>1, <1>2, <2>1, <2>2, <2>3, SameRowsKept
<1>7. CASE Ask(e) \/ Cancel(e)
  <2>1. /\ UNCHANGED <<planVars, owner, axVars, live, retried, imports, deferred>>
        /\ row[e] # "absent"
        /\ pend' = pend \/ pend' = [pend EXCEPT ![e] = 0]
        /\ \E st \in RowStatus \ {"absent"} : row' = [row EXCEPT ![e] = st]
    BY <1>7 DEF Ask, Cancel, teVars
  <2>2. pend' \in [Execs -> 0..MaxChains] /\ \A d \in Execs : d # e => pend'[d] = pend[d]
    BY <1>1, <2>1
  <2>3. \A d \in Execs : d # e => Chains(d)' = Chains(d)
    BY <2>1, <2>2 DEF Chains
  <2>5. Chains(e)' <= MaxChains
    <3>1. pend'[e] <= pend[e] /\ pend'[e] \in Nat
      BY <1>1, <2>1
    <3> QED
      BY <1>1, <2>1, <3>1 DEF Chains
  <2>6. \A d \in Execs : Chains(d)' <= MaxChains /\ (row[d] = "absent" => Chains(d)' = 0)
    BY <1>1, <1>2, <2>3, <2>5
  <2>4. row' \in [Execs -> RowStatus] /\ \A d \in Execs : row'[d] = "absent" <=> row[d] = "absent"
    BY <1>1, <1>2, <2>1
  <2> QED
    BY <1>1, <1>2, <2>1, <2>2, <2>4, <2>6, SameRowsKept
<1> QED
  BY <1>3, <1>4, <1>5, <1>6, <1>7

(* A parked row that resumes and an answered question call execute().       *)
LEMMA ResumeStep ==
  ASSUME RInv, NEW e \in Execs, Resume(e) \/ Answer(e)
  PROVE  RInv'
<1>1. /\ row \in [Execs -> RowStatus] /\ MaxChains \in Nat
      /\ pend \in [Execs -> 0..MaxChains] /\ live \in [Execs -> 0..MaxChains]
      /\ retried \subseteq Execs /\ deferred \subseteq Execs
      /\ \A d \in Execs : Chains(d) <= MaxChains /\ (row[d] = "absent" => Chains(d) = 0)
  BY BoundsAssumption DEF RInv, TypeOK, Rows, RowFits
<1>2. /\ UNCHANGED <<planVars, owner, axVars, live, retried, imports, deferred>>
      /\ row[e] # "absent"
      /\ pend' = pend \/ Dispatch({e})
      /\ \E st \in {"queued", "running"} : row' = [row EXCEPT ![e] = st]
  BY DEF Resume, Answer
<1>3. /\ pend' \in [Execs -> 0..MaxChains]
      /\ \A d \in Execs : pend'[d] = pend[d] \/ (d = e /\ pend'[d] = pend[d] + 1 /\ Chains(d) < MaxChains)
  BY <1>1, <1>2, Dispatches
<1>4. \A d \in Execs : Chains(d)' <= MaxChains /\ (row[d] = "absent" => Chains(d)' = 0)
  BY <1>1, <1>2, <1>3 DEF Chains
<1>5. row' \in [Execs -> RowStatus] /\ \A d \in Execs : row'[d] = "absent" <=> row[d] = "absent"
  BY <1>1, <1>2 DEF RowStatus, LiveRow
<1> QED
  BY <1>1, <1>2, <1>3, <1>4, <1>5, SameRowsKept

(* The bound of the user's steps leaves ids for what they insert.           *)
LEMMA RoomIsRoom ==
  ASSUME RInv, NEW n \in Nat, Room(n)
  PROVE  Cardinality(Made) + n <= MaxExecs
<1>1. Cardinality({p \in PlanTasks : plan[p] \notin Over}) \in Nat
  <2>1. IsFiniteSet({p \in PlanTasks : plan[p] \notin Over})
    BY PlanAssumption, FS_Subset
  <2> QED
    BY <2>1, FS_CardinalityType
<1>2. Cardinality(Made) \in Nat
  BY NextId, BoundsAssumption
<1> QED
  BY <1>1, <1>2, BoundsAssumption DEF Room

(* One new row, with the next id.                                           *)
LEMMA OneRowMade ==
  ASSUME RInv, FreshExec \in Execs,
         row' \in [Execs -> RowStatus], row'[FreshExec] # "absent",
         \A e \in Execs : e # FreshExec => (row'[e] = "absent" <=> row[e] = "absent")
  PROVE  Numbered' /\ row[FreshExec] = "absent"
<1>1. PICK n \in 0..MaxExecs :
           /\ n = Cardinality(Made) /\ FreshExec = n + 1
           /\ \A e \in Execs : row[e] # "absent" <=> e <= n
  BY NextId
<1>2. n \in Nat /\ n + 1 <= MaxExecs /\ MaxExecs \in Nat /\ Execs = 1..MaxExecs
  BY <1>1, BoundsAssumption DEF Execs
<1>3. row[FreshExec] = "absent"
  BY <1>1, <1>2
<1>4. \A e \in Execs : row[e] = "absent" => (row'[e] # "absent" <=> e <= n + 1)
  <2> SUFFICES ASSUME NEW e \in Execs, row[e] = "absent"
               PROVE  row'[e] # "absent" <=> e <= n + 1
    OBVIOUS
  <2>1. e \in Nat /\ e > n
    BY <1>1, <1>2
  <2>2. row'[e] # "absent" <=> e = FreshExec
    OBVIOUS
  <2> QED
    BY <1>1, <1>2, <2>1, <2>2
<1>5. \A e \in Execs : row[e] # "absent" => row'[e] # "absent"
  BY <1>3
<1>6. Cardinality(Made) + 1 <= MaxExecs
  BY <1>1, <1>2
<1>7. \A e \in Execs : row[e] = "absent" => (row'[e] # "absent" <=> e <= Cardinality(Made) + 1)
  BY <1>1, <1>4
<1> QED
  BY <1>3, <1>5, <1>6, <1>7, MakingRows

(* A row that is not made is not at work, and one that is no more at work    *)
(* than before still fits.                                                  *)
LEMMA AtRest ==
  ASSUME RInv, NEW d \in Execs, row[d] = "absent"
  PROVE  pend[d] = 0 /\ live[d] = 0 /\ d \notin deferred
<1>1. Chains(d) = 0
  BY DEF RInv, Rows, RowFits
<1>2. pend[d] \in Nat /\ live[d] \in Nat
  BY BoundsAssumption DEF RInv, TypeOK
<1>3. pend[d] + live[d] + (IF d \in deferred THEN 1 ELSE 0) = 0
  BY <1>1 DEF Chains
<1> QED
  BY <1>2, <1>3

LEMMA FitsAsBefore ==
  ASSUME RInv, NEW d \in Execs, row'[d] = "absent" <=> row[d] = "absent", owner'[d] = owner[d],
         pend'[d] \in Nat, pend'[d] <= pend[d], live'[d] \in Nat, live'[d] <= live[d],
         d \in deferred' => d \in deferred
  PROVE  RowFits(d)'
<1>1. /\ pend[d] \in Nat /\ live[d] \in Nat /\ MaxChains \in Nat
      /\ Chains(d) <= MaxChains /\ (row[d] = "absent" => Chains(d) = 0)
      /\ row[d] # "absent" => owner[d] \in PlanTasks
  BY BoundsAssumption DEF RInv, TypeOK, Rows, RowFits
<1>2. Chains(d)' <= MaxChains
  BY <1>1 DEF Chains
<1>3. row[d] = "absent" => Chains(d)' = 0
  BY <1>1, AtRest DEF Chains
<1> QED
  BY <1>1, <1>2, <1>3 DEF RowFits

LEMMA RetryStep ==
  ASSUME RInv, NEW e \in Execs, SessionIsRetried(e)
  PROVE  RInv'
<1> DEFINE f == FreshExec
           r == [kind |-> "repoint", exec |-> e, to |-> f]
<1>1. /\ UNCHANGED <<planVars, pend, axVars>> /\ f \in Execs
      /\ live[e] > 0 /\ live' = [live EXCEPT ![e] = @ - 1]
      /\ row' = [row EXCEPT ![e] = Keeping(e, "failed"), ![f] = "queued"]
      /\ owner' = [owner EXCEPT ![f] = owner[e]]
      /\ retried' = retried \cup {f} /\ deferred' = deferred \cup {f}
      /\ imports' = imports \o <<Sync(e), r>>
  BY DEF SessionIsRetried, SessionEnds
<1>2. UNCHANGED <<milestone, slice, plan, execOf, pend, cache, active, ex, starting, called, daemon>>
  BY <1>1 DEF planVars, axVars, loopVars
<1>3. /\ row \in [Execs -> RowStatus] /\ owner \in [Execs -> PlanTasks \cup {NoTask}]
      /\ MaxChains \in Nat \ {0}
      /\ pend \in [Execs -> 0..MaxChains] /\ live \in [Execs -> 0..MaxChains]
      /\ imports \in Seq(Job) /\ deferred \subseteq Execs
      /\ \A d \in Execs : RowFits(d)
  BY BoundsAssumption DEF RInv, TypeOK, Rows
<1>4. row[e] # "absent"
  BY <1>1, AtWorkIsMade
<1> HIDE DEF f
<1>5. Keeping(e, "failed") \in RowStatus \ {"absent"} /\ "queued" \in RowStatus
  BY DEF Keeping, RowStatus, LiveRow
<1>6. row' \in [Execs -> RowStatus] /\ row'[f] = "queued"
      /\ \A d \in Execs : d # f => (row'[d] = "absent" <=> row[d] = "absent")
  BY <1>1, <1>3, <1>4, <1>5
<1>7. Numbered' /\ row[f] = "absent"
  BY <1>1, <1>6, OneRowMade DEF f
<1>8. e # f
  BY <1>4, <1>7
<1>9. /\ imports' \in Seq(Job)
      /\ \A i \in DOMAIN imports' : (i \in DOMAIN imports /\ imports'[i] = imports[i])
                                    \/ imports'[i] \in {Sync(e), r}
  <2>1. Sync(e) \in Job /\ r \in Job
    BY <1>1 DEF Sync, Job
  <2> HIDE DEF r
  <2>2. /\ Len(imports') = Len(imports) + 2 /\ imports' \in Seq(Job)
        /\ \A i \in 1..Len(imports) : imports'[i] = imports[i]
        /\ imports'[Len(imports) + 1] = Sync(e) /\ imports'[Len(imports) + 2] = r
    BY <1>1, <1>3, <2>1
  <2>3. DOMAIN imports' = 1..(Len(imports) + 2) /\ DOMAIN imports = 1..Len(imports)
        /\ Len(imports) \in Nat
    BY <1>3, <2>2
  <2>4. \A i \in 1..(Len(imports) + 2) : i \in 1..Len(imports) \/ i = Len(imports) + 1 \/ i = Len(imports) + 2
    BY <2>3
  <2> QED
    BY <2>2, <2>3, <2>4
<1>10. TypeOK'
  <2>1. live' \in [Execs -> 0..MaxChains] /\ owner' \in [Execs -> PlanTasks \cup {NoTask}]
    BY <1>1, <1>3
  <2> QED
    BY <1>1, <1>2, <1>6, <1>9, <2>1 DEF RInv, TypeOK
<1>11. Grows
  BY <1>1, <1>3, <1>6, <1>7 DEF Grows
<1>12. ASSUME NEW d \in Execs
       PROVE  RowFits(d)'
  <2>1. CASE d = f
    <3>1. pend[f] = 0 /\ live'[f] = 0
      BY <1>1, <1>3, <1>7, <1>8, AtRest
    <3>2. owner'[f] = owner[e] /\ owner[e] \in PlanTasks
      BY <1>1, <1>3, <1>4 DEF RowFits
    <3>3. Chains(d)' = 1 /\ MaxChains >= 1
      BY <1>1, <1>2, <1>3, <2>1, <3>1 DEF Chains
    <3>4. row'[d] = "queued" /\ owner'[d] \in PlanTasks
      BY <1>6, <2>1, <3>2
    <3> QED
      BY <1>3, <3>3, <3>4 DEF RowFits
  <2>2. CASE d # f
    <3>1. /\ live'[d] \in Nat /\ live'[d] <= live[d] /\ pend'[d] = pend[d]
          /\ d \in deferred' <=> d \in deferred
          /\ owner'[d] = owner[d]
      BY <1>1, <1>2, <1>3, <2>2
    <3>2. row'[d] = "absent" <=> row[d] = "absent"
      BY <1>6, <2>2
    <3>3. pend[d] \in Nat
      BY <1>3
    <3> QED
      BY <3>1, <3>2, <3>3, FitsAsBefore
  <2> QED
    BY <2>1, <2>2
<1>13. ASSUME NEW i \in DOMAIN imports', imports'[i] \in {Sync(e), r}
       PROVE  JobFits(imports[i])'
  <2>1. row'[e] # "absent" /\ row'[f] # "absent" /\ owner'[f] = owner'[e]
    BY <1>1, <1>3, <1>4, <1>6, <1>8
  <2> QED
    BY <1>13, <2>1 DEF JobFits, Sync
<1>14. Rows'
  BY <1>2, <1>7, <1>9, <1>11, <1>12, <1>13, RowsKept
<1> QED
  BY <1>10, <1>14 DEF RInv

LEMMA RerunStep ==
  ASSUME RInv, NEW e \in Execs, Rerun(e)
  PROVE  RInv'
<1> DEFINE f == FreshExec
           p == Located(e)
<1>1. /\ Room(2) /\ row[e] \in Reruns
      /\ row' = [row EXCEPT ![f] = "queued"] /\ owner' = [owner EXCEPT ![f] = owner[e]]
      /\ \/ UNCHANGED <<milestone, slice, plan, execOf, cache>>
         \/ /\ p # NoTask /\ Aggregate([plan EXCEPT ![p] = "active"], {SliceOf[p]})
            /\ execOf' = [execOf EXCEPT ![p] = f] /\ cache' = {}
      /\ Dispatch({f})
      /\ UNCHANGED <<retried, live, deferred, imports, active, ex, starting, called, daemon>>
  BY DEF Rerun, planVars, loopVars
<1>2. p # NoTask => p = owner[e]
  BY DEF Located
<1>3. /\ row \in [Execs -> RowStatus] /\ owner \in [Execs -> PlanTasks \cup {NoTask}]
      /\ MaxChains \in Nat \ {0}
      /\ pend \in [Execs -> 0..MaxChains] /\ live \in [Execs -> 0..MaxChains]
      /\ execOf \in [PlanTasks -> Execs \cup {NoExec}]
      /\ \A d \in Execs : RowFits(d)
  BY BoundsAssumption DEF RInv, TypeOK, Rows
<1>4. row[e] # "absent"
  BY <1>1, BoundsAssumption
<1>5. f \in Execs
  <2>1. Cardinality(Made) + 2 <= MaxExecs /\ Cardinality(Made) \in Nat
    BY <1>1, RoomIsRoom, NextId, BoundsAssumption
  <2> QED
    BY <2>1, BoundsAssumption DEF FreshExec, Execs
<1>6. /\ pend' \in [Execs -> 0..MaxChains]
      /\ \A d \in Execs : pend'[d] = pend[d] \/ (d = f /\ pend'[d] = pend[d] + 1 /\ Chains(d) < MaxChains)
  BY <1>1, Dispatches
<1> HIDE DEF f, p
<1>7. row' \in [Execs -> RowStatus] /\ row'[f] = "queued"
      /\ \A d \in Execs : d # f => row'[d] = row[d]
  BY <1>1, <1>3, <1>5 DEF RowStatus, LiveRow
<1>8. Numbered' /\ row[f] = "absent"
  BY <1>5, <1>7, OneRowMade DEF f
<1>9. owner' \in [Execs -> PlanTasks \cup {NoTask}] /\ owner'[f] = owner[e] /\ owner[e] \in PlanTasks
      /\ \A d \in Execs : d # f => owner'[d] = owner[d]
  BY <1>1, <1>3, <1>4, <1>5 DEF RowFits
<1>10. TypeOK'
  <2>1. /\ milestone' \in PlanStatus /\ slice' \in [Slices -> PlanStatus]
        /\ plan' \in [PlanTasks -> PlanStatus]
    <3>1. [plan EXCEPT ![p] = "active"] \in [PlanTasks -> PlanStatus]
      BY DEF RInv, TypeOK, PlanStatus
    <3>2. CASE Aggregate([plan EXCEPT ![p] = "active"], {SliceOf[p]})
      BY <3>1, <3>2, Aggregates DEF RInv
    <3>3. CASE UNCHANGED <<milestone, slice, plan>>
      BY <3>3 DEF RInv, TypeOK
    <3> QED
      BY <1>1, <3>2, <3>3
  <2>2. execOf' \in [PlanTasks -> Execs \cup {NoExec}] /\ cache' \subseteq Execs
    BY <1>1, <1>5 DEF RInv, TypeOK
  <2> QED
    BY <1>1, <1>6, <1>7, <1>9, <2>1, <2>2 DEF RInv, TypeOK
<1>11. Grows
  BY <1>7, <1>8, <1>9 DEF Grows
<1>12. ASSUME NEW d \in Execs
       PROVE  RowFits(d)'
  <2>1. RowFits(d) /\ pend[d] \in Nat /\ live[d] \in Nat
    BY <1>3
  <2>2. Chains(d)' <= MaxChains
    BY <1>1, <1>3, <1>6, <2>1 DEF RowFits, Chains
  <2>3. row'[d] = "absent" => d # f /\ row[d] = "absent"
    BY <1>7
  <2>4. row'[d] = "absent" => Chains(d)' = 0
    BY <1>1, <1>6, <2>1, <2>3 DEF RowFits, Chains
  <2>5. row'[d] # "absent" => owner'[d] \in PlanTasks
    BY <1>7, <1>9, <2>1 DEF RowFits
  <2> QED
    BY <2>2, <2>4, <2>5 DEF RowFits
<1>13. ASSUME NEW q \in PlanTasks
       PROVE  execOf'[q] = execOf[q] \/ FileFits(q)'
  <2>1. CASE p # NoTask /\ q = p /\ execOf' = [execOf EXCEPT ![p] = f]
    <3>1. execOf'[q] = f /\ owner'[f] = q /\ row'[f] # "absent"
      BY <1>2, <1>3, <1>7, <1>9, <2>1
    <3> QED
      BY <3>1 DEF FileFits
  <2>2. CASE q # p \/ execOf' = execOf
    BY <1>1, <1>3, <2>2
  <2> QED
    BY <1>1, <2>1, <2>2
<1>14. Rows'
  BY <1>1, <1>8, <1>11, <1>12, <1>13, RowsKept
<1> QED
  BY <1>10, <1>14 DEF RInv

(* Rerun-failed: a new row for each failed plan task.                       *)
Failed == {p \in PlanTasks : plan[p] = "failed" /\ execOf[p] # NoExec}
LEMMA RerunFailedFacts ==
  ASSUME RInv, RerunFailed
  PROVE  LET E == {NewId(Failed, p) : p \in Failed}
         IN /\ E \in SUBSET Execs
            /\ Aggregate([p \in PlanTasks |-> IF p \in Failed THEN "active" ELSE plan[p]],
                         {SliceOf[p] : p \in Failed})
            /\ \A p \in PlanTasks : execOf'[p] = IF p \in Failed THEN NewId(Failed, p) ELSE execOf[p]
            /\ \A p \in Failed : /\ row[NewId(Failed, p)] = "absent" /\ row'[NewId(Failed, p)] = "queued"
                                 /\ owner'[NewId(Failed, p)] = p
            /\ \A e \in Execs \ E : row'[e] = row[e] /\ owner'[e] = owner[e]
            /\ \A e \in E : row[e] = "absent"
            /\ \A e \in Execs : pend'[e] = pend[e] \/ (e \in E /\ pend'[e] = pend[e] + 1 /\ Chains(e) < MaxChains)
            /\ Numbered'
            /\ execOf' \in [PlanTasks -> Execs \cup {NoExec}]
            /\ row' \in [Execs -> RowStatus] /\ owner' \in [Execs -> PlanTasks \cup {NoTask}]
            /\ pend' \in [Execs -> 0..MaxChains]
            /\ called' \in SUBSET E /\ starting' \in BOOLEAN /\ cache' = {} /\ (called' # {} => starting')
            /\ UNCHANGED <<retried, live, deferred, imports, active, ex, daemon>>
<1> DEFINE id(p) == NewId(Failed, p)
           E == {id(p) : p \in Failed}
           n == Cardinality(Made)
           k == Cardinality(Failed)
<1>1. Failed \in SUBSET PlanTasks
  BY DEF Failed
<1>2. /\ n \in Nat /\ k \in Nat
      /\ \A p \in Failed : id(p) \in (n + 1)..(n + k)
      /\ \A e \in (n + 1)..(n + k) : \E p \in Failed : id(p) = e
      /\ \A p, q \in Failed : id(p) = id(q) => p = q
      /\ \A e \in Execs : row[e] # "absent" <=> e <= n
  BY <1>1, NewIds
<1> HIDE DEF id
<1>3. /\ Room(3 * k)
      /\ Aggregate([p \in PlanTasks |-> IF p \in Failed THEN "active" ELSE plan[p]],
                   {SliceOf[p] : p \in Failed})
      /\ cache' = {} /\ starting' \in BOOLEAN
      /\ UNCHANGED <<retried, live, deferred, imports, active, ex, daemon>>
  BY DEF RerunFailed, Failed
<1>4. LET order == SetToSeq(Failed)
          new == [p \in Failed |-> FreshExec - 1 + CHOOSE i \in DOMAIN order : order[i] = p]
          G == {new[p] : p \in Failed}
          failedTask == [e \in G |-> CHOOSE p \in Failed : new[p] = e]
      IN /\ execOf' = [p \in PlanTasks |-> IF p \in Failed THEN new[p] ELSE execOf[p]]
         /\ row' = [e \in Execs |-> IF e \in G THEN "queued" ELSE row[e]]
         /\ owner' = [e \in Execs |-> IF e \in G THEN failedTask[e] ELSE owner[e]]
         /\ Dispatch(G)
         /\ called' = IF starting' THEN G ELSE {}
  BY DEF RerunFailed, Failed
<1> DEFINE new == [p \in Failed |-> id(p)]
           G == {new[p] : p \in Failed}
           failedTask == [e \in G |-> CHOOSE p \in Failed : new[p] = e]
<1>5. /\ execOf' = [p \in PlanTasks |-> IF p \in Failed THEN new[p] ELSE execOf[p]]
      /\ row' = [e \in Execs |-> IF e \in G THEN "queued" ELSE row[e]]
      /\ owner' = [e \in Execs |-> IF e \in G THEN failedTask[e] ELSE owner[e]]
      /\ Dispatch(G)
      /\ called' = IF starting' THEN G ELSE {}
  BY <1>4 DEF id, NewId, Position
<1>6. G = E
  OBVIOUS
<1>7. /\ \A p \in PlanTasks : execOf'[p] = IF p \in Failed THEN id(p) ELSE execOf[p]
      /\ row' = [e \in Execs |-> IF e \in E THEN "queued" ELSE row[e]]
      /\ owner' = [e \in Execs |-> IF e \in E THEN CHOOSE p \in Failed : id(p) = e ELSE owner[e]]
      /\ Dispatch(E) /\ called' = IF starting' THEN E ELSE {}
  <2>1. \A p \in PlanTasks : execOf'[p] = IF p \in Failed THEN id(p) ELSE execOf[p]
    BY <1>5
  <2>2. \A e \in G : failedTask[e] = CHOOSE p \in Failed : id(p) = e
    <3>1. \A e : (CHOOSE p \in Failed : new[p] = e) = CHOOSE p \in Failed : id(p) = e
      <4> SUFFICES ASSUME NEW e
                   PROVE  (CHOOSE p \in Failed : new[p] = e) = CHOOSE p \in Failed : id(p) = e
        OBVIOUS
      <4>1. \A p : (p \in Failed /\ new[p] = e) <=> (p \in Failed /\ id(p) = e)
        OBVIOUS
      <4> QED
        BY <4>1
    <3> QED
      BY <3>1
  <2>3. owner' = [e \in Execs |-> IF e \in E THEN CHOOSE p \in Failed : id(p) = e ELSE owner[e]]
    <3> HIDE DEF failedTask, new
    <3> QED
      BY <1>5, <1>6, <2>2
  <2> QED
    BY <1>5, <1>6, <2>1, <2>3
<1> HIDE DEF new, G, failedTask, n, k
<1>8. n + k <= MaxExecs /\ MaxExecs \in Nat
  <2>1. n + 3 * k <= MaxExecs
    BY <1>2, <1>3, RoomIsRoom DEF n
  <2> QED
    BY <1>2, <2>1, BoundsAssumption
<1>9. \A e \in (n + 1)..(n + k) : e \in Execs /\ row[e] = "absent"
  BY <1>2, <1>8 DEF Execs
<1>10. E \in SUBSET Execs /\ \A e \in E : row[e] = "absent"
  BY <1>2, <1>9
<1>11. \A p \in Failed : id(p) \in E /\ id(p) \in Execs
  BY <1>10
<1>12. ASSUME NEW p \in Failed
       PROVE  row'[id(p)] = "queued" /\ owner'[id(p)] = p
  <2>1. owner'[id(p)] = CHOOSE q \in Failed : id(q) = id(p)
    BY <1>7, <1>11
  <2>2. (CHOOSE q \in Failed : id(q) = id(p)) = p
    BY <1>2
  <2> QED
    BY <1>7, <1>11, <2>1, <2>2
<1>13. /\ row \in [Execs -> RowStatus] /\ owner \in [Execs -> PlanTasks \cup {NoTask}]
       /\ execOf \in [PlanTasks -> Execs \cup {NoExec}]
  BY DEF RInv, TypeOK
<1>14. execOf' \in [PlanTasks -> Execs \cup {NoExec}]
  <2>1. \A p \in PlanTasks : execOf'[p] \in Execs \cup {NoExec}
    BY <1>7, <1>11, <1>13
  <2>2. execOf' = [p \in PlanTasks |-> execOf'[p]]
    BY <1>5
  <2> QED
    BY <2>1, <2>2
<1>15. row' \in [Execs -> RowStatus]
  BY <1>7, <1>13 DEF RowStatus, LiveRow
<1>16. owner' \in [Execs -> PlanTasks \cup {NoTask}]
  <2>1. \A e \in E : \E p \in Failed : e = id(p) /\ owner'[e] = p
    BY <1>12
  <2>2. \A e \in Execs : owner'[e] \in PlanTasks \cup {NoTask}
    BY <1>1, <1>7, <1>13, <2>1
  <2>3. owner' = [e \in Execs |-> owner'[e]]
    BY <1>7
  <2> QED
    BY <2>2, <2>3
<1>17. Numbered'
  <2>1. \A e \in Execs : row[e] # "absent" => row'[e] # "absent"
    BY <1>7
  <2>2. \A e \in Execs : row[e] = "absent" => (row'[e] # "absent" <=> e <= n + k)
    <3> SUFFICES ASSUME NEW e \in Execs, row[e] = "absent"
                 PROVE  row'[e] # "absent" <=> e <= n + k
      OBVIOUS
    <3>1. e \in Nat /\ e > n
      BY <1>2, <1>8, <1>9 DEF Execs
    <3>2. e \in E <=> e \in (n + 1)..(n + k)
      BY <1>2
    <3>3. row'[e] # "absent" <=> e \in E
      BY <1>7
    <3> QED
      BY <1>2, <3>1, <3>2, <3>3
  <2> QED
    BY <1>2, <1>8, <2>1, <2>2, MakingRows DEF n
<1>18. /\ pend' \in [Execs -> 0..MaxChains]
       /\ \A e \in Execs : pend'[e] = pend[e] \/ (e \in E /\ pend'[e] = pend[e] + 1 /\ Chains(e) < MaxChains)
  BY <1>7, Dispatches
<1>19. \A e \in Execs \ E : row'[e] = row[e] /\ owner'[e] = owner[e]
  BY <1>7
<1>20. called' \in SUBSET E /\ (called' # {} => starting')
  BY <1>7
<1> QED
  BY <1>3, <1>7, <1>10, <1>11, <1>12, <1>14, <1>15, <1>16, <1>17, <1>18, <1>19, <1>20 DEF id

LEMMA RerunFailedStep ==
  ASSUME RInv, RerunFailed
  PROVE  RInv'
<1> DEFINE E == {NewId(Failed, p) : p \in Failed}
<1>1. /\ E \in SUBSET Execs
      /\ Aggregate([p \in PlanTasks |-> IF p \in Failed THEN "active" ELSE plan[p]],
                   {SliceOf[p] : p \in Failed})
      /\ \A p \in PlanTasks : execOf'[p] = IF p \in Failed THEN NewId(Failed, p) ELSE execOf[p]
      /\ \A p \in Failed : row'[NewId(Failed, p)] = "queued" /\ owner'[NewId(Failed, p)] = p
      /\ \A e \in Execs \ E : row'[e] = row[e] /\ owner'[e] = owner[e]
      /\ \A e \in E : row[e] = "absent"
      /\ \A e \in Execs : pend'[e] = pend[e] \/ (e \in E /\ pend'[e] = pend[e] + 1 /\ Chains(e) < MaxChains)
      /\ Numbered'
      /\ execOf' \in [PlanTasks -> Execs \cup {NoExec}]
      /\ row' \in [Execs -> RowStatus] /\ owner' \in [Execs -> PlanTasks \cup {NoTask}]
      /\ pend' \in [Execs -> 0..MaxChains]
      /\ called' \in SUBSET E /\ starting' \in BOOLEAN /\ cache' = {}
      /\ UNCHANGED <<retried, live, deferred, imports, active, ex, daemon>>
  BY RerunFailedFacts
<1>2. \A e \in E : row'[e] = "queued" /\ owner'[e] \in PlanTasks
  <2>1. Failed \subseteq PlanTasks
    BY DEF Failed
  <2> QED
    BY <1>1, <2>1
<1> HIDE DEF E
<1>3. TypeOK'
  <2>1. [p \in PlanTasks |-> IF p \in Failed THEN "active" ELSE plan[p]] \in [PlanTasks -> PlanStatus]
    BY DEF RInv, TypeOK, PlanStatus
  <2>2. /\ milestone' \in PlanStatus /\ slice' \in [Slices -> PlanStatus]
        /\ plan' \in [PlanTasks -> PlanStatus]
    BY <1>1, <2>1, Aggregates DEF RInv
  <2> QED
    BY <1>1, <2>2 DEF RInv, TypeOK
<1>4. Grows
  BY <1>1 DEF Grows
<1>5. ASSUME NEW e \in Execs
      PROVE  RowFits(e)'
  <2>1. RowFits(e) /\ pend[e] \in Nat /\ live[e] \in Nat
    BY BoundsAssumption DEF RInv, TypeOK, Rows
  <2>2. Chains(e)' <= MaxChains
    BY <1>1, <2>1, BoundsAssumption DEF RowFits, Chains
  <2>3. row'[e] = "absent" => row[e] = "absent" /\ e \notin E
    BY <1>1, <1>2
  <2>4. row'[e] = "absent" => Chains(e)' = 0
    BY <1>1, <2>1, <2>3 DEF RowFits, Chains
  <2>5. row'[e] # "absent" => owner'[e] \in PlanTasks
    BY <1>1, <1>2, <2>1 DEF RowFits
  <2> QED
    BY <2>2, <2>4, <2>5 DEF RowFits
<1>6. ASSUME NEW q \in PlanTasks
      PROVE  execOf'[q] = execOf[q] \/ FileFits(q)'
  <2>1. CASE q \in Failed
    BY <1>1, <2>1 DEF FileFits
  <2>2. CASE q \notin Failed
    BY <1>1, <2>2
  <2> QED
    BY <2>1, <2>2
<1>7. Rows'
  BY <1>1, <1>4, <1>5, <1>6, RowsKept
<1> QED
  BY <1>3, <1>7 DEF RInv

LEMMA CrashStep ==
  ASSUME RInv, Crash
  PROVE  RInv'
<1>1. /\ pend' = [e \in Execs |-> 0] /\ live' = [e \in Execs |-> 0]
      /\ deferred' = {} /\ imports' = <<>> /\ cache' = {}
      /\ active' = 0 /\ ex' = [x \in Executions |-> Idle]
      /\ starting' = FALSE /\ called' = {} /\ daemon' = FALSE
      /\ UNCHANGED <<milestone, slice, plan, execOf, row, owner, retried>>
  BY DEF Crash, planVars, rowVars
<1>2. TypeOK'
  <2>1. ex' \in [Executions -> Execution]
    BY <1>1, IdleType
  <2>2. <<>> \in Seq(Job) /\ 0 \in 0..MaxChains
    BY BoundsAssumption
  <2> QED
    BY <1>1, <2>1, <2>2 DEF RInv, TypeOK
<1>3. Rows'
  <2>1. Numbered'
    BY <1>1, NoRowMade
  <2>2. Grows
    BY <1>1 DEF Grows
  <2>3. \A e \in Execs : RowFits(e)'
    BY <1>1, BoundsAssumption DEF RInv, Rows, RowFits, Chains
  <2>4. DOMAIN imports' = {}
    BY <1>1
  <2>5. \A x \in Executions : ex'[x].waits = {}
    BY <1>1 DEF Idle
  <2> QED
    BY <1>1, <2>1, <2>2, <2>3, <2>4, <2>5, RowsKept
<1> QED
  BY <1>2, <1>3 DEF RInv

(* What a boot does with the rows and the files.                            *)
LEMMA BootFacts ==
  ASSUME RInv, Boot
  PROVE  LET swept == [e \in Execs |-> IF e \in Orphans THEN "cancelled" ELSE row[e]]
         IN /\ ~daemon /\ daemon'
            /\ plan' = ReconciledPlan(swept)
            /\ slice' = [s \in Slices |-> IF AllOver(plan', s) THEN "completed"
                                          ELSE IF AnyIs(plan', s, "failed") THEN "failed" ELSE slice[s]]
            /\ milestone' = IF AllSlicesOver(slice') THEN "completed" ELSE milestone
            /\ \A e \in Execs : row'[e] = IF e \in Orphans THEN "cancelled"
                                          ELSE IF row[e] \in {"queued", "running"} THEN "queued" ELSE row[e]
            /\ row' = [e \in Execs |-> row'[e]]
            /\ called' \in SUBSET Execs /\ \A e \in called' : row'[e] = "queued"
            /\ starting' \in BOOLEAN
            /\ pend' \in [Execs -> 0..MaxChains]
            /\ \A e \in Execs : pend'[e] = pend[e] \/ (row'[e] = "queued" /\ pend'[e] = pend[e] + 1 /\ Chains(e) < MaxChains)
            /\ UNCHANGED <<execOf, owner, retried, live, deferred, imports, cache, active, ex>>
<1> DEFINE swept == [e \in Execs |-> IF e \in Orphans THEN "cancelled" ELSE row[e]]
           requeued == {e \in Execs : swept[e] \in {"queued", "running"}}
<1>1. /\ ~daemon /\ daemon' = TRUE
      /\ plan' = ReconciledPlan(swept)
      /\ slice' = ReconciledSlices(plan')
      /\ milestone' = IF AllSlicesOver(slice') THEN "completed" ELSE milestone
      /\ row' = [e \in Execs |-> IF e \in requeued THEN "queued" ELSE swept[e]]
      /\ starting' = HasWork(milestone', slice')
      /\ called' = requeued
      /\ Dispatch(requeued)
      /\ UNCHANGED <<execOf, owner, retried, live, deferred, imports, cache, active, ex>>
  BY DEF Boot
<1>2. /\ pend' \in [Execs -> 0..MaxChains]
      /\ \A e \in Execs : pend'[e] = pend[e] \/ (e \in requeued /\ pend'[e] = pend[e] + 1 /\ Chains(e) < MaxChains)
  BY <1>1, Dispatches
<1>3. \A e \in requeued : row'[e] = "queued"
  BY <1>1
<1>4. \A e \in Execs : row'[e] = IF e \in Orphans THEN "cancelled"
                                 ELSE IF row[e] \in {"queued", "running"} THEN "queued" ELSE row[e]
  BY <1>1
<1>5. slice' = [s \in Slices |-> IF AllOver(plan', s) THEN "completed"
                                 ELSE IF AnyIs(plan', s, "failed") THEN "failed" ELSE slice[s]]
  BY <1>1 DEF ReconciledSlices
<1>6. starting' \in BOOLEAN
  BY <1>1 DEF HasWork
<1>7. row' = [e \in Execs |-> row'[e]]
  BY <1>1
<1>8. requeued \in SUBSET Execs
  OBVIOUS
<1> HIDE DEF requeued, swept
<1> QED
  BY <1>1, <1>2, <1>3, <1>4, <1>5, <1>6, <1>7, <1>8 DEF swept

LEMMA BootStep ==
  ASSUME RInv, Boot
  PROVE  RInv'
<1> DEFINE swept == [e \in Execs |-> IF e \in Orphans THEN "cancelled" ELSE row[e]]
<1>1. /\ plan' = ReconciledPlan(swept)
      /\ slice' = [s \in Slices |-> IF AllOver(plan', s) THEN "completed"
                                    ELSE IF AnyIs(plan', s, "failed") THEN "failed" ELSE slice[s]]
      /\ milestone' = IF AllSlicesOver(slice') THEN "completed" ELSE milestone
      /\ \A e \in Execs : row'[e] = IF e \in Orphans THEN "cancelled"
                                    ELSE IF row[e] \in {"queued", "running"} THEN "queued" ELSE row[e]
      /\ row' = [e \in Execs |-> row'[e]]
      /\ called' \in SUBSET Execs /\ starting' \in BOOLEAN /\ daemon' \in BOOLEAN
      /\ pend' \in [Execs -> 0..MaxChains]
      /\ \A e \in Execs : pend'[e] = pend[e] \/ (row'[e] = "queued" /\ pend'[e] = pend[e] + 1 /\ Chains(e) < MaxChains)
      /\ UNCHANGED <<execOf, owner, retried, live, deferred, imports, cache, active, ex>>
  BY BootFacts
<1> HIDE DEF swept
<1>2. /\ row \in [Execs -> RowStatus] /\ plan \in [PlanTasks -> PlanStatus]
      /\ slice \in [Slices -> PlanStatus] /\ milestone \in PlanStatus
  BY DEF RInv, TypeOK
<1>3. \A e \in Execs : e \in Orphans => row[e] # "absent"
  BY DEF Orphans, LiveRow
<1>4. \A e \in Execs : row'[e] = "absent" <=> row[e] = "absent"
  BY <1>1, <1>3
<1>5. row' \in [Execs -> RowStatus]
  <2>1. \A e \in Execs : row'[e] \in RowStatus
    BY <1>1, <1>2 DEF RowStatus, LiveRow
  <2> QED
    BY <1>1, <2>1
<1>6. plan' \in [PlanTasks -> PlanStatus]
  <2>1. Over \subseteq PlanStatus
    BY DEF Over, PlanStatus
  <2>2. \A p \in PlanTasks : (IF plan[p] \in Over \/ execOf[p] = NoExec THEN plan[p]
          ELSE IF PlanOf(swept[execOf[p]]) \in Over THEN PlanOf(swept[execOf[p]])
          ELSE plan[p]) \in PlanStatus
    BY <1>2, <2>1
  <2> QED
    BY <1>1, <2>2 DEF ReconciledPlan
<1>7. slice' \in [Slices -> PlanStatus] /\ milestone' \in PlanStatus
  <2>1. slice' \in [Slices -> PlanStatus]
    BY <1>1, <1>2 DEF PlanStatus
  <2> QED
    BY <1>1, <1>2, <2>1 DEF PlanStatus
<1>8. TypeOK'
  BY <1>1, <1>5, <1>6, <1>7 DEF RInv, TypeOK
<1>9. Rows'
  <2>1. Numbered'
    BY <1>4, NoRowMade
  <2>2. Grows
    BY <1>1, <1>4 DEF Grows
  <2>3. ASSUME NEW e \in Execs
        PROVE  RowFits(e)'
    <3>1. RowFits(e) /\ pend[e] \in Nat /\ live[e] \in Nat
      BY BoundsAssumption DEF RInv, TypeOK, Rows
    <3>2. Chains(e)' <= MaxChains
      BY <1>1, <3>1, BoundsAssumption DEF RowFits, Chains
    <3>3. row'[e] = "absent" => Chains(e)' = 0
      BY <1>1, <1>4, <3>1 DEF RowFits, Chains
    <3> QED
      BY <1>1, <1>4, <3>1, <3>2, <3>3 DEF RowFits
  <2> QED
    BY <1>1, <2>1, <2>2, <2>3, RowsKept
<1> QED
  BY <1>8, <1>9 DEF RInv

-----------------------------------------------------------------------------
LEMMA RInvInit == Init => RInv
<1> SUFFICES ASSUME Init
             PROVE  RInv
  OBVIOUS
<1>1. ex \in [Executions -> Execution]
  BY IdleType DEF Init
<1>2. <<>> \in Seq(Job) /\ 0 \in 0..MaxChains /\ MaxExecs \in Nat /\ MaxChains \in Nat
  BY BoundsAssumption
<1>3. TypeOK
  BY <1>1, <1>2 DEF Init, TypeOK, PlanStatus, RowStatus, LiveRow
<1>4. Numbered
  <2>1. Made = {} /\ 1..0 = {} /\ 0 \in 0..MaxExecs
    BY <1>2 DEF Init, Made
  <2> QED
    BY <2>1 DEF Numbered
<1>5. \A e \in Execs : RowFits(e)
  BY <1>2 DEF Init, RowFits, Chains
<1>6. \A p \in PlanTasks : FileFits(p)
  BY DEF Init, FileFits
<1>7. DOMAIN imports = {} /\ \A x \in Executions : ex[x].waits = {}
  BY DEF Init, Idle
<1>8. cache = {}
  BY DEF Init
<1> QED
  BY <1>3, <1>4, <1>5, <1>6, <1>7, <1>8 DEF RInv, Rows

LEMMA RInvStep == RInv /\ [Next]_vars => RInv'
<1> SUFFICES ASSUME RInv, [Next]_vars
             PROVE  RInv'
  OBVIOUS
<1>1. CASE BeginExecution
  BY <1>1, LaunchStep DEF Executions
<1>2. CASE TurnEnds \/ StartAutoExecution \/ StopAutoExecution
  BY <1>2, QuietStep DEF Executions
<1>3. CASE SyncPlan
  BY <1>3, SyncStep
<1>4. CASE RepointPlan
  BY <1>4, RepointStep
<1>5. ASSUME NEW x \in Executions, Advance(x)
      PROVE  RInv'
  BY <1>5, LaunchStep, QuietStep DEF Advance
<1>6. ASSUME NEW x \in Executions, NEW e \in Execs, StaleCheck(x, e)
      PROVE  RInv'
  BY <1>6, QuietStep
<1>7. ASSUME NEW e \in Execs, TaskExecutorStep(e) \/ Ask(e) \/ Cancel(e) \/ Answer(e)
      PROVE  RInv'
  BY <1>7, SessionStep, RetryStep, ResumeStep DEF TaskExecutorStep, SessionSettles
<1>8. ASSUME NEW e \in Execs, Rerun(e)
      PROVE  RInv'
  BY <1>8, RerunStep
<1>9. CASE RerunFailed
  BY <1>9, RerunFailedStep
<1>10. CASE Crash
  BY <1>10, CrashStep
<1>11. CASE Boot
  BY <1>11, BootStep
<1>12. CASE UNCHANGED vars
  <2>1. UNCHANGED <<milestone, slice, plan, execOf, row, owner, retried, pend, live, deferred, imports,
                    cache, active, ex, starting, called, daemon>>
    BY <1>12 DEF vars, planVars, rowVars, teVars, axVars, loopVars
  <2>2. TypeOK'
    BY <2>1 DEF RInv, TypeOK
  <2>3. Rows'
    BY <2>1, RowsUntouched, RowsKept
  <2> QED
    BY <2>2, <2>3 DEF RInv
<1> QED
  BY <1>1, <1>2, <1>3, <1>4, <1>5, <1>6, <1>7, <1>8, <1>9, <1>10, <1>11, <1>12 DEF Next, UserStep

(* RInv is inductive: what files, rows, promises and jobs name is there.    *)
THEOREM RowsFit == Spec => []RInv
  BY RInvInit, RInvStep, PTL DEF Spec

(* Every reachable state is well typed, for every plan: no execution counts *)
(* more waves than computeWaves returns, no promise waits for a row outside *)
(* the table, and no row is called more often than is counted.              *)
THEOREM TypeCorrect == Spec => []TypeOK
<1>1. RInv => TypeOK
  BY DEF RInv
<1> QED
  BY RowsFit, <1>1, PTL

(* The daemon comes up by a boot only.                                      *)
LEMMA OnlyBootBoots ==
  ASSUME [Next]_vars, ~daemon, daemon'
  PROVE  Boot
  BY DEF Next, BeginExecution, TurnEnds, SyncPlan, RepointPlan, Advance, SliceStartsWave,
         SliceFinishes, MilestoneStartsWave, MilestoneFinishes, StaleCheck, TaskExecutorStep,
         StartSession, FailToStart, SessionSettles, SessionSucceeds, SessionAborts,
         SessionIsRetried, SessionParks, SessionEnds, RunDeferred, Resume, Ask, UserStep,
         StartAutoExecution, StopAutoExecution, RerunFailed, Rerun, Cancel, Answer, Crash,
         InTurn, Serving, Drained, InLoop, vars, axVars, loopVars

(* A boot repairs the plan (BootRepairs), whatever state the crash left the *)
(* files and the rows in: reconcilePlanStatuses runs after                  *)
(* cancelOrphanedExecutionTasks, on rows that it has swept.                 *)
THEOREM BootsRepair == Spec => BootRepairs
<1>1. ASSUME RInv, [Next]_vars, ~daemon, daemon'
      PROVE  /\ \A p \in PlanTasks : execOf[p] # NoExec /\ plan'[p] \notin Over =>
                  row'[execOf[p]] \in LiveRow
             /\ \A e \in Execs : row'[e] \in LiveRow => \E p \in PlanTasks : execOf[p] = e
             /\ \A s \in Slices : AnyIs(plan', s, "failed") => slice'[s] = "failed"
  <2> DEFINE swept == [e \in Execs |-> IF e \in Orphans THEN "cancelled" ELSE row[e]]
  <2>1. /\ plan' = ReconciledPlan(swept)
        /\ slice' = [s \in Slices |-> IF AllOver(plan', s) THEN "completed"
                                      ELSE IF AnyIs(plan', s, "failed") THEN "failed" ELSE slice[s]]
        /\ \A e \in Execs : row'[e] = IF e \in Orphans THEN "cancelled"
                                      ELSE IF row[e] \in {"queued", "running"} THEN "queued" ELSE row[e]
    BY <1>1, OnlyBootBoots, BootFacts
  <2>2. ASSUME NEW p \in PlanTasks, execOf[p] # NoExec, plan'[p] \notin Over
        PROVE  row'[execOf[p]] \in LiveRow
    <3> DEFINE e == execOf[p]
    <3>1. e \in Execs /\ row[e] \in RowStatus /\ row[e] # "absent"
      BY <1>1, <2>2 DEF RInv, TypeOK, Rows, FileFits
    <3>2. e \notin Orphans
      BY DEF Orphans
    <3>3. swept[e] = row[e]
      BY <3>1, <3>2
    <3> HIDE DEF swept
    <3>4. PlanOf(row[e]) \notin Over
      BY <2>1, <2>2, <3>3 DEF ReconciledPlan
    <3>5. row[e] \in LiveRow
      BY <3>1, <3>4 DEF PlanOf, Over, RowStatus, LiveRow
    <3> QED
      BY <2>1, <3>1, <3>2, <3>5 DEF LiveRow
  <2>3. ASSUME NEW e \in Execs, row'[e] \in LiveRow
        PROVE  \E p \in PlanTasks : execOf[p] = e
    <3>1. e \notin Orphans
      BY <2>1, <2>3 DEF LiveRow
    <3>2. row[e] \in LiveRow
      BY <2>1, <2>3, <3>1 DEF LiveRow
    <3> QED
      BY <3>1, <3>2 DEF Orphans
  <2>4. \A s \in Slices : AnyIs(plan', s, "failed") => slice'[s] = "failed"
    <3>1. \A s \in Slices : AnyIs(plan', s, "failed") => ~AllOver(plan', s)
      BY DEF AnyIs, AllOver
    <3> QED
      BY <2>1, <3>1
  <2> QED
    BY <2>2, <2>3, <2>4
<1> QED
  BY <1>1, RowsFit, PTL DEF Spec, BootRepairs

-----------------------------------------------------------------------------
(* The attempts at a plan task.  The rest is about a plan that nobody        *)
(* reworks while it runs: no row is handed to execute() again while it is    *)
(* at work, the user reruns no single row (rerun-failed is fine), and        *)
(* cancels a row only while it has no session.                               *)
Undisturbed == MaxChains = 1 /\ Reruns = {} /\ ~CancelsLate

Ended == {"done", "failed", "cancelled"}
Current(e) == execOf[owner[e]] = e
Awaited(e) == \E x \in Executions : e \in ex[x].waits

(* While the handler is on its way to startAutoExecution no job is due, and *)
(* a daemon that is down has nothing in memory.                             *)
Quiet ==
  /\ starting => imports = <<>>
  /\ ~daemon => /\ imports = <<>> /\ cache = {} /\ ~starting /\ called = {}
                /\ \A e \in Execs : Chains(e) = 0
  /\ \A x \in Executions : ~ex[x].open => ex[x].waits = {} /\ ex[x].opened = {}
(* A row at work is live: a row that has ended stays as it is.              *)
AtWork == \A e \in Execs : Chains(e) > 0 => row[e] \in LiveRow
(* What is awaited is the current attempt at a plan task that is not over,  *)
(* in a slice that is waited for.                                           *)
Waits ==
  \A x \in Executions : \A e \in ex[x].waits :
    Current(e) /\ plan[owner[e]] \notin Over /\ SliceOf[owner[e]] \in ex[x].opened
(* The cache is right about live rows.                                      *)
Cached == \A e \in cache : row[e] \in LiveRow => Current(e)
(* The rows a handler called are unknown to the cache until they have ended. *)
Calls ==
  /\ \A e \in called : row[e] \in LiveRow => e \notin cache
  /\ called # {} => \A i \in DOMAIN imports : row[imports[i].exec] \in Ended
(* A job finds the plan task of its row only while the row is current: the  *)
(* plan moves on from a row that ended only when a slice is due, and then   *)
(* what is left of its jobs is behind the promise that waits for it.        *)
JobStands(i) ==
  LET e == imports[i].exec IN
  /\ e \in cache => Current(e)
  /\ i >= 2 => row[e] \in Ended
  /\ (e \in cache \/ imports[i].kind = "repoint") /\ plan[owner[e]] \notin Over =>
       Awaited(e) \/ (~AdvanceDue /\ imports[1].exec = e)
Jobs == \A i \in DOMAIN imports : JobStands(i)
(* A repoint comes directly behind the sync that settles the failed row.    *)
RepointStands(i) ==
  LET e == imports[i].exec IN
  /\ Current(e) /\ row[e] \in {"failed", "cancelled"}
  /\ \/ i = 2 /\ imports[1] = Sync(e)
     \/ i = 1 /\ plan[owner[e]] \in Over
Repoints == \A i \in DOMAIN imports : imports[i].kind = "repoint" => RepointStands(i)
(* A live row is current, or about to be.                                   *)
LiveStands(e) ==
  Current(e) \/ \E i \in DOMAIN imports : imports[i].kind = "repoint" /\ imports[i].to = e
LiveIsCurrent == daemon => \A e \in Execs : row[e] \in LiveRow => LiveStands(e)
(* A plan task that is over says what its row says.                         *)
Written == \A p \in PlanTasks : plan[p] \in Over /\ execOf[p] # NoExec => PlanOf(row[execOf[p]]) = plan[p]
(* CompletedMeansCompleted, in every state.                                 *)
Complete ==
  /\ \A s \in Slices : slice[s] = "completed" => AllOver(plan, s)
  /\ milestone = "completed" => AllSlicesOver(slice)

Course == Quiet /\ AtWork /\ Waits /\ Cached /\ Calls /\ Jobs /\ Repoints
          /\ LiveIsCurrent /\ Written /\ Complete
CInv == RInv /\ IInv /\ Course

-----------------------------------------------------------------------------
(* What is where.                                                           *)
LEMMA Types ==
  ASSUME RInv
  PROVE  /\ row \in [Execs -> RowStatus] /\ owner \in [Execs -> PlanTasks \cup {NoTask}]
         /\ plan \in [PlanTasks -> PlanStatus] /\ slice \in [Slices -> PlanStatus]
         /\ execOf \in [PlanTasks -> Execs \cup {NoExec}] /\ NoExec \notin Execs
         /\ imports \in Seq(Job) /\ cache \subseteq Execs /\ called \subseteq Execs
         /\ \A x \in Executions : ex[x].waits \subseteq Execs /\ ex[x].opened \subseteq Slices
         /\ \A i \in DOMAIN imports : imports[i].exec \in Execs /\ row[imports[i].exec] # "absent"
         /\ \A e \in Execs : row[e] # "absent" => owner[e] \in PlanTasks
         /\ \A e \in Execs : row[e] \in LiveRow \/ row[e] \in Ended \/ row[e] = "absent"
         /\ LiveRow \cap Ended = {} /\ "absent" \notin LiveRow \cup Ended
         /\ \A p \in PlanTasks : execOf[p] # NoExec => execOf[p] \in Execs /\ row[execOf[p]] # "absent" /\ owner[execOf[p]] = p
         /\ \A x \in Executions : \A e \in ex[x].waits : e \in Execs /\ row[e] # "absent" /\ owner[e] \in PlanTasks
<1>1. /\ row \in [Execs -> RowStatus] /\ owner \in [Execs -> PlanTasks \cup {NoTask}]
      /\ plan \in [PlanTasks -> PlanStatus] /\ slice \in [Slices -> PlanStatus]
      /\ execOf \in [PlanTasks -> Execs \cup {NoExec}]
      /\ imports \in Seq(Job) /\ cache \subseteq Execs /\ called \subseteq Execs
  BY DEF RInv, TypeOK
<1>2. NoExec \notin Execs
  BY BoundsAssumption DEF NoExec, Execs
<1>3. \A x \in Executions : ex[x].waits \subseteq Execs /\ ex[x].opened \subseteq Slices
  BY DEF RInv, TypeOK, Execution
<1>4. \A i \in DOMAIN imports : imports[i].exec \in Execs /\ row[imports[i].exec] # "absent"
  <2> SUFFICES ASSUME NEW i \in DOMAIN imports
               PROVE  imports[i].exec \in Execs /\ row[imports[i].exec] # "absent"
    OBVIOUS
  <2>1. imports[i] \in Job
    BY <1>1
  <2>2. imports[i].exec \in Execs
    BY <2>1 DEF Job
  <2>3. JobFits(imports[i])
    BY DEF RInv, Rows
  <2> QED
    BY <2>2, <2>3 DEF JobFits
<1>5. \A e \in Execs : row[e] # "absent" => owner[e] \in PlanTasks
  BY DEF RInv, Rows, RowFits
<1>6. /\ \A e \in Execs : row[e] \in LiveRow \/ row[e] \in Ended \/ row[e] = "absent"
      /\ LiveRow \cap Ended = {} /\ "absent" \notin LiveRow \cup Ended
  BY <1>1 DEF RowStatus, LiveRow, Ended
<1>7. \A p \in PlanTasks : execOf[p] # NoExec => execOf[p] \in Execs /\ row[execOf[p]] # "absent" /\ owner[execOf[p]] = p
  BY <1>1 DEF RInv, Rows, FileFits
<1>8. \A x \in Executions : \A e \in ex[x].waits : row[e] # "absent"
  BY DEF RInv, Rows
<1> QED
  BY <1>1, <1>2, <1>3, <1>4, <1>5, <1>6, <1>7, <1>8

(* When a request is served no job is left, and every live row is current.  *)
LEMMA ServedState ==
  ASSUME CInv, Serving
  PROVE  /\ imports = <<>> /\ DOMAIN imports = {} /\ daemon /\ ~starting /\ called = {} /\ ~AdvanceDue
         /\ \A e \in Execs : row[e] \in LiveRow => Current(e)
<1>1. imports = <<>> /\ daemon /\ ~starting /\ called = {} /\ ~AdvanceDue
  BY DEF Serving, Drained, InLoop
<1>2. DOMAIN imports = {}
  BY <1>1
<1> QED
  BY <1>1, <1>2 DEF CInv, Course, LiveIsCurrent, LiveStands

(* Whether a continuation is due depends on the promises only.              *)
LEMMA DueAsBefore ==
  ASSUME RInv, ex' = ex, \A e \in Execs : row[e] # "absent" => owner'[e] = owner[e]
  PROVE  (AdvanceDue' <=> AdvanceDue) /\ \A e : Awaited(e)' <=> Awaited(e)
<1>1. \A x \in Executions : \A e \in ex[x].waits : owner'[e] = owner[e]
  BY Types
<1>2. \A x \in Executions : \A s : WaitsOf(x, s)' = WaitsOf(x, s)
  BY <1>1 DEF WaitsOf
<1>3. \A x \in Executions : \A s : SliceDue(x, s)' <=> SliceDue(x, s)
  BY <1>2 DEF SliceDue
<1> QED
  BY <1>3 DEF AdvanceDue, Awaited

(* A row is one of its plan task's attempts; a current one is the file's.   *)
LEMMA CurrentIsUnique ==
  ASSUME RInv, NEW d \in Execs, NEW e \in Execs, Current(d), Current(e), owner[d] = owner[e]
  PROVE  d = e
  BY DEF Current

-----------------------------------------------------------------------------
(* The steps of one row: a live row goes on or ends, and may leave a job.   *)
LEMMA LiveRowSteps ==
  ASSUME CInv, RInv', NEW e \in Execs, row[e] \in LiveRow, daemon,
         UNCHANGED <<milestone, slice, plan, execOf, owner, cache, active, ex, starting, called, daemon>>,
         \A d \in Execs : d # e => row'[d] = row[d],
         AtWork',
         \/ imports' = imports
         \/ imports' = Append(imports, Sync(e)) /\ InTurn(e)
            /\ (row'[e] \in Ended \/ (imports = <<>> /\ called = {}))
  PROVE  Course'
<1>1. /\ imports \in Seq(Job) /\ NoExec \notin Execs
      /\ execOf \in [PlanTasks -> Execs \cup {NoExec}]
      /\ \A i \in DOMAIN imports : imports[i].exec \in Execs /\ row[imports[i].exec] # "absent"
      /\ LiveRow \cap Ended = {} /\ row[e] \notin Ended /\ row[e] # "absent"
      /\ cache \subseteq Execs /\ called \subseteq Execs
  BY Types DEF CInv
<1>2. /\ \A d \in Execs : row[d] \in Ended => row'[d] = row[d]
      /\ \A d \in Execs : row'[d] \in LiveRow => row[d] \in LiveRow
  BY <1>1
<1>3. DOMAIN imports = 1..Len(imports) /\ Len(imports) \in Nat
  BY <1>1
<1>4. /\ \A i \in DOMAIN imports' : (i \in DOMAIN imports /\ imports'[i] = imports[i])
                                    \/ (i = Len(imports) + 1 /\ imports'[i] = Sync(e) /\ imports' # imports)
      /\ \A i \in DOMAIN imports : i \in DOMAIN imports' /\ imports'[i] = imports[i]
  <2>1. CASE imports' = imports
    BY <2>1
  <2>2. CASE imports' = Append(imports, Sync(e))
    <3>1. /\ Len(imports') = Len(imports) + 1
          /\ \A i \in 1..Len(imports) : imports'[i] = imports[i]
          /\ imports'[Len(imports) + 1] = Sync(e)
      BY <1>1, <2>2
    <3>2. DOMAIN imports' = 1..(Len(imports) + 1)
      BY <1>1, <2>2, <3>1
    <3>3. imports' # imports
      BY <1>3, <3>1
    <3> QED
      BY <1>3, <3>1, <3>2, <3>3
  <2> QED
    BY <2>1, <2>2
<1>5. \A i \in DOMAIN imports : 1 \in DOMAIN imports /\ imports'[1] = imports[1]
  BY <1>3, <1>4
<1>6. (AdvanceDue' <=> AdvanceDue) /\ \A d : Awaited(d)' <=> Awaited(d)
  BY DueAsBefore DEF CInv
<1>7. Sync(e).exec = e /\ Sync(e).kind = "sync"
  BY DEF Sync
<1>8. Quiet'
  <2>1. starting => imports' = imports
    BY DEF InTurn, InLoop
  <2> QED
    BY <2>1 DEF CInv, Course, Quiet
<1>9. Waits'
  BY DEF CInv, Course, Waits, Current
<1>10. Cached'
  BY <1>1, <1>2 DEF CInv, Course, Cached, Current
<1>11. Calls'
  <2>1. \A d \in called' : row'[d] \in LiveRow => d \notin cache'
    BY <1>1, <1>2 DEF CInv, Course, Calls
  <2>2. ASSUME called' # {}, NEW i \in DOMAIN imports'
        PROVE  row'[imports'[i].exec] \in Ended
    <3>1. CASE i \in DOMAIN imports /\ imports'[i] = imports[i]
      BY <1>1, <1>2, <2>2, <3>1 DEF CInv, Course, Calls
    <3>2. CASE imports'[i] = Sync(e) /\ imports' # imports
      BY <1>7, <2>2, <3>2
    <3> QED
      BY <1>4, <3>1, <3>2
  <2> QED
    BY <2>1, <2>2 DEF Calls
<1>12. Jobs'
  <2> SUFFICES ASSUME NEW i \in DOMAIN imports'
               PROVE  JobStands(i)'
    BY DEF Jobs
  <2>1. CASE i \in DOMAIN imports /\ imports'[i] = imports[i]
    <3>1. JobStands(i)
      BY <2>1 DEF CInv, Course, Jobs
    <3> QED
      BY <1>1, <1>2, <1>5, <1>6, <2>1, <3>1 DEF JobStands, Current
  <2>2. CASE i = Len(imports) + 1 /\ imports'[i] = Sync(e) /\ imports' # imports
    <3>1. InTurn(e) /\ (row'[e] \in Ended \/ (imports = <<>> /\ called = {}))
      BY <2>2
    <3>2. e \in cache => Current(e)
      BY DEF CInv, Course, Cached
    <3>3. i >= 2 => row'[e] \in Ended
      BY <1>1, <2>2, <3>1
    <3>4. ASSUME e \in cache, plan[owner[e]] \notin Over
          PROVE  Awaited(e) \/ (~AdvanceDue /\ imports'[1].exec = e)
      <4>1. CASE Serving
        <5>1. imports = <<>> /\ ~AdvanceDue
          BY <4>1, ServedState
        <5>2. i = 1
          BY <2>2, <5>1
        <5> QED
          BY <1>7, <2>2, <5>1, <5>2
      <4>2. CASE e \in called
        BY <3>4, <4>2 DEF CInv, Course, Calls
      <4>3. CASE \E x \in Executions : e \in ex[x].waits
        BY <4>3 DEF Awaited
      <4> QED
        BY <3>1, <4>1, <4>2, <4>3 DEF InTurn
    <3> QED
      BY <1>6, <1>7, <2>2, <3>2, <3>3, <3>4 DEF JobStands, Current
  <2> QED
    BY <1>4, <2>1, <2>2
<1>13. Repoints'
  <2> SUFFICES ASSUME NEW i \in DOMAIN imports', imports'[i].kind = "repoint"
               PROVE  RepointStands(i)'
    BY DEF Repoints
  <2>1. i \in DOMAIN imports /\ imports'[i] = imports[i]
    BY <1>4, <1>7
  <2>2. RepointStands(i)
    BY <2>1 DEF CInv, Course, Repoints
  <2>3. row'[imports[i].exec] = row[imports[i].exec]
    BY <1>1, <1>2, <2>1, <2>2 DEF RepointStands, Ended
  <2> QED
    BY <1>5, <2>1, <2>2, <2>3 DEF RepointStands, Current, Sync
<1>14. LiveIsCurrent'
  <2> SUFFICES ASSUME NEW d \in Execs, row'[d] \in LiveRow
               PROVE  LiveStands(d)'
    BY DEF LiveIsCurrent
  <2>1. LiveStands(d)
    BY <1>2 DEF CInv, Course, LiveIsCurrent
  <2> QED
    BY <1>4, <2>1 DEF LiveStands, Current
<1>15. Written'
  <2> SUFFICES ASSUME NEW p \in PlanTasks, plan[p] \in Over, execOf[p] # NoExec
               PROVE  PlanOf(row'[execOf[p]]) = plan[p]
    BY DEF Written
  <2>1. PlanOf(row[execOf[p]]) = plan[p] /\ execOf[p] \in Execs
    BY <1>1 DEF CInv, Course, Written
  <2>2. row[execOf[p]] \in Ended
    BY <2>1 DEF PlanOf, Over, Ended
  <2> QED
    BY <1>2, <2>1, <2>2
<1>16. Complete'
  BY DEF CInv, Course, Complete, AllOver, AllSlicesOver
<1> QED
  BY <1>8, <1>9, <1>10, <1>11, <1>12, <1>13, <1>14, <1>15, <1>16 DEF Course

(* Under one call per row, a row at work is at work once.                   *)
LEMMA OneCall ==
  ASSUME CInv, MaxChains = 1
  PROVE  \A e \in Execs :
           /\ pend[e] \in Nat /\ live[e] \in Nat /\ Chains(e) \in {0, 1}
           /\ pend[e] > 0 => live[e] = 0 /\ e \notin deferred /\ pend[e] = 1
           /\ live[e] > 0 => pend[e] = 0 /\ e \notin deferred /\ live[e] = 1
           /\ e \in deferred => pend[e] = 0 /\ live[e] = 0
           /\ pend[e] > 0 \/ live[e] > 0 \/ e \in deferred => row[e] \in LiveRow
<1> SUFFICES ASSUME NEW e \in Execs
             PROVE  /\ pend[e] \in Nat /\ live[e] \in Nat /\ Chains(e) \in {0, 1}
                    /\ pend[e] > 0 => live[e] = 0 /\ e \notin deferred /\ pend[e] = 1
                    /\ live[e] > 0 => pend[e] = 0 /\ e \notin deferred /\ live[e] = 1
                    /\ e \in deferred => pend[e] = 0 /\ live[e] = 0
                    /\ pend[e] > 0 \/ live[e] > 0 \/ e \in deferred => row[e] \in LiveRow
  OBVIOUS
<1>1. pend[e] \in Nat /\ live[e] \in Nat /\ Chains(e) <= 1
  BY DEF CInv, RInv, TypeOK, Rows, RowFits
<1>2. Chains(e) > 0 => row[e] \in LiveRow
  BY DEF CInv, Course, AtWork
<1> QED
  BY <1>1, <1>2 DEF Chains

(* The task executor, the questions and the cancel of a row.                *)
LEMMA RowCourse ==
  ASSUME Undisturbed, CInv, RInv', NEW e \in Execs,
         \/ StartSession(e) \/ FailToStart(e) \/ SessionSucceeds(e) \/ SessionAborts(e)
         \/ SessionParks(e) \/ RunDeferred(e) \/ Resume(e) \/ Ask(e) \/ Answer(e) \/ Cancel(e)
  PROVE  Course'
<1> DEFINE Kept == UNCHANGED <<milestone, slice, plan, execOf, owner, cache, active, ex,
                               starting, called, daemon>>
           Others == \A d \in Execs : d # e =>
                       /\ row'[d] = row[d] /\ pend'[d] = pend[d] /\ live'[d] = live[d]
                       /\ d \in deferred' <=> d \in deferred
           Busy == pend'[e] > 0 \/ live'[e] > 0 \/ e \in deferred'
           Job1 == \/ imports' = imports
                   \/ imports' = Append(imports, Sync(e)) /\ InTurn(e)
                      /\ (row'[e] \in Ended \/ (imports = <<>> /\ called = {}))
           Goal == /\ Kept /\ Others /\ daemon /\ row[e] \in LiveRow
                   /\ (Busy => row'[e] \in LiveRow) /\ Job1
<1>1. /\ row \in [Execs -> RowStatus] /\ pend \in [Execs -> 0..1] /\ live \in [Execs -> 0..1]
      /\ deferred \subseteq Execs /\ MaxChains = 1 /\ ~CancelsLate
  BY DEF Undisturbed, CInv, RInv, TypeOK
<1>2. /\ pend[e] \in Nat /\ live[e] \in Nat
      /\ pend[e] > 0 => live[e] = 0 /\ e \notin deferred /\ pend[e] = 1
      /\ live[e] > 0 => pend[e] = 0 /\ e \notin deferred /\ live[e] = 1
      /\ e \in deferred => pend[e] = 0 /\ live[e] = 0
      /\ pend[e] > 0 \/ live[e] > 0 \/ e \in deferred => row[e] \in LiveRow
  BY <1>1, OneCall
<1>3. /\ Serving => InTurn(e) /\ imports = <<>> /\ called = {} /\ daemon
      /\ InTurn(e) => daemon
  BY DEF Serving, Drained, InLoop, InTurn
<1>4. Goal
  <2> USE DEF LiveRow, Ended
  <2>1. CASE StartSession(e)
    <3>1. Kept /\ imports' = imports /\ deferred' = deferred /\ row' = [row EXCEPT ![e] = "running"]
          /\ pend' = [pend EXCEPT ![e] = @ - 1] /\ live' = [live EXCEPT ![e] = @ + 1]
          /\ pend[e] > 0 /\ InTurn(e)
      BY <2>1 DEF StartSession, planVars, axVars, loopVars
    <3> QED
      BY <1>1, <1>2, <1>3, <3>1
  <2>2. CASE FailToStart(e)
    <3>1. Kept /\ imports' = Append(imports, Sync(e)) /\ deferred' = deferred /\ live' = live
          /\ row' = [row EXCEPT ![e] = "failed"] /\ pend' = [pend EXCEPT ![e] = @ - 1]
          /\ pend[e] > 0 /\ InTurn(e)
      BY <2>2 DEF FailToStart, planVars, axVars, loopVars
    <3>2. pend'[e] = 0 /\ live'[e] = 0 /\ e \notin deferred' /\ row'[e] = "failed" /\ row[e] \in LiveRow
      BY <1>1, <1>2, <3>1
    <3> QED
      BY <1>1, <1>3, <3>1, <3>2
  <2>3. CASE SessionSucceeds(e) \/ SessionAborts(e) \/ SessionParks(e)
    <3>1. Kept /\ deferred' = deferred /\ pend' = pend /\ live' = [live EXCEPT ![e] = @ - 1]
          /\ live[e] > 0 /\ Serving
      BY <2>3 DEF SessionSucceeds, SessionAborts, SessionParks, SessionEnds, planVars, axVars, loopVars
    <3>2. pend'[e] = 0 /\ live'[e] = 0 /\ e \notin deferred' /\ row[e] \in LiveRow /\ row[e] # "cancelled"
      BY <1>1, <1>2, <3>1
    <3>3. \E st \in {"done", "failed", "rate_limited"} : row' = [row EXCEPT ![e] = st]
      BY <2>3, <3>2 DEF SessionSucceeds, SessionAborts, SessionParks, Keeping
    <3>4. imports' = Append(imports, Sync(e))
      BY <2>3, <3>2 DEF SessionSucceeds, SessionAborts, SessionParks
    <3> QED
      BY <1>1, <1>3, <3>1, <3>2, <3>3, <3>4
  <2>4. CASE RunDeferred(e)
    <3>1. Kept /\ imports' = imports /\ row' = row /\ live' = live /\ Serving /\ e \in deferred
          /\ deferred' = deferred \ {e} /\ pend' = [pend EXCEPT ![e] = @ + 1]
      BY <2>4 DEF RunDeferred, planVars, rowVars, axVars, loopVars
    <3> QED
      BY <1>1, <1>2, <1>3, <3>1
  <2>5. CASE Ask(e)
    <3>1. Kept /\ imports' = imports /\ live' = live /\ pend' = pend /\ deferred' = deferred
          /\ Serving /\ row' = [row EXCEPT ![e] = "waiting_for_input"] /\ row[e] = "running"
      BY <2>5 DEF Ask, planVars, teVars, axVars, loopVars
    <3> QED
      BY <1>1, <1>3, <3>1
  <2>6. CASE Resume(e) \/ Answer(e)
    <3>1. Kept /\ imports' = imports /\ live' = live /\ deferred' = deferred
          /\ Serving /\ row[e] \in {"rate_limited", "waiting_for_input"}
          /\ \E st \in {"running", "queued"} : row' = [row EXCEPT ![e] = st]
          /\ (pend' = pend \/ Dispatch({e}))
      BY <2>6 DEF Resume, Answer, planVars, axVars, loopVars
    <3>2. \A d \in Execs : d # e => pend'[d] = pend[d]
      BY <3>1 DEF Dispatch
    <3> QED
      BY <1>1, <1>3, <3>1, <3>2
  <2>7. CASE Cancel(e)
    <3>1. Kept /\ imports' = imports /\ live' = live /\ deferred' = deferred
          /\ Serving /\ row[e] \in LiveRow /\ row' = [row EXCEPT ![e] = "cancelled"]
          /\ pend' = [pend EXCEPT ![e] = 0] /\ (live[e] > 0 \/ e \in deferred => CancelsLate)
      BY <2>7 DEF Cancel, planVars, axVars, loopVars
    <3>2. ~(live[e] > 0) /\ e \notin deferred
      BY <1>1, <3>1
    <3> QED
      BY <1>1, <1>3, <3>1, <3>2
  <2> QED
    BY <2>1, <2>2, <2>3, <2>4, <2>5, <2>6, <2>7
<1> HIDE DEF Kept, Others, Busy, Job1
<1>5. AtWork'
  <2> SUFFICES ASSUME NEW d \in Execs, Chains(d)' > 0
               PROVE  row'[d] \in LiveRow
    BY DEF AtWork
  <2>1. pend'[d] \in Nat /\ live'[d] \in Nat
    BY BoundsAssumption DEF RInv, TypeOK
  <2>2. CASE d = e
    <3>1. Busy
      BY <2>1, <2>2 DEF Chains, Busy
    <3> QED
      BY <1>4, <2>2, <3>1
  <2>3. CASE d # e
    <3>1. Chains(d)' = Chains(d) /\ row'[d] = row[d]
      BY <1>4, <2>3 DEF Others, Chains
    <3> QED
      BY <3>1 DEF CInv, Course, AtWork
  <2> QED
    BY <2>2, <2>3
<1>6. \A d \in Execs : d # e => row'[d] = row[d]
  BY <1>4 DEF Others
<1> QED
  BY <1>4, <1>5, <1>6, LiveRowSteps DEF Kept, Job1

(* An automatic retry: the failed row stays the one the file names until    *)
(* its sync and the repoint have run, one behind the other.                 *)
LEMMA RetryCourse ==
  ASSUME Undisturbed, CInv, RInv', NEW e \in Execs, SessionIsRetried(e)
  PROVE  Course'
<1> DEFINE f == FreshExec
           r == [kind |-> "repoint", exec |-> e, to |-> f]
<1>1. /\ UNCHANGED <<milestone, slice, plan, execOf, pend, cache, active, ex, starting, called, daemon>>
      /\ f \in Execs /\ Serving /\ live[e] > 0 /\ live' = [live EXCEPT ![e] = @ - 1]
      /\ row' = [row EXCEPT ![e] = Keeping(e, "failed"), ![f] = "queued"]
      /\ owner' = [owner EXCEPT ![f] = owner[e]]
      /\ deferred' = deferred \cup {f}
      /\ imports' = imports \o <<Sync(e), r>>
  BY DEF SessionIsRetried, SessionEnds, planVars, axVars, loopVars
<1>2. /\ imports = <<>> /\ daemon /\ ~starting /\ called = {} /\ ~AdvanceDue
      /\ \A d \in Execs : row[d] \in LiveRow => Current(d)
  BY <1>1, ServedState
<1>3. /\ row \in [Execs -> RowStatus] /\ owner \in [Execs -> PlanTasks \cup {NoTask}]
      /\ live \in [Execs -> 0..MaxChains] /\ MaxChains = 1
  BY DEF Undisturbed, CInv, RInv, TypeOK
<1>4. /\ row[e] \in LiveRow /\ live[e] = 1 /\ pend[e] = 0 /\ e \notin deferred
  BY <1>1, <1>3, OneCall
<1>5. row[f] = "absent"
  <2>1. PICK n \in 0..MaxExecs : f = n + 1 /\ \A d \in Execs : row[d] # "absent" <=> d <= n
    BY NextId DEF CInv
  <2>2. ~(f <= n)
    BY <2>1, BoundsAssumption
  <2> QED
    BY <1>1, <2>1, <2>2
<1> HIDE DEF f
<1>6. /\ e # f /\ row'[e] = "failed" /\ row'[f] = "queued" /\ owner'[f] = owner[e]
      /\ \A d \in Execs : d # f => owner'[d] = owner[d]
      /\ \A d \in Execs : d # f /\ d # e => row'[d] = row[d]
  BY <1>1, <1>3, <1>4, <1>5 DEF Keeping, LiveRow
<1>7. /\ DOMAIN imports' = {1, 2} /\ imports'[1] = Sync(e) /\ imports'[2] = r
      /\ Sync(e).exec = e /\ r.exec = e /\ r.kind = "repoint" /\ r.to = f /\ Sync(e).kind = "sync"
  BY <1>1, <1>2 DEF Sync
<1> HIDE DEF r
<1>8. \A d \in Execs : row[d] # "absent" => d # f /\ owner'[d] = owner[d]
  BY <1>5, <1>6
<1>9. (AdvanceDue' <=> AdvanceDue) /\ \A d : Awaited(d)' <=> Awaited(d)
  BY <1>1, <1>8, DueAsBefore DEF CInv
<1>10. Current(e) /\ Current(e)'
  BY <1>1, <1>2, <1>4, <1>6 DEF Current
<1>11. \A d \in Execs : row[d] # "absent" /\ row'[d] \in LiveRow => row[d] \in LiveRow
  BY <1>4, <1>8, <1>6
<1>12. Quiet'
  BY <1>1, <1>2 DEF CInv, Course, Quiet
<1>13. AtWork'
  <2> SUFFICES ASSUME NEW d \in Execs, Chains(d)' > 0
               PROVE  row'[d] \in LiveRow
    BY DEF AtWork
  <2>1. d # e
    BY <1>1, <1>3, <1>4, <1>6 DEF Chains
  <2>2. CASE d = f
    BY <1>6, <2>2 DEF LiveRow
  <2>3. CASE d # f
    <3>1. Chains(d)' = Chains(d)
      BY <1>1, <1>3, <2>1, <2>3 DEF Chains
    <3> QED
      BY <1>6, <2>1, <2>3, <3>1 DEF CInv, Course, AtWork
  <2> QED
    BY <2>2, <2>3
<1>14. Waits'
  <2>1. \A x \in Executions : \A d \in ex[x].waits : owner'[d] = owner[d]
    BY <1>8, Types DEF CInv
  <2> QED
    BY <1>1, <2>1 DEF CInv, Course, Waits, Current
<1>15. Cached'
  <2>1. \A d \in cache : d \in Execs /\ row[d] # "absent"
    BY DEF CInv, RInv, TypeOK, Rows
  <2> QED
    BY <1>1, <1>8, <1>11, <2>1 DEF CInv, Course, Cached, Current
<1>16. Calls'
  BY <1>1, <1>2 DEF Calls
<1>17. Jobs'
  <2>1. JobStands(1)'
    BY <1>1, <1>2, <1>7, <1>9, <1>10 DEF JobStands
  <2>2. JobStands(2)'
    BY <1>1, <1>2, <1>6, <1>7, <1>9, <1>10 DEF JobStands, Ended
  <2> QED
    BY <1>7, <2>1, <2>2 DEF Jobs
<1>18. Repoints'
  <2>1. RepointStands(2)'
    BY <1>6, <1>7, <1>10 DEF RepointStands, Sync
  <2> QED
    BY <1>7, <2>1 DEF Repoints
<1>19. LiveIsCurrent'
  <2> SUFFICES ASSUME NEW d \in Execs, row'[d] \in LiveRow
               PROVE  LiveStands(d)'
    BY DEF LiveIsCurrent
  <2>1. CASE d = f
    BY <1>7, <2>1 DEF LiveStands
  <2>2. CASE d # f
    <3>1. row[d] \in LiveRow
      BY <1>4, <1>6, <2>2
    <3> QED
      BY <1>1, <1>2, <1>6, <2>2, <3>1 DEF LiveStands, Current
  <2> QED
    BY <2>1, <2>2
<1>20. Written'
  <2> SUFFICES ASSUME NEW p \in PlanTasks, plan[p] \in Over, execOf[p] # NoExec
               PROVE  PlanOf(row'[execOf[p]]) = plan[p]
    BY <1>1 DEF Written
  <2>1. PlanOf(row[execOf[p]]) = plan[p]
    BY DEF CInv, Course, Written
  <2>2. execOf[p] \in Execs /\ row[execOf[p]] # "absent"
    BY Types DEF CInv
  <2>3. execOf[p] # e
    BY <1>4, <2>1 DEF PlanOf, Over, LiveRow
  <2> QED
    BY <1>6, <1>8, <2>1, <2>2, <2>3
<1>21. Complete'
  BY <1>1 DEF CInv, Course, Complete, AllOver, AllSlicesOver
<1> QED
  BY <1>12, <1>13, <1>14, <1>15, <1>16, <1>17, <1>18, <1>19, <1>20, <1>21 DEF Course

-----------------------------------------------------------------------------
(* Launching plan tasks none of which is awaited.  If jobs are left, a      *)
(* continuation was due, so what they are about is awaited or over, and it  *)
(* is not launched.                                                         *)
LEMMA LaunchCourse ==
  ASSUME CInv, RInv', NEW P \in SUBSET PlanTasks, Launch(P), daemon,
         UNCHANGED <<live, deferred, imports, cache, called, daemon>>,
         \A e \in Execs : Awaited(e) => owner[e] \notin P,
         AdvanceDue \/ imports = <<>>,
         Quiet',
         \A x \in Executions : /\ ex[x].waits \subseteq ex'[x].waits
                               /\ ex'[x].waits \subseteq ex[x].waits \cup Launched(P)
                               /\ \A e \in ex'[x].waits : SliceOf[owner'[e]] \in ex'[x].opened,
         \A s \in Slices : slice'[s] = "completed" <=> slice[s] = "completed",
         milestone' = "completed" => milestone = "completed"
  PROVE  Course'
<1> DEFINE t == Targets(P)
           E == Launched(P)
<1>1. /\ t \in [Todo(P) -> Execs] /\ E \in SUBSET Execs /\ E = {t[p] : p \in Todo(P)}
      /\ \A p \in Todo(P) : /\ Reusable(p) => t[p] = execOf[p]
                            /\ plan'[p] = "active" /\ execOf'[p] = t[p]
                            /\ row'[t[p]] \in LiveRow /\ owner'[t[p]] = p
      /\ \A p \in PlanTasks \ Todo(P) : plan'[p] = plan[p] /\ execOf'[p] = execOf[p]
      /\ \A e \in Execs : row[e] # "absent" => row'[e] = row[e] /\ owner'[e] = owner[e]
      /\ \A e \in Execs : row[e] = "absent" /\ e \notin E => row'[e] = "absent"
      /\ \A e \in Execs : pend'[e] = pend[e] \/ e \in E
  BY LaunchFacts DEF CInv
<1> HIDE DEF t, E
<1>2. \A p \in Todo(P) : p \in P /\ p \in PlanTasks /\ plan[p] \notin Over
  BY DEF Todo
<1>3. \A e \in E : row'[e] \in LiveRow /\ owner'[e] \in PlanTasks /\ Current(e)' /\ plan'[owner'[e]] = "active"
  BY <1>1, <1>2 DEF Current
<1>4. /\ NoExec \notin Execs /\ cache \subseteq Execs
      /\ \A i \in DOMAIN imports : imports[i].exec \in Execs /\ row[imports[i].exec] # "absent"
      /\ \A e \in Execs : row[e] # "absent" => owner[e] \in PlanTasks
      /\ LiveRow \cap Ended = {} /\ "absent" \notin LiveRow \cup Ended
      /\ \A p \in PlanTasks : execOf[p] # NoExec => execOf[p] \in Execs /\ row[execOf[p]] # "absent"
      /\ \A x \in Executions : \A e \in ex[x].waits : e \in Execs /\ row[e] # "absent"
  BY Types DEF CInv
<1>5. \A e \in cache : e \in Execs /\ row[e] # "absent"
  BY <1>4 DEF CInv, RInv, Rows
<1>6. \A x \in Executions : \A e \in ex[x].waits : owner[e] \notin Todo(P)
  BY <1>2, <1>4 DEF Awaited
  \* a live current row stays current
<1>7. ASSUME NEW e \in Execs, row[e] \in LiveRow, Current(e)
      PROVE  Current(e)'
  <2>1. owner'[e] = owner[e] /\ owner[e] \in PlanTasks
    BY <1>1, <1>4, <1>7
  <2>2. CASE owner[e] \in Todo(P)
    <3>1. Reusable(owner[e])
      BY <1>4, <1>7 DEF Reusable, Current
    <3> QED
      BY <1>1, <1>7, <2>1, <2>2, <3>1 DEF Current
  <2>3. CASE owner[e] \notin Todo(P)
    BY <1>1, <1>7, <2>1, <2>3 DEF Current
  <2> QED
    BY <2>2, <2>3
<1>8. AtWork'
  <2> SUFFICES ASSUME NEW e \in Execs, Chains(e)' > 0
               PROVE  row'[e] \in LiveRow
    BY DEF AtWork
  <2>1. CASE e \in E
    BY <1>3, <2>1
  <2>2. CASE e \notin E
    <3>1. Chains(e)' = Chains(e)
      BY <1>1, <2>2 DEF Chains
    <3>2. row[e] \in LiveRow
      BY <2>2, <3>1 DEF CInv, Course, AtWork
    <3> QED
      BY <1>1, <1>4, <3>2
  <2> QED
    BY <2>1, <2>2
<1>9. Waits'
  <2> SUFFICES ASSUME NEW x \in Executions, NEW e \in ex'[x].waits
               PROVE  Current(e)' /\ plan'[owner'[e]] \notin Over
    BY DEF Waits
  <2>1. CASE e \in E
    BY <1>3, <2>1 DEF Over
  <2>2. CASE e \in ex[x].waits
    <3>1. Current(e) /\ plan[owner[e]] \notin Over
      BY <2>2 DEF CInv, Course, Waits
    <3>2. owner'[e] = owner[e] /\ owner[e] \in PlanTasks \ Todo(P)
      BY <1>1, <1>4, <1>6, <2>2
    <3> QED
      BY <1>1, <3>1, <3>2 DEF Current
  <2> QED
    BY <2>1, <2>2 DEF E
<1>10. Cached'
  BY <1>1, <1>5, <1>7 DEF CInv, Course, Cached
<1>11. Calls'
  <2>1. \A e \in called : row'[e] \in LiveRow => e \notin cache
    BY <1>1, <1>5 DEF CInv, Course, Calls
  <2> QED
    BY <1>1, <1>4, <2>1 DEF CInv, Course, Calls
  \* what a job is about is not launched
<1>12. ASSUME NEW i \in DOMAIN imports,
              imports[i].exec \in cache \/ imports[i].kind = "repoint"
       PROVE  owner[imports[i].exec] \in PlanTasks \ Todo(P)
  <2> DEFINE e == imports[i].exec
  <2>1. e \in Execs /\ owner[e] \in PlanTasks
    BY <1>4
  <2>2. AdvanceDue
    BY <1>12
  <2>3. JobStands(i)
    BY DEF CInv, Course, Jobs
  <2>4. plan[owner[e]] \notin Over => Awaited(e)
    BY <1>12, <2>2, <2>3 DEF JobStands
  <2> QED
    BY <1>2, <2>1, <2>4
<1>13. Jobs'
  <2> SUFFICES ASSUME NEW i \in DOMAIN imports
               PROVE  JobStands(i)'
    BY DEF Jobs
  <2> DEFINE e == imports[i].exec
  <2>1. JobStands(i) /\ e \in Execs /\ row[e] # "absent" /\ row'[e] = row[e] /\ owner'[e] = owner[e]
    BY <1>1, <1>4 DEF CInv, Course, Jobs
  <2>2. e \in cache => Current(e)'
    BY <1>1, <1>12, <2>1 DEF JobStands, Current
  <2>3. ASSUME e \in cache \/ imports[i].kind = "repoint", plan'[owner'[e]] \notin Over
        PROVE  Awaited(e)'
    <3>1. plan[owner[e]] \notin Over
      BY <1>1, <1>12, <2>1, <2>3
    <3>2. Awaited(e)
      BY <2>1, <2>3, <3>1 DEF JobStands
    <3> QED
      BY <3>2 DEF Awaited
  <2> HIDE DEF e
  <2> QED
    BY <2>1, <2>2, <2>3 DEF JobStands, e
<1>14. Repoints'
  <2> SUFFICES ASSUME NEW i \in DOMAIN imports, imports[i].kind = "repoint"
               PROVE  RepointStands(i)'
    BY DEF Repoints
  <2> DEFINE e == imports[i].exec
  <2>1. RepointStands(i) /\ e \in Execs /\ row'[e] = row[e] /\ owner'[e] = owner[e]
    BY <1>1, <1>4 DEF CInv, Course, Repoints
  <2>2. owner[e] \in PlanTasks \ Todo(P)
    BY <1>12
  <2> QED
    BY <1>1, <2>1, <2>2 DEF RepointStands, Current, Sync
<1>15. LiveIsCurrent'
  <2> SUFFICES ASSUME NEW e \in Execs, row'[e] \in LiveRow
               PROVE  LiveStands(e)'
    BY DEF LiveIsCurrent
  <2>1. CASE e \in E
    BY <1>3, <2>1 DEF LiveStands
  <2>2. CASE e \notin E
    <3>1. row[e] \in LiveRow
      BY <1>1, <1>4, <2>2
    <3>2. LiveStands(e)
      BY <3>1 DEF CInv, Course, LiveIsCurrent
    <3> QED
      BY <1>7, <3>1, <3>2 DEF LiveStands
  <2> QED
    BY <2>1, <2>2
<1>16. Written'
  <2> SUFFICES ASSUME NEW p \in PlanTasks, plan'[p] \in Over, execOf'[p] # NoExec
               PROVE  PlanOf(row'[execOf'[p]]) = plan'[p]
    BY DEF Written
  <2>1. p \notin Todo(P)
    BY <1>1 DEF Over
  <2>2. plan'[p] = plan[p] /\ execOf'[p] = execOf[p]
    BY <1>1, <2>1
  <2>3. row'[execOf[p]] = row[execOf[p]]
    BY <1>1, <1>4, <2>2
  <2> QED
    BY <2>2, <2>3 DEF CInv, Course, Written
<1>17. Complete'
  <2>1. \A p \in PlanTasks : plan[p] = "completed" => plan'[p] = "completed"
    BY <1>1, <1>2 DEF Over
  <2> QED
    BY <2>1 DEF CInv, Course, Complete, AllOver, AllSlicesOver, TasksOf
<1> QED
  BY <1>8, <1>9, <1>10, <1>11, <1>13, <1>14, <1>15, <1>16, <1>17 DEF Course

(* An execution that runs is the only one with promises.                    *)
LEMMA OnlyOneWaits ==
  ASSUME CInv, NEW x \in Executions, ex[x].running, ex[x].open
  PROVE  \A y \in Executions : y # x => ex[y].waits = {}
<1> SUFFICES ASSUME NEW y \in Executions, y # x, ex[y].waits # {}
             PROVE  FALSE
  OBVIOUS
<1>1. ex[y].open
  BY DEF CInv, Course, Quiet
<1>2. active = y
  BY <1>1 DEF CInv, IInv, StopsInv, Stale
<1> QED
  BY <1>2 DEF CInv, IInv, StopsInv, Stale

(* A wave of slices is opened by an execution without promises, when no     *)
(* other has any.                                                           *)
LEMMA OpenWaveCourse ==
  ASSUME CInv, RInv', NEW x \in Executions, NEW n \in 1..Len(SliceWaves), OpenWave(x, n),
         UNCHANGED <<live, deferred, imports, cache, called, daemon>>, daemon,
         \A y \in Executions : ex[y].waits = {},
         AdvanceDue \/ imports = <<>>, starting' => imports = <<>>,
         milestone' = "completed" => milestone = "completed"
  PROVE  Course'
<1> DEFINE S == {s \in SliceWaves[n] : slice[s] \notin Over}
           P == FirstTasks(n)
           pos == [s \in Slices |-> IF s \in {u \in S : TasksOf(u) # {}} THEN 1 ELSE 0]
           record == [open |-> TRUE, running |-> TRUE, wave |-> n, opened |-> S,
                      pos |-> pos, waits |-> Launched(P)]
<1>1. /\ slice' = [s \in Slices |-> IF s \in S THEN "active" ELSE slice[s]]
      /\ Launch(P)
      /\ ex' = [ex EXCEPT ![x] = record]
  BY DEF OpenWave, FirstTasks
<1>2. /\ P \in SUBSET PlanTasks
      /\ \A p \in P : SliceOf[p] \in S
  BY FirstTasksType
<1>3. \A e \in Launched(P) : owner'[e] \in P
  <2>1. LET t == Targets(P) IN Launched(P) = {t[p] : p \in Todo(P)} /\ \A p \in Todo(P) : owner'[t[p]] = p
    BY <1>1, <1>2, LaunchFacts DEF CInv
  <2> QED
    BY <2>1 DEF Todo
<1>4. /\ DOMAIN ex = Executions /\ slice \in [Slices -> PlanStatus]
  BY DEF CInv, RInv, TypeOK
<1> HIDE DEF pos
<1>5. /\ record.open = TRUE /\ record.opened = S /\ record.waits = Launched(P)
  OBVIOUS
<1> HIDE DEF record, P
<1>6. ex'[x] = record /\ \A y \in Executions : y # x => ex'[y] = ex[y]
  BY <1>1, <1>4
<1>7. Quiet'
  BY <1>5, <1>6 DEF CInv, Course, Quiet
<1>8. \A y \in Executions : /\ ex[y].waits \subseteq ex'[y].waits
                            /\ ex'[y].waits \subseteq ex[y].waits \cup Launched(P)
                            /\ \A e \in ex'[y].waits : SliceOf[owner'[e]] \in ex'[y].opened
  BY <1>2, <1>3, <1>5, <1>6
<1>9. \A s \in Slices : slice'[s] = "completed" <=> slice[s] = "completed"
  BY <1>1, <1>4 DEF Over
<1>10. \A e \in Execs : Awaited(e) => owner[e] \notin P
  BY DEF Awaited
<1> HIDE DEF S
<1> QED
  BY <1>1, <1>2, <1>7, <1>8, <1>9, <1>10, LaunchCourse

(* An execution whose slices have all settled has no promises.              *)
LEMMA AllSettled ==
  ASSUME CInv, NEW x \in Executions, ex[x].opened = {}
  PROVE  ex[x].waits = {}
  BY DEF CInv, Course, Waits

LEMMA BeginCourse ==
  ASSUME CInv, RInv', BeginExecution
  PROVE  Course'
<1>1. starting /\ daemon /\ imports = <<>> /\ starting' = FALSE
  BY DEF BeginExecution, CInv, Course, Quiet
<1>2. CASE active # 0
  <2>1. UNCHANGED <<milestone, slice, plan, execOf, row, owner, pend, active, ex, live, deferred,
                    imports, cache, called, daemon>>
    BY <1>2 DEF BeginExecution, planVars
  <2>2. Quiet'
    BY <1>1, <2>1 DEF CInv, Course, Quiet
  <2>3. DOMAIN imports = {} /\ DOMAIN imports' = {}
    BY <1>1, <2>1
  <2>4. AtWork' /\ Waits' /\ Cached' /\ Calls' /\ Written' /\ Complete'
    BY <2>1 DEF CInv, Course, AtWork, Chains, Waits, Current, Cached, Calls, Written, Complete,
                AllOver, AllSlicesOver
  <2>5. LiveIsCurrent'
    BY <2>1 DEF CInv, Course, LiveIsCurrent, LiveStands, Current
  <2> QED
    BY <2>2, <2>3, <2>4, <2>5 DEF Course, Jobs, Repoints
<1>3. CASE active = 0
  <2>1. Unused \in Executions
    BY <1>3 DEF BeginExecution, Unused
  <2>2. /\ UNCHANGED <<live, deferred, imports, cache, called, daemon>>
        /\ milestone' = "active" /\ OpenWave(Unused, 1)
    BY <1>3 DEF BeginExecution
  <2>3. 1 \in 1..Len(SliceWaves)
    BY SliceWavesType
  <2>4. \A y \in Executions : ex[y].waits = {}
    <3>1. \A y \in Executions : ~ex[y].open
      BY <1>1, <1>3 DEF CInv, IInv, StopsInv, Stale, Executions
    <3> QED
      BY <3>1 DEF CInv, Course, Quiet
  <2> QED
    BY <1>1, <2>1, <2>2, <2>3, <2>4, OpenWaveCourse
<1> QED
  BY <1>2, <1>3

LEMMA MilestoneCourse ==
  ASSUME CInv, RInv', NEW x \in Executions, MilestoneStartsWave(x)
  PROVE  Course'
<1>1. /\ UNCHANGED <<milestone, live, deferred, imports, cache, starting, called, daemon>>
      /\ OpenWave(x, ex[x].wave + 1) /\ ex[x].wave < Len(SliceWaves)
      /\ daemon /\ ~starting /\ ex[x].open /\ ex[x].running /\ ex[x].opened = {}
  BY DEF MilestoneStartsWave, InLoop, loopVars
<1>2. ex[x].wave + 1 \in 1..Len(SliceWaves)
  <2>1. ex[x].wave \in Nat /\ Len(SliceWaves) \in Nat
    BY SliceWavesType DEF CInv, RInv, TypeOK, Execution
  <2> QED
    BY <1>1, <2>1
<1>3. AdvanceDue
  BY <1>1 DEF AdvanceDue
<1>4. \A y \in Executions : ex[y].waits = {}
  BY <1>1, AllSettled, OnlyOneWaits
<1> QED
  BY <1>1, <1>2, <1>3, <1>4, OpenWaveCourse

LEMMA SliceCourse ==
  ASSUME CInv, RInv', NEW x \in Executions, NEW s \in Slices, SliceStartsWave(x, s)
  PROVE  Course'
<1> DEFINE n == ex[x].pos[s] + 1
           P == TaskWaves(s)[n]
<1>1. /\ UNCHANGED <<milestone, slice, live, deferred, imports, cache, starting, called, daemon>>
      /\ Launch(P) /\ n <= Len(TaskWaves(s)) /\ ex[x].running /\ daemon /\ ~starting
      /\ s \in ex[x].opened /\ WaitsOf(x, s) = {}
      /\ ex' = [ex EXCEPT ![x].pos[s] = n, ![x].waits = @ \cup Launched(P)]
  BY DEF SliceStartsWave, loopVars, InLoop, SliceDue
<1>2. P \in SUBSET TasksOf(s)
  <2>1. /\ TaskWaves(s) \in Seq(SUBSET TasksOf(s)) /\ Cardinality(PlanTasks) \in Nat
        /\ Len(TaskWaves(s)) \in 0..Cardinality(PlanTasks)
    BY TaskWavesType
  <2>2. ex[x].pos[s] \in Nat
    BY DEF CInv, RInv, TypeOK, Execution
  <2>3. n \in 1..Len(TaskWaves(s))
    BY <1>1, <2>1, <2>2
  <2> QED
    BY <2>1, <2>3
<1> HIDE DEF n, P
<1>3. P \in SUBSET PlanTasks /\ \A p \in P : SliceOf[p] = s
  BY <1>2 DEF TasksOf
<1>4. ex[x].open
  BY <1>1 DEF CInv, Course, Quiet
<1>5. AdvanceDue
  BY <1>1, <1>4 DEF AdvanceDue, SliceDue
<1>6. ASSUME NEW e \in Execs, Awaited(e)
      PROVE  owner[e] \notin P
  <2>1. e \in ex[x].waits
    BY <1>1, <1>4, <1>6, OnlyOneWaits DEF Awaited
  <2> QED
    BY <1>1, <1>3, <2>1 DEF WaitsOf
<1>7. \A e \in Launched(P) : owner'[e] \in P
  <2>1. LET t == Targets(P) IN Launched(P) = {t[p] : p \in Todo(P)} /\ \A p \in Todo(P) : owner'[t[p]] = p
    BY <1>1, <1>3, LaunchFacts DEF CInv
  <2> QED
    BY <2>1 DEF Todo
<1>8. /\ ex'[x].open = ex[x].open /\ ex'[x].opened = ex[x].opened
      /\ ex'[x].waits = ex[x].waits \cup Launched(P)
      /\ \A y \in Executions : y # x => ex'[y] = ex[y]
  <2>1. ex \in [Executions -> Execution]
    BY DEF CInv, RInv, TypeOK
  <2> QED
    BY <1>1, <2>1 DEF Execution
<1>9. Quiet'
  BY <1>1, <1>4, <1>8 DEF CInv, Course, Quiet
<1>10. \A y \in Executions : \A e \in ex[y].waits :
          owner'[e] = owner[e] /\ SliceOf[owner[e]] \in ex[y].opened
  <2>1. \A y \in Executions : \A e \in ex[y].waits : e \in Execs /\ row[e] # "absent"
    BY Types DEF CInv
  <2>2. \A e \in Execs : row[e] # "absent" => owner'[e] = owner[e]
    BY <1>1, <1>3, LaunchFacts DEF CInv
  <2> QED
    BY <2>1, <2>2 DEF CInv, Course, Waits
<1>11. \A y \in Executions : /\ ex[y].waits \subseteq ex'[y].waits
                             /\ ex'[y].waits \subseteq ex[y].waits \cup Launched(P)
                             /\ \A e \in ex'[y].waits : SliceOf[owner'[e]] \in ex'[y].opened
  <2> SUFFICES ASSUME NEW y \in Executions
               PROVE  /\ ex[y].waits \subseteq ex'[y].waits
                      /\ ex'[y].waits \subseteq ex[y].waits \cup Launched(P)
                      /\ \A e \in ex'[y].waits : SliceOf[owner'[e]] \in ex'[y].opened
    OBVIOUS
  <2>1. CASE y # x
    BY <1>8, <1>10, <2>1
  <2>2. CASE y = x
    <3>1. \A e \in Launched(P) : SliceOf[owner'[e]] \in ex[x].opened
      BY <1>1, <1>3, <1>7
    <3>2. \A e \in ex[x].waits : SliceOf[owner'[e]] \in ex[x].opened
      BY <1>10
    <3>3. \A e \in ex'[x].waits : SliceOf[owner'[e]] \in ex'[x].opened
      BY <1>8, <3>1, <3>2
    <3> QED
      BY <1>8, <2>2, <3>3
  <2> QED
    BY <2>1, <2>2
<1> QED
  BY <1>1, <1>3, <1>5, <1>6, <1>9, <1>11, LaunchCourse

-----------------------------------------------------------------------------
(* Steps that leave rows, files' ids and jobs alone: continuations that     *)
(* launch nothing, the ticker, the end of a turn, start and stop.           *)
LEMMA SettlingCourse ==
  ASSUME CInv,
         UNCHANGED <<execOf, row, owner, pend, live, deferred, imports, cache, daemon>>, daemon,
         called' \subseteq called, Quiet', Waits', Written', Complete',
         \/ imports = <<>>
         \/ AdvanceDue /\ plan' = plan /\ \A e : Awaited(e) => Awaited(e)'
  PROVE  Course'
<1>1. AtWork' /\ Cached' /\ Calls'
  BY DEF CInv, Course, AtWork, Chains, Cached, Calls, Current
<1>2. LiveIsCurrent'
  BY DEF CInv, Course, LiveIsCurrent, LiveStands, Current
<1>3. Jobs' /\ Repoints'
  <2>1. CASE imports = <<>>
    BY <2>1 DEF Jobs, Repoints
  <2>2. CASE AdvanceDue /\ plan' = plan /\ \A e : Awaited(e) => Awaited(e)'
    <3>1. \A i \in DOMAIN imports : JobStands(i)'
      BY <2>2 DEF CInv, Course, Jobs, JobStands, Current
    <3>2. \A i \in DOMAIN imports : imports[i].kind = "repoint" => RepointStands(i)'
      BY <2>2 DEF CInv, Course, Repoints, RepointStands, Current, Sync
    <3> QED
      BY <3>1, <3>2 DEF Jobs, Repoints
  <2> QED
    BY <2>1, <2>2
<1> QED
  BY <1>1, <1>2, <1>3 DEF Course

(* The end of a slice, of a milestone, of a turn; a start and a stop.       *)
LEMMA SliceEndCourse ==
  ASSUME CInv, NEW x \in Executions, NEW s \in Slices, SliceFinishes(x, s)
  PROVE  Course'
<1>1. /\ UNCHANGED <<milestone, plan, execOf, row, owner, pend, live, deferred, imports, cache,
                     active, starting, called, daemon>>
      /\ daemon /\ ~starting /\ s \in ex[x].opened /\ WaitsOf(x, s) = {}
      /\ slice' = [slice EXCEPT ![s] = IF AllOver(plan, s) THEN "completed"
                                       ELSE IF AnyIs(plan, s, "failed") THEN "failed"
                                       ELSE "active"]
      /\ ex' = [ex EXCEPT ![x].opened = @ \ {s}]
  BY DEF SliceFinishes, rowVars, teVars, loopVars, InLoop, SliceDue
<1>2. /\ ex'[x].open = ex[x].open /\ ex'[x].opened = ex[x].opened \ {s}
      /\ ex'[x].waits = ex[x].waits
      /\ \A y \in Executions : y # x => ex'[y] = ex[y]
  <2>1. ex \in [Executions -> Execution]
    BY DEF CInv, RInv, TypeOK
  <2> QED
    BY <1>1, <2>1 DEF Execution
<1>3. Quiet'
  BY <1>1, <1>2 DEF CInv, Course, Quiet
<1>4. Waits'
  <2> SUFFICES ASSUME NEW y \in Executions, NEW e \in ex'[y].waits
               PROVE  Current(e)' /\ plan'[owner'[e]] \notin Over /\ SliceOf[owner'[e]] \in ex'[y].opened
    BY DEF Waits
  <2>1. e \in ex[y].waits
    BY <1>2
  <2>2. Current(e) /\ plan[owner[e]] \notin Over /\ SliceOf[owner[e]] \in ex[y].opened
    BY <2>1 DEF CInv, Course, Waits
  <2>3. y = x => SliceOf[owner[e]] # s
    BY <1>1, <2>1 DEF WaitsOf
  <2> QED
    BY <1>1, <1>2, <2>2, <2>3 DEF Current
<1>5. Written'
  BY <1>1 DEF CInv, Course, Written
<1>6. Complete'
  <2>1. \A u \in Slices : slice'[u] = "completed" => AllOver(plan, u)
    BY <1>1 DEF CInv, Course, Complete, RInv, TypeOK
  <2>2. AllSlicesOver(slice) => AllSlicesOver(slice')
    BY <1>1 DEF CInv, Course, Complete, RInv, TypeOK, AllSlicesOver
  <2> QED
    BY <1>1, <2>1, <2>2 DEF CInv, Course, Complete, AllOver, AllSlicesOver
<1>7. AdvanceDue
  <2>1. ex[x].open
    BY <1>1 DEF CInv, Course, Quiet
  <2> QED
    BY <1>1, <2>1 DEF AdvanceDue, SliceDue
<1>8. \A e : Awaited(e) => Awaited(e)'
  BY <1>2 DEF Awaited
<1> QED
  BY <1>1, <1>3, <1>4, <1>5, <1>6, <1>7, <1>8, SettlingCourse

LEMMA FinishCourse ==
  ASSUME CInv, NEW x \in Executions, MilestoneFinishes(x)
  PROVE  Course'
<1>1. /\ UNCHANGED <<slice, plan, execOf, row, owner, pend, live, deferred, imports, cache,
                     starting, called, daemon>>
      /\ daemon /\ ~starting /\ ex[x].open /\ ex[x].opened = {}
      /\ milestone' = IF AllSlicesOver(slice) THEN "completed" ELSE "active"
      /\ ex' = [ex EXCEPT ![x] = Idle]
  BY DEF MilestoneFinishes, rowVars, teVars, loopVars, InLoop
<1>2. ex'[x] = Idle /\ \A y \in Executions : y # x => ex'[y] = ex[y]
  BY <1>1 DEF CInv, RInv, TypeOK
<1>3. ex[x].waits = {} /\ Idle.waits = {} /\ Idle.opened = {}
  BY <1>1, AllSettled DEF Idle
<1>4. Quiet'
  BY <1>1, <1>2, <1>3 DEF CInv, Course, Quiet
<1>5. Waits'
  BY <1>1, <1>2, <1>3 DEF CInv, Course, Waits, Current
<1>6. Written' /\ Complete'
  BY <1>1 DEF CInv, Course, Written, Complete, AllOver, AllSlicesOver
<1>7. AdvanceDue /\ \A e : Awaited(e) => Awaited(e)'
  BY <1>1, <1>2, <1>3 DEF AdvanceDue, Awaited
<1> QED
  BY <1>1, <1>4, <1>5, <1>6, <1>7, SettlingCourse

LEMMA RequestCourse ==
  ASSUME CInv, TurnEnds \/ StartAutoExecution \/ StopAutoExecution
  PROVE  Course'
<1>1. /\ UNCHANGED <<milestone, slice, plan, execOf, row, owner, pend, live, deferred, imports,
                     cache, daemon>>
      /\ daemon /\ imports = <<>> /\ called' \subseteq called
  BY DEF TurnEnds, StartAutoExecution, StopAutoExecution, Serving, Drained, InLoop,
         planVars, rowVars, teVars, loopVars
<1>2. \A y \in Executions : /\ ex'[y].open = ex[y].open /\ ex'[y].opened = ex[y].opened
                            /\ ex'[y].waits \subseteq ex[y].waits
  <2>1. CASE TurnEnds \/ StartAutoExecution
    BY <2>1 DEF TurnEnds, StartAutoExecution
  <2>2. CASE StopAutoExecution
    <3>1. ex' = [ex EXCEPT ![active].running = FALSE, ![active].waits = {}]
      BY <2>2 DEF StopAutoExecution
    <3>2. ex \in [Executions -> Execution]
      BY DEF CInv, RInv, TypeOK
    <3> QED
      BY <3>1, <3>2 DEF Execution
  <2> QED
    BY <2>1, <2>2
<1>3. Quiet'
  BY <1>1, <1>2 DEF CInv, Course, Quiet
<1>4. Waits'
  BY <1>1, <1>2 DEF CInv, Course, Waits, Current
<1>5. Written' /\ Complete'
  BY <1>1 DEF CInv, Course, Written, Complete, AllOver, AllSlicesOver
<1> QED
  BY <1>1, <1>3, <1>4, <1>5, SettlingCourse

(* The ticker writes the plan task of the one row it lets go of.            *)
LEMMA TickerCourse ==
  ASSUME CInv, NEW x \in Executions, NEW e \in Execs, StaleCheck(x, e)
  PROVE  Course'
<1> DEFINE p == owner[e]
<1>1. /\ UNCHANGED <<milestone, slice, execOf, row, owner, pend, live, deferred, imports,
                     cache, active, starting, called, daemon>>
      /\ Serving /\ e \in ex[x].waits /\ (~ex[x].running \/ row[e] \notin LiveRow)
      /\ plan' = IF ex[x].running THEN [plan EXCEPT ![p] = PlanOf(row[e])] ELSE plan
      /\ ex' = [ex EXCEPT ![x].waits = @ \ {e}]
  BY DEF StaleCheck, rowVars, teVars, loopVars
<1>2. imports = <<>> /\ daemon
  BY <1>1 DEF Serving, Drained, InLoop
<1>3. /\ \A y \in Executions : /\ ex'[y].open = ex[y].open /\ ex'[y].opened = ex[y].opened
                               /\ ex'[y].waits \subseteq ex[y].waits
      /\ e \notin ex'[x].waits
  <2>1. ex \in [Executions -> Execution]
    BY DEF CInv, RInv, TypeOK
  <2> QED
    BY <1>1, <2>1 DEF Execution
<1>4. /\ p \in PlanTasks /\ row[e] # "absent" /\ Current(e) /\ plan[p] \notin Over
      /\ ex[x].open
  BY <1>1, Types DEF CInv, Course, Waits, Quiet
<1>5. \A q \in PlanTasks : plan'[q] = IF ex[x].running /\ q = p THEN PlanOf(row[e]) ELSE plan[q]
  BY <1>1, <1>4 DEF CInv, RInv, TypeOK
<1> HIDE DEF p
<1>6. Quiet'
  <2>1. \A y \in Executions : ~ex'[y].open => ex'[y].waits = {} /\ ex'[y].opened = {}
    <3>1. \A y \in Executions : ~ex[y].open => ex[y].waits = {} /\ ex[y].opened = {}
      BY DEF CInv, Course, Quiet
    <3> QED
      BY <1>3, <3>1
  <2> QED
    BY <1>1, <1>2, <2>1 DEF Quiet
<1>7. Waits'
  <2> SUFFICES ASSUME NEW y \in Executions, NEW d \in ex'[y].waits
               PROVE  Current(d)' /\ plan'[owner'[d]] \notin Over /\ SliceOf[owner'[d]] \in ex'[y].opened
    BY DEF Waits
  <2>1. d \in ex[y].waits /\ d \in Execs /\ owner[d] \in PlanTasks
    BY <1>3, Types DEF CInv
  <2>2. Current(d) /\ plan[owner[d]] \notin Over /\ SliceOf[owner[d]] \in ex[y].opened
    BY <2>1 DEF CInv, Course, Waits
  <2>3. ASSUME ex[x].running, owner[d] = p
        PROVE  FALSE
    <3>1. d = e
      BY <1>4, <2>1, <2>2, <2>3 DEF Current, p
    <3>2. y = x
      BY <1>4, <2>1, <2>3, OnlyOneWaits
    <3> QED
      BY <1>3, <3>1, <3>2
  <2> QED
    BY <1>1, <1>3, <1>5, <2>1, <2>2, <2>3 DEF Current
<1>8. Written'
  BY <1>1, <1>4, <1>5 DEF CInv, Course, Written, Current, p
<1>9. Complete'
  <2>1. \A u \in Slices : slice[u] = "completed" => p \notin TasksOf(u)
    BY <1>4 DEF CInv, Course, Complete, AllOver, Over
  <2>2. \A u \in Slices : slice[u] = "completed" => AllOver(plan', u)
    BY <1>5, <2>1 DEF CInv, Course, Complete, AllOver, TasksOf
  <2> QED
    BY <1>1, <2>2 DEF CInv, Course, Complete, AllSlicesOver
<1> QED
  BY <1>1, <1>2, <1>6, <1>7, <1>8, <1>9, SettlingCourse

-----------------------------------------------------------------------------
(* The aggregation writes "completed" only where it is true, and nothing    *)
(* completed is taken back as long as no completed plan task is.            *)
LEMMA AggregateCompletes ==
  ASSUME CInv, NEW pl, NEW S, pl \in [PlanTasks -> PlanStatus], Aggregate(pl, S),
         \A q \in PlanTasks : pl[q] # plan[q] => SliceOf[q] \in S /\ plan[q] # "completed"
  PROVE  Complete'
<1>1. /\ plan' = pl /\ \A s \in Slices \ S : slice'[s] = slice[s]
      /\ \A s \in Slices : s \in S => (slice'[s] = "completed" <=> AllOver(pl, s))
      /\ milestone' = IF AllSlicesOver(slice') THEN "completed" ELSE milestone
  BY Aggregates DEF CInv, RInv
<1>2. Complete
  BY DEF CInv, Course
<1>3. \A s \in Slices : AllOver(plan, s) => AllOver(pl, s)
  BY DEF AllOver, TasksOf
<1>4. \A s \in Slices : slice'[s] = "completed" => AllOver(pl, s)
  BY <1>1, <1>2, <1>3 DEF Complete
<1>5. milestone = "completed" => AllSlicesOver(slice')
  BY <1>1, <1>2, <1>3 DEF Complete, AllSlicesOver
<1> QED
  BY <1>1, <1>4, <1>5 DEF Complete

(* What is left when the first job has run.                                 *)
LEMMA JobsLeft ==
  ASSUME imports \in Seq(Job), imports # <<>>, imports' = Tail(imports)
  PROVE  /\ 1 \in DOMAIN imports /\ Head(imports) = imports[1]
         /\ \A i \in DOMAIN imports' : /\ i \in Nat \ {0} /\ i + 1 \in DOMAIN imports
                                       /\ i + 1 # 1 /\ i + 1 >= 2 /\ (i + 1 = 2 => i = 1)
                                       /\ imports'[i] = imports[i + 1]
         /\ \A i \in DOMAIN imports : i # 1 => \E k \in DOMAIN imports' : imports'[k] = imports[i]
<1>1. DOMAIN imports = 1..Len(imports) /\ Len(imports) \in Nat \ {0}
  OBVIOUS
<1>2. DOMAIN imports' = 1..(Len(imports) - 1) /\ \A i \in DOMAIN imports' : imports'[i] = imports[i + 1]
  OBVIOUS
<1>3. \A i \in DOMAIN imports : i # 1 => i - 1 \in DOMAIN imports' /\ imports'[i - 1] = imports[i]
  BY <1>1, <1>2
<1>4. \A i \in DOMAIN imports' : /\ i \in Nat \ {0} /\ i + 1 \in DOMAIN imports
                                  /\ i + 1 # 1 /\ i + 1 >= 2 /\ (i + 1 = 2 => i = 1)
  BY <1>1, <1>2
<1>5. 1 \in DOMAIN imports /\ Head(imports) = imports[1]
  BY <1>1
<1> QED
  BY <1>2, <1>3, <1>4, <1>5

(* syncPlan.  A job that does not find a plan task is about a row the plan  *)
(* has moved on from; one that does is about the current row, and if it has *)
(* ended, its promise settles.                                              *)
LEMMA SyncCourse ==
  ASSUME CInv, SyncPlan
  PROVE  Course'
<1> DEFINE e == Head(imports).exec
           p == owner[e]
           st == PlanOf(row[e])
           found == e \in cache \/ execOf[p] = e
           written == found /\ st # "none"
<1>1. imports \in Seq(Job) /\ imports # <<>> /\ imports' = Tail(imports) /\ Head(imports).kind = "sync"
  BY DEF SyncPlan, CInv, RInv, TypeOK
<1>2. /\ 1 \in DOMAIN imports /\ Head(imports) = imports[1]
      /\ \A i \in DOMAIN imports' : /\ i \in Nat \ {0} /\ i + 1 \in DOMAIN imports
                                    /\ i + 1 # 1 /\ i + 1 >= 2 /\ (i + 1 = 2 => i = 1)
                                    /\ imports'[i] = imports[i + 1]
      /\ \A i \in DOMAIN imports : i # 1 => \E k \in DOMAIN imports' : imports'[k] = imports[i]
  BY <1>1, JobsLeft
<1>3. /\ e \in Execs /\ row[e] # "absent" /\ p \in PlanTasks /\ p # NoTask
      /\ NoExec \notin Execs
  <2>1. e = imports[1].exec
    BY <1>2
  <2> QED
    BY <1>2, <2>1, Types, PlanAssumption DEF CInv
<1>4. /\ Located(e) = IF found THEN p ELSE NoTask
      /\ UNCHANGED <<execOf, row, owner, pend, live, deferred, active, starting, called, daemon>>
      /\ daemon /\ ~starting
      /\ cache' = IF found THEN cache \cup {e} ELSE cache
      /\ ~written => UNCHANGED <<milestone, slice, plan, ex>>
      /\ written => /\ Aggregate([plan EXCEPT ![p] = st], {SliceOf[p]})
                    /\ ex' = IF st \in Over THEN Settled(e) ELSE ex
  <2>1. Located(e) = IF found THEN p ELSE NoTask
    BY <1>3 DEF Located
  <2> HIDE DEF e, p, st, found
  <2>2. found => Located(e) = p /\ Located(e) # NoTask
    BY <1>3, <2>1
  <2>3. ~found => Located(e) = NoTask
    BY <2>1
  <2> QED
    BY <2>1, <2>2, <2>3 DEF SyncPlan, e, st, rowVars, loopVars, InLoop
<1> HIDE DEF e, p, st, found, written
<1>5. found => Current(e)
  <2>1. JobStands(1) /\ imports[1].exec = e
    BY <1>2 DEF CInv, Course, Jobs, e
  <2> QED
    BY <2>1 DEF JobStands, Current, found, p
<1>6. ~found => ~Current(e) /\ e \notin cache
  BY DEF found, Current, p
<1>7. /\ st \in {"completed", "failed", "active", "none"} /\ (st \in Over <=> row[e] \in Ended)
      /\ st # "none" => st \in PlanStatus
  <2>1. row[e] \in RowStatus
    BY <1>3 DEF CInv, RInv, TypeOK
  <2> QED
    BY <1>3, <2>1 DEF st, PlanOf, Over, Ended, RowStatus, LiveRow, PlanStatus
<1>8. ASSUME written
      PROVE  plan[p] \in Over => plan[p] = st
  <2>1. Current(e)
    BY <1>5, <1>8 DEF written
  <2>2. execOf[p] = e /\ execOf[p] # NoExec
    BY <1>3, <2>1 DEF Current, p
  <2> QED
    BY <1>3, <2>2 DEF CInv, Course, Written, st
<1>9. \A q \in PlanTasks : plan'[q] = IF written /\ q = p THEN st ELSE plan[q]
  <2>1. CASE written
    <3>1. plan' = [plan EXCEPT ![p] = st]
      BY <1>4, <2>1 DEF Aggregate
    <3> QED
      BY <2>1, <3>1 DEF CInv, RInv, TypeOK
  <2>2. CASE ~written
    BY <1>4, <2>2
  <2> QED
    BY <2>1, <2>2
<1>10. /\ \A y \in Executions : /\ ex'[y].open = ex[y].open /\ ex'[y].opened = ex[y].opened
                                /\ ex'[y].waits \subseteq ex[y].waits
                                /\ \A d \in ex[y].waits : d # e => d \in ex'[y].waits
       /\ written /\ st \in Over => \A y \in Executions : e \notin ex'[y].waits
  <2>1. ex \in [Executions -> Execution]
    BY DEF CInv, RInv, TypeOK
  <2>2. CASE written /\ st \in Over
    <3>1. ex' = Settled(e)
      BY <1>4, <2>2
    <3> QED
      BY <2>1, <3>1 DEF Settled, Execution
  <2>3. CASE ~(written /\ st \in Over)
    <3>1. ex' = ex
      BY <1>4, <2>3
    <3> QED
      BY <2>3, <3>1
  <2> QED
    BY <2>2, <2>3
<1>11. \A d : d # e /\ Awaited(d) => Awaited(d)'
  BY <1>10 DEF Awaited
  \* another current row is not about p
<1>12. \A d \in Execs : written /\ Current(d) /\ d # e => owner[d] # p
  BY <1>3, <1>5, CurrentIsUnique DEF CInv, written, p
<1>13. Quiet'
  <2>1. \A y \in Executions : ~ex'[y].open => ex'[y].waits = {} /\ ex'[y].opened = {}
    <3>1. \A y \in Executions : ~ex[y].open => ex[y].waits = {} /\ ex[y].opened = {}
      BY DEF CInv, Course, Quiet
    <3> QED
      BY <1>10, <3>1
  <2> QED
    BY <1>4, <2>1 DEF Quiet
<1>14. AtWork'
  BY <1>4 DEF CInv, Course, AtWork, Chains
<1>15. Waits'
  <2> SUFFICES ASSUME NEW y \in Executions, NEW d \in ex'[y].waits
               PROVE  Current(d)' /\ plan'[owner'[d]] \notin Over /\ SliceOf[owner'[d]] \in ex'[y].opened
    BY DEF Waits
  <2>1. d \in ex[y].waits /\ d \in Execs /\ owner[d] \in PlanTasks
    BY <1>10, Types DEF CInv
  <2>2. Current(d) /\ plan[owner[d]] \notin Over /\ SliceOf[owner[d]] \in ex[y].opened
    BY <2>1 DEF CInv, Course, Waits
  <2>3. written /\ owner[d] = p => st \notin Over
    BY <1>10, <1>12, <2>1, <2>2
  <2> QED
    BY <1>4, <1>9, <1>10, <2>1, <2>2, <2>3 DEF Current
<1>16. Cached'
  BY <1>4, <1>5 DEF CInv, Course, Cached, Current
<1>17. Calls'
  <2>1. called' # {} => \A i \in DOMAIN imports' : row'[imports'[i].exec] \in Ended
    BY <1>2, <1>4 DEF CInv, Course, Calls
  <2>2. \A d \in called' : row'[d] \in LiveRow => d \notin cache'
    <3>1. called # {} => row[e] \in Ended
      BY <1>2 DEF CInv, Course, Calls, e
    <3>2. LiveRow \cap Ended = {}
      BY DEF LiveRow, Ended
    <3> QED
      BY <1>4, <3>1, <3>2 DEF CInv, Course, Calls
  <2> QED
    BY <2>1, <2>2 DEF Calls
  \* the job that comes next
<1>18. ASSUME NEW i \in DOMAIN imports'
       PROVE  LET d == imports'[i].exec
              IN /\ JobStands(i + 1) /\ imports[i + 1] = imports'[i]
                 /\ d \in Execs /\ row[d] \in Ended /\ owner[d] \in PlanTasks
                 /\ d \in cache => Current(d)
                 /\ imports'[i].kind = "repoint" =>
                      Current(d) /\ i = 1 /\ d = e /\ row[d] \in {"failed", "cancelled"}
  <2> DEFINE d == imports'[i].exec
  <2>1. JobStands(i + 1) /\ imports[i + 1] = imports'[i] /\ i + 1 >= 2
    BY <1>2 DEF CInv, Course, Jobs
  <2>2. d \in Execs /\ owner[d] \in PlanTasks
    BY <1>2, <2>1, Types DEF CInv
  <2>3. ASSUME imports'[i].kind = "repoint"
        PROVE  Current(d) /\ i = 1 /\ d = e /\ row[d] \in {"failed", "cancelled"}
    <3>1. RepointStands(i + 1)
      BY <1>2, <2>1, <2>3 DEF CInv, Course, Repoints
    <3>2. i + 1 = 2 /\ imports[1] = Sync(d)
      BY <1>2, <2>1, <3>1 DEF RepointStands
    <3>3. d = e
      BY <1>2, <3>2 DEF Sync, e
    <3> QED
      BY <1>2, <2>1, <3>1, <3>2, <3>3 DEF RepointStands
  <2> QED
    BY <2>1, <2>2, <2>3 DEF JobStands
<1>19. Jobs'
  <2> SUFFICES ASSUME NEW i \in DOMAIN imports'
               PROVE  JobStands(i)'
    BY DEF Jobs
  <2>0. imports'[i].exec \in Execs
    BY <1>18
  <2> PICK d \in Execs : d = imports'[i].exec
    BY <2>0
  <2>1. /\ JobStands(i + 1) /\ imports[i + 1] = imports'[i]
        /\ d \in Execs /\ row[d] \in Ended /\ owner[d] \in PlanTasks
        /\ d \in cache => Current(d)
        /\ imports'[i].kind = "repoint" => Current(d) /\ i = 1 /\ d = e
    BY <1>18
  <2>2. d \in cache' => Current(d)
    BY <1>4, <1>5, <2>1
  <2>3. ASSUME d \in cache' \/ imports'[i].kind = "repoint", plan'[owner[d]] \notin Over
        PROVE  Awaited(d)'
    <3>1. Current(d)
      BY <2>1, <2>2, <2>3
    <3>2. found \/ d # e
      BY <1>6, <3>1
    <3>3. d # e
      <4> SUFFICES ASSUME d = e
                   PROVE  FALSE
        OBVIOUS
      <4>1. written /\ st \in Over
        BY <1>7, <2>1, <3>2 DEF written, Over
      <4> QED
        BY <1>9, <2>1, <2>3, <4>1 DEF p
    <3>4. plan[owner[d]] \notin Over
      BY <1>9, <1>12, <2>1, <2>3, <3>1, <3>3
    <3>5. d \in cache \/ imports'[i].kind = "repoint"
      BY <1>4, <2>3, <3>3
    <3>6. imports[1].exec = e
      BY <1>2 DEF e
    <3>7. Awaited(d)
      BY <2>1, <3>3, <3>4, <3>5, <3>6 DEF JobStands
    <3> QED
      BY <1>11, <3>3, <3>7
  <2>4. i >= 2 => row[d] \in Ended
    BY <2>1
  <2> QED
    BY <1>4, <2>1, <2>2, <2>3, <2>4 DEF JobStands, Current
<1>20. Repoints'
  <2> SUFFICES ASSUME NEW i \in DOMAIN imports', imports'[i].kind = "repoint"
               PROVE  RepointStands(i)'
    BY DEF Repoints
  <2>1. /\ imports'[i].exec = e /\ i = 1 /\ Current(e) /\ row[e] \in {"failed", "cancelled"}
    BY <1>18
  <2>2. written /\ st \in Over
    BY <1>6, <1>7, <2>1 DEF written, Ended, Over
  <2>3. plan'[owner[e]] \in Over
    BY <1>3, <1>9, <2>2 DEF p
  <2> QED
    BY <1>4, <2>1, <2>3 DEF RepointStands, Current
<1>21. LiveIsCurrent'
  <2> SUFFICES ASSUME NEW d \in Execs, row'[d] \in LiveRow
               PROVE  LiveStands(d)'
    BY DEF LiveIsCurrent
  <2>1. LiveStands(d)
    BY <1>4 DEF CInv, Course, LiveIsCurrent
  <2>2. CASE Current(d)
    BY <1>4, <2>2 DEF LiveStands, Current
  <2>3. ASSUME NEW i \in DOMAIN imports, imports[i].kind = "repoint", imports[i].to = d
        PROVE  LiveStands(d)'
    <3>1. i # 1
      BY <1>1, <1>2, <2>3
    <3>2. PICK k \in DOMAIN imports' : imports'[k] = imports[i]
      BY <1>2, <3>1
    <3> QED
      BY <2>3, <3>2 DEF LiveStands
  <2> QED
    BY <2>1, <2>2, <2>3 DEF LiveStands
<1>22. Written'
  <2> SUFFICES ASSUME NEW q \in PlanTasks, plan'[q] \in Over, execOf[q] # NoExec
               PROVE  PlanOf(row[execOf[q]]) = plan'[q]
    BY <1>4 DEF Written
  <2>1. CASE written /\ q = p
    <3>1. execOf[q] = e
      BY <1>5, <2>1 DEF written, Current, p
    <3> QED
      BY <1>9, <2>1, <3>1 DEF st
  <2>2. CASE ~(written /\ q = p)
    BY <1>9, <2>2 DEF CInv, Course, Written
  <2> QED
    BY <2>1, <2>2
<1>23. Complete'
  <2>1. CASE ~written
    BY <1>4, <2>1 DEF CInv, Course, Complete, AllOver, AllSlicesOver
  <2>2. CASE written
    <3> DEFINE pl == [plan EXCEPT ![p] = st]
    <3>1. pl \in [PlanTasks -> PlanStatus]
      BY <1>7, <2>2 DEF CInv, RInv, TypeOK, written
    <3>2. \A q \in PlanTasks : pl[q] # plan[q] => SliceOf[q] \in {SliceOf[p]} /\ plan[q] # "completed"
      BY <1>8, <2>2 DEF CInv, RInv, TypeOK, Over
    <3>3. Aggregate(pl, {SliceOf[p]})
      BY <1>4, <2>2
    <3> HIDE DEF pl
    <3> QED
      BY <3>1, <3>2, <3>3, AggregateCompletes
  <2> QED
    BY <2>1, <2>2
<1> QED
  BY <1>13, <1>14, <1>15, <1>16, <1>17, <1>19, <1>20, <1>21, <1>22, <1>23 DEF Course

(* repointPlanTask, behind the sync of the failed row: it finds the plan    *)
(* task failed, and gives it its new row.                                   *)
LEMMA RepointCourse ==
  ASSUME CInv, RepointPlan
  PROVE  Course'
<1> DEFINE e == Head(imports).exec
           f == Head(imports).to
           p == owner[e]
<1>1. /\ imports \in Seq(Job) /\ imports # <<>> /\ imports' = Tail(imports)
      /\ Head(imports).kind = "repoint"
  BY DEF RepointPlan, CInv, RInv, TypeOK
<1>2. /\ 1 \in DOMAIN imports /\ Head(imports) = imports[1]
      /\ \A i \in DOMAIN imports' : /\ i \in Nat \ {0} /\ i + 1 \in DOMAIN imports
                                    /\ i + 1 # 1 /\ i + 1 >= 2 /\ (i + 1 = 2 => i = 1)
                                    /\ imports'[i] = imports[i + 1]
      /\ \A i \in DOMAIN imports : i # 1 => \E k \in DOMAIN imports' : imports'[k] = imports[i]
  BY <1>1, JobsLeft
<1>3. e \in Execs /\ p \in PlanTasks /\ p # NoTask /\ execOf[p] = e /\ Current(e)
      /\ row[e] \in {"failed", "cancelled"} /\ plan[p] \in Over
  <2>1. e = imports[1].exec
    BY <1>2
  <2>2. e \in Execs /\ p \in PlanTasks /\ p # NoTask
    BY <1>2, <2>1, Types, PlanAssumption DEF CInv
  <2>3. RepointStands(1)
    BY <1>1, <1>2 DEF CInv, Course, Repoints
  <2> QED
    BY <2>1, <2>2, <2>3 DEF RepointStands, Current
<1>4. owner[f] = p /\ f \in Execs
  <2>1. JobFits(imports[1]) /\ imports[1] \in Job
    BY <1>1, <1>2 DEF CInv, RInv, Rows
  <2> QED
    BY <1>1, <1>2, <2>1 DEF JobFits, Job
<1>5. /\ UNCHANGED <<row, owner, pend, live, deferred, active, ex, starting, called, daemon>>
      /\ Aggregate([plan EXCEPT ![p] = "active"], {SliceOf[p]})
      /\ execOf' = [execOf EXCEPT ![p] = f] /\ cache' = {} /\ daemon /\ ~starting
  <2>1. Located(e) = p
    BY <1>3 DEF Located
  <2> HIDE DEF e, p, f
  <2>2. Located(e) # NoTask
    BY <1>3, <2>1
  <2> QED
    BY <2>1, <2>2 DEF RepointPlan, e, f, rowVars, loopVars, InLoop
<1> HIDE DEF e, p, f
<1>6. plan[p] = "failed"
  <2>1. execOf[p] # NoExec
    BY <1>3, Types DEF CInv
  <2>2. PlanOf(row[e]) = plan[p]
    BY <1>3, <2>1 DEF CInv, Course, Written
  <2> QED
    BY <1>3, <2>2 DEF PlanOf
<1>7. /\ \A q \in PlanTasks : plan'[q] = IF q = p THEN "active" ELSE plan[q]
      /\ \A q \in PlanTasks : execOf'[q] = IF q = p THEN f ELSE execOf[q]
  BY <1>5 DEF Aggregate, CInv, RInv, TypeOK
<1>8. \A i \in DOMAIN imports' : imports'[i].kind # "repoint"
  <2> SUFFICES ASSUME NEW i \in DOMAIN imports', imports'[i].kind = "repoint"
               PROVE  FALSE
    OBVIOUS
  <2>1. RepointStands(i + 1)
    BY <1>2 DEF CInv, Course, Repoints
  <2>2. i + 1 # 1
    BY <1>2
  <2>3. imports[1] = Sync(imports[i + 1].exec)
    BY <2>1, <2>2 DEF RepointStands
  <2>4. imports[1].kind = "sync"
    BY <2>3 DEF Sync
  <2> QED
    BY <1>1, <1>2, <2>4
<1>9. Quiet' /\ AtWork' /\ Cached'
  BY <1>5 DEF CInv, Course, Quiet, AtWork, Chains, Cached
<1>10. Waits'
  <2> SUFFICES ASSUME NEW y \in Executions, NEW d \in ex[y].waits
               PROVE  Current(d)' /\ plan'[owner[d]] \notin Over /\ SliceOf[owner[d]] \in ex[y].opened
    BY <1>5 DEF Waits
  <2>1. d \in Execs /\ owner[d] \in PlanTasks
    BY Types DEF CInv
  <2>2. Current(d) /\ plan[owner[d]] \notin Over /\ SliceOf[owner[d]] \in ex[y].opened
    BY DEF CInv, Course, Waits
  <2>3. owner[d] # p
    BY <1>3, <2>2
  <2> QED
    BY <1>5, <1>7, <2>1, <2>2, <2>3 DEF Current
<1>11. Calls'
  <2>1. called' # {} => \A i \in DOMAIN imports' : row'[imports'[i].exec] \in Ended
    BY <1>2, <1>5 DEF CInv, Course, Calls
  <2> QED
    BY <1>5, <2>1 DEF Calls
<1>12. Jobs'
  <2> SUFFICES ASSUME NEW i \in DOMAIN imports'
               PROVE  JobStands(i)'
    BY DEF Jobs
  <2>1. JobStands(i + 1) /\ imports[i + 1] = imports'[i] /\ i + 1 >= 2
    BY <1>2 DEF CInv, Course, Jobs
  <2> QED
    BY <1>5, <1>8, <2>1 DEF JobStands
<1>13. Repoints'
  BY <1>8 DEF Repoints
<1>14. LiveIsCurrent'
  <2> SUFFICES ASSUME NEW d \in Execs, row[d] \in LiveRow
               PROVE  LiveStands(d)'
    BY <1>5 DEF LiveIsCurrent
  <2>1. LiveStands(d) /\ owner[d] \in PlanTasks
    BY <1>5, Types DEF CInv, Course, LiveIsCurrent
  <2>2. CASE Current(d)
    <3>1. d # e
      BY <1>3 DEF LiveRow
    <3>2. owner[d] # p
      BY <1>3, <2>2, <3>1 DEF Current
    <3> QED
      BY <1>5, <1>7, <2>1, <2>2, <3>2 DEF LiveStands, Current
  <2>3. ASSUME NEW i \in DOMAIN imports, imports[i].kind = "repoint", imports[i].to = d
        PROVE  LiveStands(d)'
    <3>1. i = 1
      <4> SUFFICES ASSUME i # 1
                   PROVE  FALSE
        OBVIOUS
      <4>1. PICK k \in DOMAIN imports' : imports'[k] = imports[i]
        BY <1>2
      <4> QED
        BY <1>8, <2>3, <4>1
    <3>2. d = f
      BY <1>2, <2>3, <3>1 DEF f
    <3> QED
      BY <1>3, <1>4, <1>5, <1>7, <3>2 DEF LiveStands, Current
  <2> QED
    BY <2>1, <2>2, <2>3 DEF LiveStands
<1>15. Written'
  <2> SUFFICES ASSUME NEW q \in PlanTasks, plan'[q] \in Over, execOf'[q] # NoExec
               PROVE  PlanOf(row[execOf'[q]]) = plan'[q]
    BY <1>5 DEF Written
  <2>1. q # p
    BY <1>7 DEF Over
  <2> QED
    BY <1>7, <2>1 DEF CInv, Course, Written
<1>16. Complete'
  <2> DEFINE pl == [plan EXCEPT ![p] = "active"]
  <2>1. pl \in [PlanTasks -> PlanStatus]
    BY DEF CInv, RInv, TypeOK, PlanStatus
  <2>2. \A q \in PlanTasks : pl[q] # plan[q] => SliceOf[q] \in {SliceOf[p]} /\ plan[q] # "completed"
    BY <1>6 DEF CInv, RInv, TypeOK
  <2>3. Aggregate(pl, {SliceOf[p]})
    BY <1>5
  <2> HIDE DEF pl
  <2> QED
    BY <2>1, <2>2, <2>3, AggregateCompletes
<1> QED
  BY <1>9, <1>10, <1>11, <1>12, <1>13, <1>14, <1>15, <1>16 DEF Course

-----------------------------------------------------------------------------
(* rerun-failed: what it gives a new row has a row that failed.             *)
LEMMA RerunFailedCourse ==
  ASSUME CInv, RerunFailed
  PROVE  Course'
<1> DEFINE id(p) == NewId(Failed, p)
           E == {id(p) : p \in Failed}
<1>1. Serving
  BY DEF RerunFailed
<1>2. /\ imports = <<>> /\ DOMAIN imports = {} /\ daemon /\ ~starting
      /\ \A e \in Execs : row[e] \in LiveRow => Current(e)
  BY <1>1, ServedState
<1>3. /\ E \in SUBSET Execs
      /\ Aggregate([p \in PlanTasks |-> IF p \in Failed THEN "active" ELSE plan[p]],
                   {SliceOf[p] : p \in Failed})
      /\ \A p \in PlanTasks : execOf'[p] = IF p \in Failed THEN id(p) ELSE execOf[p]
      /\ \A p \in Failed : row'[id(p)] = "queued" /\ owner'[id(p)] = p
      /\ \A e \in Execs \ E : row'[e] = row[e] /\ owner'[e] = owner[e]
      /\ \A e \in E : row[e] = "absent"
      /\ \A e \in Execs : pend'[e] = pend[e] \/ e \in E
      /\ cache' = {}
      /\ UNCHANGED <<live, deferred, imports, active, ex, daemon>>
  BY RerunFailedFacts DEF CInv
<1>4. Failed \subseteq PlanTasks /\ \A p \in Failed : plan[p] = "failed" /\ execOf[p] # NoExec
  BY DEF Failed
<1> HIDE DEF id
<1>5. \A e \in E : row'[e] = "queued" /\ Current(e)' /\ owner'[e] \in PlanTasks
  BY <1>3, <1>4 DEF Current
<1>6. \A p \in PlanTasks : plan'[p] = IF p \in Failed THEN "active" ELSE plan[p]
  BY <1>3 DEF Aggregate
<1> HIDE DEF E
<1>7. \A e \in Execs : row[e] # "absent" => row'[e] = row[e] /\ owner'[e] = owner[e] /\ owner[e] \in PlanTasks
  BY <1>3, Types DEF CInv
<1>8. DOMAIN imports' = {}
  BY <1>2, <1>3
<1>9. Quiet'
  BY <1>2, <1>3 DEF CInv, Course, Quiet
<1>10. AtWork'
  <2> SUFFICES ASSUME NEW e \in Execs, Chains(e)' > 0
               PROVE  row'[e] \in LiveRow
    BY DEF AtWork
  <2>1. CASE e \in E
    BY <1>5, <2>1 DEF LiveRow
  <2>2. CASE e \notin E
    <3>1. Chains(e)' = Chains(e)
      BY <1>3, <2>2 DEF Chains
    <3> QED
      BY <1>3, <2>2, <3>1 DEF CInv, Course, AtWork
  <2> QED
    BY <2>1, <2>2
<1>11. Waits'
  <2> SUFFICES ASSUME NEW y \in Executions, NEW d \in ex[y].waits
               PROVE  Current(d)' /\ plan'[owner'[d]] \notin Over /\ SliceOf[owner'[d]] \in ex[y].opened
    BY <1>3 DEF Waits
  <2>1. d \in Execs /\ owner'[d] = owner[d] /\ owner[d] \in PlanTasks
    BY <1>7, Types DEF CInv
  <2>2. Current(d) /\ plan[owner[d]] \notin Over /\ SliceOf[owner[d]] \in ex[y].opened
    BY DEF CInv, Course, Waits
  <2>3. owner[d] \notin Failed
    BY <1>4, <2>2 DEF Over
  <2> QED
    BY <1>3, <1>6, <2>1, <2>2, <2>3 DEF Current
<1>12. Cached' /\ Calls' /\ Jobs' /\ Repoints'
  BY <1>3, <1>8 DEF Cached, Calls, Jobs, Repoints
<1>13. LiveIsCurrent'
  <2> SUFFICES ASSUME NEW d \in Execs, row'[d] \in LiveRow
               PROVE  Current(d)'
    BY DEF LiveIsCurrent, LiveStands
  <2>1. CASE d \in E
    BY <1>5, <2>1
  <2>2. CASE d \notin E
    <3>1. row[d] \in LiveRow /\ Current(d) /\ owner'[d] = owner[d] /\ owner[d] \in PlanTasks
      BY <1>2, <1>3, <1>7, <2>2 DEF LiveRow
    <3>2. owner[d] \notin Failed
      <4> SUFFICES ASSUME owner[d] \in Failed
                   PROVE  FALSE
        OBVIOUS
      <4>1. PlanOf(row[d]) = "failed"
        BY <1>4, <3>1 DEF CInv, Course, Written, Current, Over
      <4> QED
        BY <3>1, <4>1 DEF PlanOf, LiveRow
    <3> QED
      BY <1>3, <3>1, <3>2 DEF Current
  <2> QED
    BY <2>1, <2>2
<1>14. Written'
  <2> SUFFICES ASSUME NEW q \in PlanTasks, plan'[q] \in Over, execOf'[q] # NoExec
               PROVE  PlanOf(row'[execOf'[q]]) = plan'[q]
    BY DEF Written
  <2>1. q \notin Failed
    BY <1>6 DEF Over
  <2>2. execOf'[q] = execOf[q] /\ plan'[q] = plan[q]
    BY <1>3, <1>6, <2>1
  <2>3. execOf[q] \in Execs /\ row[execOf[q]] # "absent"
    BY <2>2, Types DEF CInv
  <2> QED
    BY <1>7, <2>2, <2>3 DEF CInv, Course, Written
<1>15. Complete'
  <2> DEFINE pl == [p \in PlanTasks |-> IF p \in Failed THEN "active" ELSE plan[p]]
             S == {SliceOf[p] : p \in Failed}
  <2>1. pl \in [PlanTasks -> PlanStatus]
    BY DEF CInv, RInv, TypeOK, PlanStatus
  <2>2. \A q \in PlanTasks : pl[q] # plan[q] => SliceOf[q] \in S /\ plan[q] # "completed"
    BY <1>4
  <2>3. Aggregate(pl, S)
    BY <1>3
  <2> HIDE DEF pl, S
  <2> QED
    BY <2>1, <2>2, <2>3, AggregateCompletes
<1> QED
  BY <1>9, <1>10, <1>11, <1>12, <1>13, <1>14, <1>15 DEF Course

(* A death leaves the files and the rows; a boot cancels every row that the *)
(* plan has moved on from.                                                  *)
LEMMA CrashCourse ==
  ASSUME CInv, Crash
  PROVE  Course'
<1>1. /\ pend' = [e \in Execs |-> 0] /\ live' = [e \in Execs |-> 0]
      /\ deferred' = {} /\ imports' = <<>> /\ cache' = {}
      /\ ex' = [x \in Executions |-> Idle]
      /\ starting' = FALSE /\ called' = {} /\ daemon' = FALSE
      /\ UNCHANGED <<milestone, slice, plan, execOf, row, owner>>
  BY DEF Crash, planVars, rowVars
<1>2. /\ \A x \in Executions : ex'[x].waits = {} /\ ex'[x].opened = {}
      /\ DOMAIN imports' = {}
      /\ \A e \in Execs : Chains(e)' = 0
  BY <1>1 DEF Idle, Chains
<1>3. Quiet' /\ AtWork' /\ Waits' /\ Cached' /\ Calls' /\ Jobs' /\ Repoints' /\ LiveIsCurrent'
  BY <1>1, <1>2 DEF Quiet, AtWork, Waits, Cached, Calls, Jobs, Repoints, LiveIsCurrent
<1>4. Written' /\ Complete'
  BY <1>1 DEF CInv, Course, Written, Complete, AllOver, AllSlicesOver
<1> QED
  BY <1>3, <1>4 DEF Course

LEMMA BootCourse ==
  ASSUME CInv, Boot
  PROVE  Course'
<1> DEFINE swept == [e \in Execs |-> IF e \in Orphans THEN "cancelled" ELSE row[e]]
<1>1. /\ ~daemon /\ daemon'
      /\ plan' = ReconciledPlan(swept)
      /\ slice' = [s \in Slices |-> IF AllOver(plan', s) THEN "completed"
                                    ELSE IF AnyIs(plan', s, "failed") THEN "failed" ELSE slice[s]]
      /\ milestone' = IF AllSlicesOver(slice') THEN "completed" ELSE milestone
      /\ \A e \in Execs : row'[e] = IF e \in Orphans THEN "cancelled"
                                    ELSE IF row[e] \in {"queued", "running"} THEN "queued" ELSE row[e]
      /\ \A e \in Execs : pend'[e] = pend[e] \/ row'[e] = "queued"
      /\ UNCHANGED <<execOf, owner, live, deferred, imports, cache, ex>>
  BY BootFacts DEF CInv
<1>2. /\ imports = <<>> /\ DOMAIN imports = {} /\ cache = {}
      /\ \A e \in Execs : Chains(e) = 0
      /\ \A x \in Executions : ex[x].waits = {} /\ ex[x].opened = {}
  BY <1>1 DEF CInv, Course, Quiet, IInv, DownIsEmpty
<1>3. DOMAIN imports' = {}
  BY <1>1, <1>2
<1>4. Quiet' /\ Waits' /\ Cached' /\ Calls' /\ Jobs' /\ Repoints'
  BY <1>1, <1>2, <1>3 DEF Quiet, Waits, Cached, Calls, Jobs, Repoints
<1>5. AtWork'
  <2> SUFFICES ASSUME NEW e \in Execs, Chains(e)' > 0
               PROVE  row'[e] \in LiveRow
    BY DEF AtWork
  <2>1. pend'[e] # pend[e]
    BY <1>1, <1>2 DEF Chains
  <2> QED
    BY <1>1, <2>1 DEF LiveRow
<1>6. LiveIsCurrent'
  <2> SUFFICES ASSUME NEW d \in Execs, row'[d] \in LiveRow
               PROVE  Current(d)'
    BY DEF LiveIsCurrent, LiveStands
  <2>1. d \notin Orphans /\ row[d] \in LiveRow
    BY <1>1 DEF LiveRow
  <2>2. PICK p \in PlanTasks : execOf[p] = d
    BY <2>1 DEF Orphans
  <2>3. owner[d] = p
    BY <2>2, Types DEF CInv
  <2> QED
    BY <1>1, <2>2, <2>3 DEF Current
<1>7. \A p \in PlanTasks : plan'[p] = IF plan[p] \in Over \/ execOf[p] = NoExec THEN plan[p]
                                      ELSE IF PlanOf(row[execOf[p]]) \in Over THEN PlanOf(row[execOf[p]])
                                      ELSE plan[p]
  <2> SUFFICES ASSUME NEW p \in PlanTasks, execOf[p] # NoExec
               PROVE  swept[execOf[p]] = row[execOf[p]]
    BY <1>1 DEF ReconciledPlan
  <2>1. execOf[p] \in Execs /\ execOf[p] \notin Orphans
    BY Types DEF CInv, Orphans
  <2> QED
    BY <2>1
<1> HIDE DEF swept
<1>8. Written'
  <2> SUFFICES ASSUME NEW p \in PlanTasks, plan'[p] \in Over, execOf[p] # NoExec
               PROVE  PlanOf(row'[execOf[p]]) = plan'[p]
    BY <1>1 DEF Written
  <2>1. execOf[p] \in Execs /\ execOf[p] \notin Orphans
    BY Types DEF CInv, Orphans
  <2>2. PlanOf(row[execOf[p]]) = plan'[p]
    BY <1>7 DEF CInv, Course, Written
  <2>3. row[execOf[p]] \notin {"queued", "running"}
    BY <2>2 DEF PlanOf, Over
  <2> QED
    BY <1>1, <2>1, <2>2, <2>3
<1>9. Complete'
  <2>1. \A s \in Slices : AllOver(plan, s) => AllOver(plan', s)
    BY <1>7 DEF AllOver, TasksOf, Over
  <2>2. \A s \in Slices : slice'[s] = "completed" <=> AllOver(plan', s)
    BY <1>1, <2>1 DEF CInv, Course, Complete
  <2> QED
    BY <1>1, <2>1, <2>2 DEF CInv, Course, Complete, AllSlicesOver
<1> QED
  BY <1>4, <1>5, <1>6, <1>8, <1>9 DEF Course

-----------------------------------------------------------------------------
LEMMA CInvInit == Init => CInv
<1> SUFFICES ASSUME Init
             PROVE  Course
  BY RInvInit, IInvInit DEF CInv
<1>1. DOMAIN imports = {} /\ \A x \in Executions : ex[x].waits = {} /\ ex[x].opened = {}
  BY DEF Init, Idle
<1>2. Quiet /\ AtWork /\ Waits /\ Cached /\ Calls /\ Jobs /\ Repoints
  BY <1>1 DEF Init, Quiet, AtWork, Chains, Waits, Cached, Calls, Jobs, Repoints
<1>3. LiveIsCurrent /\ Written
  BY DEF Init, LiveIsCurrent, LiveRow, Written
<1>4. Complete
  BY PlanAssumption DEF Init, Complete
<1> QED
  BY <1>2, <1>3, <1>4 DEF Course

LEMMA CInvStep ==
  ASSUME Undisturbed, CInv, [Next]_vars
  PROVE  CInv'
<1>1. RInv' /\ IInv'
  BY RInvStep, IInvStep DEF CInv
<1> SUFFICES Course'
  BY <1>1 DEF CInv
<1>2. CASE BeginExecution
  BY <1>1, <1>2, BeginCourse
<1>3. CASE TurnEnds \/ StartAutoExecution \/ StopAutoExecution
  BY <1>3, RequestCourse
<1>4. CASE SyncPlan
  BY <1>4, SyncCourse
<1>5. CASE RepointPlan
  BY <1>5, RepointCourse
<1>6. ASSUME NEW x \in Executions, Advance(x)
      PROVE  Course'
  BY <1>1, <1>6, SliceCourse, SliceEndCourse, MilestoneCourse, FinishCourse DEF Advance
<1>7. ASSUME NEW x \in Executions, NEW e \in Execs, StaleCheck(x, e)
      PROVE  Course'
  BY <1>7, TickerCourse
<1>8. ASSUME NEW e \in Execs, TaskExecutorStep(e) \/ Ask(e) \/ Cancel(e) \/ Answer(e)
      PROVE  Course'
  BY <1>1, <1>8, RowCourse, RetryCourse DEF TaskExecutorStep, SessionSettles
<1>9. ASSUME NEW e \in Execs, Rerun(e)
      PROVE  Course'
  BY <1>9 DEF Rerun, Undisturbed
<1>10. CASE RerunFailed
  BY <1>10, RerunFailedCourse
<1>11. CASE Crash
  BY <1>11, CrashCourse
<1>12. CASE Boot
  BY <1>12, BootCourse
<1>13. CASE UNCHANGED vars
  <2>1. UNCHANGED <<milestone, slice, plan, execOf, row, owner, pend, live, deferred, imports,
                    cache, active, ex, starting, called, daemon>>
    BY <1>13 DEF vars, planVars, rowVars, teVars, axVars, loopVars
  <2>2. (AdvanceDue' <=> AdvanceDue) /\ \A e : Awaited(e)' <=> Awaited(e)
    BY <2>1, DueAsBefore DEF CInv
  <2>3. Quiet' /\ AtWork' /\ Waits' /\ Cached' /\ Calls' /\ Written' /\ Complete'
    BY <2>1 DEF CInv, Course, Quiet, AtWork, Chains, Waits, Current, Cached, Calls, Written,
                Complete, AllOver, AllSlicesOver
  <2>4. Jobs' /\ Repoints' /\ LiveIsCurrent'
    BY <2>1, <2>2 DEF CInv, Course, Jobs, JobStands, Repoints, RepointStands, Current, Sync,
                      LiveIsCurrent, LiveStands
  <2> QED
    BY <2>3, <2>4 DEF Course
<1> QED
  BY <1>2, <1>3, <1>4, <1>5, <1>6, <1>7, <1>8, <1>9, <1>10, <1>11, <1>12, <1>13 DEF Next, UserStep

(* CInv is inductive for a plan that nobody reworks while it runs: however  *)
(* retries, stops, starts, crashes, provider limits, questions and          *)
(* rerun-failed interleave with the jobs behind the dynamic import.         *)
THEOREM CourseHolds ==
  ASSUME Undisturbed
  PROVE  Spec => []CInv
<1>1. CInv /\ [Next]_vars => CInv'
  BY CInvStep
<1> QED
  BY CInvInit, <1>1, PTL DEF Spec

(* An execution waits for the row that the file of the plan task names      *)
(* (WaitsForCurrent): syncPlan settles the promise for a failed row before  *)
(* repointPlanTask moves the plan on to its retry.                          *)
THEOREM WaitersAreCurrent ==
  ASSUME Undisturbed
  PROVE  Spec => []WaitsForCurrent
<1>1. CInv => WaitsForCurrent
  <2> SUFFICES ASSUME CInv, NEW x \in Executions, NEW e \in ex[x].waits
               PROVE  owner[e] # NoTask /\ execOf[owner[e]] = e
    BY DEF WaitsForCurrent
  <2>1. owner[e] \in PlanTasks /\ Current(e)
    BY Types DEF CInv, Course, Waits
  <2> QED
    BY <2>1, PlanAssumption DEF Current
<1> QED
  BY CourseHolds, <1>1, PTL

(* When a request is served a plan task has one live row at most            *)
(* (OneLiveAttempt): a live row that the plan has moved on from is either    *)
(* about to be named by its file or was cancelled by the last boot.         *)
THEOREM AttemptsAreSingle ==
  ASSUME Undisturbed
  PROVE  Spec => []OneLiveAttempt
<1>1. ASSUME CInv, Serving, NEW p \in PlanTasks
      PROVE  Cardinality({e \in Execs : owner[e] = p /\ row[e] \in LiveRow}) <= 1
  <2> DEFINE A == {e \in Execs : owner[e] = p /\ row[e] \in LiveRow}
  <2>1. A \subseteq {execOf[p]}
    BY <1>1, ServedState DEF Current
  <2>2. A = {} \/ A = {execOf[p]}
    BY <2>1
  <2>3. Cardinality({}) = 0 /\ Cardinality({execOf[p]}) = 1
    BY FS_EmptySet, FS_Singleton
  <2> HIDE DEF A
  <2>4. Cardinality(A) <= 1
    BY <2>2, <2>3
  <2> QED
    BY <2>4 DEF A
<1>2. CInv => OneLiveAttempt
  BY <1>1 DEF OneLiveAttempt
<1> QED
  BY CourseHolds, <1>2, PTL

(* What the files call completed is completed (CompletedMeansCompleted),    *)
(* although four writers aggregate them: syncPlan and repointPlanTask, the  *)
(* ticker, the end of a slice or of a milestone, and the boot.              *)
THEOREM CompletedIsTrue ==
  ASSUME Undisturbed
  PROVE  Spec => []CompletedMeansCompleted
<1>1. CInv => CompletedMeansCompleted
  BY DEF CInv, Course, Complete, CompletedMeansCompleted
<1> QED
  BY CourseHolds, <1>1, PTL

=============================================================================
