----------------------- MODULE TaskExecutorSafety -----------------------
(* The typing of the executor's state, why a task is never run twice at     *)
(* once, and who may write a row that has reached its end, for every set of *)
(* tasks and keys and every value of the bounds.                            *)
EXTENDS TaskExecutor, FiniteSetTheorems, SequenceTheorems, TLAPS

-----------------------------------------------------------------------------
(* Facts about sequences and about execute() *)

(* Rows in some order form a sequence of tasks without repetition. *)
LEMMA OrderingsAreSeqs ==
  ASSUME NEW S, S \subseteq Tasks, NEW q \in SetToSeqs(S)
  PROVE  q \in Seq(Tasks) /\ IsInjective(q) /\ ToSet(q) \subseteq S
<1>1. IsFiniteSet(S)
  BY TasksAssumption, FS_Subset
<1>2. Cardinality(S) \in Nat
  BY <1>1, FS_CardinalityType
<1> QED
  BY <1>2 DEF SetToSeqs, IsInjective, ToSet

(* Removing a task from the queue, if it is there, removes nothing else. *)
LEMMA RemoveAtFacts ==
  ASSUME NEW S, NEW q \in Seq(S), NEW i \in 1..Len(q)
  PROVE  /\ RemoveAt(q, i) \in Seq(S)
         /\ Len(RemoveAt(q, i)) = Len(q) - 1
         /\ \A j \in 1..(Len(q) - 1) :
              RemoveAt(q, i)[j] = IF j < i THEN q[j] ELSE q[j + 1]
<1> DEFINE a == SubSeq(q, 1, i - 1)
           b == SubSeq(q, i + 1, Len(q))
<1>1. /\ a \in Seq(S) /\ Len(a) = i - 1
      /\ \A j \in 1..(i - 1) : a[j] = q[j]
  BY SubSeqProperties
<1>2. /\ b \in Seq(S) /\ Len(b) = Len(q) - i
      /\ \A j \in 1..(Len(q) - i) : b[j] = q[i + j]
  BY SubSeqProperties
<1>3. RemoveAt(q, i) = a \o b
  BY DEF RemoveAt
<1> HIDE DEF a, b
<1>4. a \o b \in Seq(S) /\ Len(a \o b) = Len(q) - 1
  <2>1. a \o b \in Seq(S) /\ Len(a \o b) = Len(a) + Len(b)
    BY <1>1, <1>2, ConcatProperties
  <2> QED
    BY <1>1, <1>2, <2>1
<1>c. \A j \in 1..(Len(a) + Len(b)) :
        (a \o b)[j] = IF j <= Len(a) THEN a[j] ELSE b[j - Len(a)]
  BY <1>1, <1>2, ConcatProperties
<1>5. ASSUME NEW j \in 1..(Len(q) - 1)
      PROVE  (a \o b)[j] = IF j < i THEN q[j] ELSE q[j + 1]
  <2>1. CASE j < i
    <3>1. j \in 1..Len(a)
      BY <1>1, <2>1
    <3>2. (a \o b)[j] = a[j]
      BY <1>1, <1>2, <1>c, <3>1
    <3> QED
      BY <1>1, <2>1, <3>1, <3>2
  <2>2. CASE ~(j < i)
    <3>1. j \in (Len(a) + 1)..(Len(a) + Len(b))
      BY <1>1, <1>2, <2>2
    <3>2. (a \o b)[j] = b[j - Len(a)]
      BY <1>1, <1>2, <1>c, <3>1
    <3>3. j - Len(a) \in 1..(Len(q) - i) /\ i + (j - Len(a)) = j + 1
      BY <1>1, <2>2
    <3> QED
      BY <1>2, <2>2, <3>2, <3>3
  <2> QED
    BY <2>1, <2>2
<1> QED
  BY <1>3, <1>4, <1>5

LEMMA DequeuedFacts ==
  ASSUME NEW q \in Seq(Tasks), NEW t
  PROVE  /\ Dequeued(q, t) \in Seq(Tasks)
         /\ IsInjective(q) => /\ IsInjective(Dequeued(q, t))
                              /\ ToSet(Dequeued(q, t)) = ToSet(q) \ {t}
<1>1. CASE t \notin ToSet(q)
  BY <1>1 DEF Dequeued
<1>2. CASE t \in ToSet(q)
  <2> DEFINE i == CHOOSE j \in DOMAIN q : q[j] = t
             d == RemoveAt(q, i)
  <2>1. i \in 1..Len(q) /\ q[i] = t
    BY <1>2 DEF ToSet
  <2>2. Dequeued(q, t) = d
    BY <1>2 DEF Dequeued
  <2>3. /\ d \in Seq(Tasks) /\ Len(d) = Len(q) - 1
        /\ \A j \in 1..(Len(q) - 1) :
              d[j] = IF j < i THEN q[j] ELSE q[j + 1]
    BY <2>1, RemoveAtFacts
  <2> HIDE DEF i, d
  <2>4. DOMAIN q = 1..Len(q) /\ DOMAIN d = 1..(Len(q) - 1) /\ Len(q) \in Nat
    BY <2>3
  <2>5. ASSUME IsInjective(q) PROVE IsInjective(d)
    <3> SUFFICES ASSUME NEW m \in 1..(Len(q) - 1), NEW j \in 1..(Len(q) - 1),
                        d[m] = d[j], m < j
                 PROVE  FALSE
      BY <2>4 DEF IsInjective
    <3>1. /\ m \in 1..Len(q) /\ m + 1 \in 1..Len(q)
          /\ j \in 1..Len(q) /\ j + 1 \in 1..Len(q)
      BY <2>4
    <3>2. \A x, y \in 1..Len(q) : q[x] = q[y] => x = y
      BY <2>4, <2>5 DEF IsInjective
    <3>3. /\ d[m] = IF m < i THEN q[m] ELSE q[m + 1]
          /\ d[j] = IF j < i THEN q[j] ELSE q[j + 1]
      BY <2>3
    <3>4. CASE j < i
      <4>1. m < i
        BY <2>1, <3>4
      <4>2. q[m] = q[j]
        BY <3>3, <3>4, <4>1
      <4> QED
        BY <3>1, <3>2, <4>2
    <3>5. CASE m < i /\ ~(j < i)
      <4>1. q[m] = q[j + 1]
        BY <3>3, <3>5
      <4> QED
        BY <3>1, <3>2, <4>1
    <3>6. CASE ~(m < i)
      <4>1. q[m + 1] = q[j + 1]
        <5>1. ~(j < i)
          BY <2>1, <2>4, <3>6
        <5> QED
          BY <3>3, <3>6, <5>1
      <4>2. m + 1 = j + 1
        BY <3>1, <3>2, <4>1
      <4> QED
        BY <4>2
    <3> QED
      BY <3>4, <3>5, <3>6
  <2>6. ASSUME IsInjective(q) PROVE ToSet(d) = ToSet(q) \ {t}
    <3>1. ASSUME NEW j \in 1..(Len(q) - 1) PROVE d[j] \in ToSet(q) \ {t}
      BY <2>1, <2>3, <2>4, <2>6 DEF IsInjective, ToSet
    <3>2. ASSUME NEW j \in 1..Len(q), q[j] # t
          PROVE  \E m \in 1..(Len(q) - 1) : d[m] = q[j]
      <4>1. CASE j < i
        BY <2>1, <2>3, <4>1
      <4>2. CASE j > i
        <5>1. j - 1 \in 1..(Len(q) - 1) /\ ~(j - 1 < i)
          BY <2>1, <2>4, <4>2
        <5>2. d[j - 1] = q[j]
          BY <2>3, <5>1, <2>4
        <5> QED
          BY <5>1, <5>2
      <4> QED
        BY <2>1, <3>2, <4>1, <4>2
    <3> QED
      <4>1. ToSet(d) \subseteq ToSet(q) \ {t}
        BY <2>4, <3>1 DEF ToSet
      <4>2. ASSUME NEW x \in ToSet(q) \ {t} PROVE x \in ToSet(d)
        <5>1. PICK j \in 1..Len(q) : q[j] = x
          BY <2>4, <4>2 DEF ToSet
        <5>2. PICK m \in 1..(Len(q) - 1) : d[m] = x
          BY <3>2, <4>2, <5>1
        <5> QED
          BY <2>4, <5>2 DEF ToSet
      <4> QED
        BY <4>1, <4>2
  <2> QED
    BY <2>2, <2>3, <2>5, <2>6
<1> QED
  BY <1>1, <1>2

(* The run a call of execute() starts is a run of that task. *)
LEMMA FreshIsRun ==
  ASSUME NEW rn, NEW t \in Tasks
  PROVE  Fresh(rn, t) \in Runs /\ Task(Fresh(rn, t)) = t
BY DEF Fresh, Runs, Task

(* execute() keeps the runs and the promise job queue well typed. *)
LEMMA ExecuteType ==
  ASSUME NEW rn \in [Runs -> RunState], NEW mq \in Seq(Runs),
         NEW ts \in Seq(Tasks), Execute(rn, mq, ts),
         ConstantsAssumption
  PROVE  run' \in [Runs -> RunState] /\ micro' \in Seq(Runs)
<1>1. [IdleRun EXCEPT !.phase = "select"] \in RunState
  BY DEF IdleRun, RunState, Phases, MicroPhases, AbortReasons, ConstantsAssumption
<1>2. run' \in [Runs -> RunState]
  BY <1>1 DEF Execute
<1>3. DOMAIN ts = 1..Len(ts) /\ Len(ts) \in Nat
  OBVIOUS
<1>4. \A i \in DOMAIN ts : ts[i] \in Tasks
  BY <1>3
<1> DEFINE q == [i \in DOMAIN ts |-> Fresh(rn, ts[i])]
<1>5. q \in Seq(Runs)
  BY <1>3, <1>4, FreshIsRun
<1>6. micro' = mq \o q
  BY DEF Execute
<1> HIDE DEF q
<1>7. micro' \in Seq(Runs)
  BY <1>5, <1>6
<1> QED
  BY <1>2, <1>7

-----------------------------------------------------------------------------
(* Type correctness *)

LEMMA IdleRunType == IdleRun \in RunState
BY ConstantsAssumption DEF IdleRun, RunState, Phases, MicroPhases, AbortReasons

LEMMA AbortedType ==
  ASSUME NEW s \in RunState, NEW reason \in AbortReasons
  PROVE  Aborted(s, reason) \in RunState
<1>1. {} \in SUBSET QuestionNums
  OBVIOUS
<1> QED
  BY <1>1 DEF Aborted, RunState

(* A change of the questions that a session has asked or has open. *)
LEMMA OpenType ==
  ASSUME NEW s \in RunState, NEW o \in SUBSET QuestionNums,
         NEW n \in 0..MaxQuestions
  PROVE  /\ [s EXCEPT !.open = o] \in RunState
         /\ [s EXCEPT !.asked = n, !.open = o] \in RunState
BY DEF RunState

(* A run moves on: its phase changes, with its key, its set of saturated    *)
(* keys or its open questions.                                              *)
LEMMA PhaseType ==
  ASSUME NEW s \in RunState, NEW p \in Phases, NEW k \in Keys,
         NEW e \in SUBSET Keys
  PROVE  /\ [s EXCEPT !.phase = p] \in RunState
         /\ [s EXCEPT !.phase = p, !.key = k] \in RunState
         /\ [s EXCEPT !.excl = e] \in RunState
BY DEF RunState
LEMMA SettledType ==
  ASSUME NEW s \in RunState, NEW p \in Phases
  PROVE  /\ [s EXCEPT !.phase = p] \in RunState
         /\ [s EXCEPT !.phase = p, !.open = {}] \in RunState
BY DEF RunState
LEMMA PhaseNames ==
  /\ MicroPhases \subseteq Phases
  /\ {"select", "enqueue", "nokey", "start", "prepfail", "end"} = MicroPhases
  /\ {"idle", "prepare", "live"} \subseteq Phases
BY DEF Phases, MicroPhases

LEMMA TypeInit == Init => TypeOK
BY IdleRunType, ConstantsAssumption DEF Init, TypeOK, Status, QuestionNums

LEMMA TypeRunStep ==
  ASSUME TypeOK, NEW r \in Runs, RunStep(r)
  PROVE  TypeOK'
<1> USE ConstantsAssumption
<1>r. Task(r) \in Tasks
  BY DEF Runs, Task
<1>t. ASSUME NEW p, Turn(r, p)
      PROVE  /\ Tail(micro) \in Seq(Runs)
             /\ Append(Tail(micro), r) \in Seq(Runs)
  BY <1>t DEF Turn, TypeOK
<1>p. ASSUME NEW p \in Phases, run' = [run EXCEPT ![r].phase = p]
      PROVE  run' \in [Runs -> RunState]
  <2>1. [run[r] EXCEPT !.phase = p] \in RunState
    BY SettledType DEF TypeOK
  <2> QED
    BY <1>p, <2>1 DEF TypeOK
<1>1. CASE SelectKey(r)
  <2>1. micro' \in Seq(Runs)
    BY <1>1, <1>t DEF SelectKey
  <2>2. run' \in [Runs -> RunState]
    <3>1. ASSUME NEW k \in Keys,
                 run' = [run EXCEPT ![r].phase = "start", ![r].key = k]
          PROVE  run' \in [Runs -> RunState]
      <4>1. [run[r] EXCEPT !.phase = "start", !.key = k] \in RunState
        BY PhaseType, PhaseNames DEF TypeOK
      <4> QED
        BY <3>1, <4>1 DEF TypeOK
    <3>2. ASSUME NEW k \in Keys, run' = [run EXCEPT ![r].excl = @ \cup {k}]
          PROVE  run' \in [Runs -> RunState]
      <4>1. run[r].excl \cup {k} \in SUBSET Keys
        BY DEF TypeOK, RunState
      <4>2. [run[r] EXCEPT !.excl = run[r].excl \cup {k}] \in RunState
        BY <4>1, PhaseType, PhaseNames DEF TypeOK
      <4> QED
        BY <3>2, <4>2 DEF TypeOK
    <3>4. Selectable(Task(r), run[r].excl) \subseteq Keys
      BY <1>r DEF Selectable, TypeOK
    <3> QED
      BY <1>1, <3>1, <3>2, <1>p, <3>4, PhaseNames DEF SelectKey
  <2>3. keySlotUsage' \in [Keys -> Nat] /\ reservedKey' \in [Tasks -> Keys \cup {NoKey}]
    <3>1. \/ UNCHANGED <<keySlotUsage, reservedKey>>
          \/ \E k \in Selectable(Task(r), run[r].excl) :
               /\ keySlotUsage' = [keySlotUsage EXCEPT ![k] = @ + 1]
               /\ reservedKey' = [reservedKey EXCEPT ![Task(r)] = k]
      BY <1>1 DEF SelectKey
    <3>2. Selectable(Task(r), run[r].excl) \subseteq Keys
      BY <1>r DEF Selectable, TypeOK
    <3>3. ASSUME NEW k \in Keys,
                 keySlotUsage' = [keySlotUsage EXCEPT ![k] = @ + 1],
                 reservedKey' = [reservedKey EXCEPT ![Task(r)] = k]
          PROVE  /\ keySlotUsage' \in [Keys -> Nat]
                 /\ reservedKey' \in [Tasks -> Keys \cup {NoKey}]
      <4>1. keySlotUsage[k] + 1 \in Nat
        BY DEF TypeOK
      <4> QED
        BY <1>r, <3>3, <4>1 DEF TypeOK
    <3>4. CASE UNCHANGED <<keySlotUsage, reservedKey>>
      BY <3>4 DEF TypeOK
    <3> QED
      BY <3>1, <3>2, <3>3, <3>4
  <2> QED
    BY <1>1, <2>1, <2>2, <2>3 DEF SelectKey, TypeOK, dbVars
<1>2. CASE EnqueueTask(r)
  <2>1. micro' \in Seq(Runs)
    BY <1>2, <1>t DEF EnqueueTask
  <2>2. run' \in [Runs -> RunState] /\ queue' \in Seq(Tasks)
    BY <1>2, <1>r, IdleRunType DEF EnqueueTask, TypeOK
  <2> QED
    BY <1>2, <2>1, <2>2 DEF EnqueueTask, TypeOK, dbVars
<1>3. CASE FailBeforeStart(r)
  <2>1. micro' \in Seq(Runs)
    BY <1>3, <1>t DEF FailBeforeStart
  <2>2. run' \in [Runs -> RunState] /\ status' \in [Tasks -> Status]
    BY <1>3, <1>r, IdleRunType DEF FailBeforeStart, TypeOK, Status
  <2> QED
    BY <1>3, <2>1, <2>2 DEF FailBeforeStart, TypeOK
<1>4. CASE StartRun(r)
  <2>1. micro' \in Seq(Runs)
    BY <1>4, <1>t DEF StartRun
  <2>2. run' \in [Runs -> RunState] /\ status' \in [Tasks -> Status]
    BY <1>4, <1>r, <1>p, PhaseNames DEF StartRun, TypeOK, Status
  <2> QED
    BY <1>4, <2>1, <2>2 DEF StartRun, TypeOK
<1>5. CASE PrepareFail(r)
  <2>1. micro' \in Seq(Runs)
    <3>1. <<r>> \in Seq(Runs)
      OBVIOUS
    <3> QED
      BY <1>5, <1>t, <3>1 DEF PrepareFail
  <2>2. run' \in [Runs -> RunState] /\ status' \in [Tasks -> Status]
    BY <1>5, <1>r, <1>p, PhaseNames DEF PrepareFail, TypeOK, Status
  <2> QED
    BY <1>5, <2>1, <2>2 DEF PrepareFail, TypeOK
<1>6. CASE PrepareOk(r)
  <2>1. run' \in [Runs -> RunState]
    BY <1>6, <1>p, PhaseNames DEF PrepareOk
  <2>2. assignedKey' \in [Tasks -> Keys \cup {NoKey}] /\ sessions' \in [Tasks -> Runs \cup {NoRun}]
    BY <1>6, <1>r DEF PrepareOk, TypeOK, RunState
  <2> QED
    BY <1>6, <2>1, <2>2 DEF PrepareOk, TypeOK
<1>7. CASE EndRun(r)
  <2>1. [run EXCEPT ![r] = IdleRun] \in [Runs -> RunState]
    BY IdleRunType DEF TypeOK
  <2>2. run' \in [Runs -> RunState] /\ micro' \in Seq(Runs)
    BY <1>7, <1>t, <2>1, ExecuteType DEF EndRun, TypeOK
  <2>3. keySlotUsage' \in [Keys -> Nat] /\ reservedKey' \in [Tasks -> Keys \cup {NoKey}]
    <3>1. CASE reservedKey[Task(r)] = NoKey
      BY <1>7, <3>1 DEF EndRun, Release, TypeOK
    <3>2. CASE reservedKey[Task(r)] # NoKey
      <4> DEFINE k == reservedKey[Task(r)]
                 n == IF keySlotUsage[k] <= 1 THEN 0 ELSE keySlotUsage[k] - 1
      <4>1. k \in Keys
        BY <1>r, <3>2 DEF TypeOK
      <4>2. keySlotUsage[k] \in Nat
        BY <4>1 DEF TypeOK
      <4>3. n \in Nat
        BY <4>2
      <4>4. /\ keySlotUsage' = [keySlotUsage EXCEPT ![k] = n]
            /\ reservedKey' = [reservedKey EXCEPT ![Task(r)] = NoKey]
        BY <1>7, <3>2 DEF EndRun, Release
      <4> QED
        BY <4>3, <4>4 DEF TypeOK
    <3> QED
      BY <3>1, <3>2
  <2>4. queue' \in Seq(Tasks)
    BY <1>7 DEF EndRun
  <2> QED
    BY <1>7, <2>2, <2>3, <2>4 DEF EndRun, TypeOK, dbVars
<1> QED
  BY <1>1, <1>2, <1>3, <1>4, <1>5, <1>6, <1>7 DEF RunStep

LEMMA TypeSessionStep ==
  ASSUME TypeOK, NEW r \in Runs, SessionStep(r)
  PROVE  TypeOK'
<1> USE ConstantsAssumption
<1>r. Task(r) \in Tasks
  BY DEF Runs, Task
<1>s. ASSUME Settle(r)
      PROVE  /\ run' \in [Runs -> RunState]
             /\ micro' \in Seq(Runs)
             /\ sessions' \in [Tasks -> Runs \cup {NoRun}]
  <2>1. [run[r] EXCEPT !.phase = "end", !.open = {}] \in RunState
    BY SettledType, PhaseNames DEF TypeOK
  <2>2. run' \in [Runs -> RunState]
    BY <1>s, <2>1 DEF Settle, TypeOK
  <2>3. micro' \in Seq(Runs)
    BY <1>s DEF Settle
  <2>4. sessions' \in [Tasks -> Runs \cup {NoRun}]
    BY <1>s, <1>r DEF Settle, TypeOK
  <2> QED
    BY <2>2, <2>3, <2>4
<1>1. CASE SessionSucceeds(r)
  <2>1. status' \in [Tasks -> Status]
    BY <1>1, <1>r DEF SessionSucceeds, TypeOK, Status
  <2> QED
    BY <1>1, <1>s, <2>1 DEF SessionSucceeds, TypeOK
<1>2. CASE SessionRateLimited(r)
  <2>1. /\ status' \in [Tasks -> Status]
        /\ resumeAt' \subseteq Tasks
        /\ timers' \subseteq Tasks
    BY <1>2, <1>r DEF SessionRateLimited, TypeOK, Status
  <2> QED
    BY <1>2, <1>s, <2>1 DEF SessionRateLimited, TypeOK
<1>3. CASE SessionAborts(r)
  <2>1. status' \in [Tasks -> Status]
    BY <1>3, <1>r DEF SessionAborts, finalizeError, TypeOK, Status
  <2> QED
    BY <1>3, <1>s, <2>1 DEF SessionAborts, TypeOK
<1>4. CASE SessionFails(r)
  <2>1. status' \in [Tasks -> Status]
    <3>1. CASE finalizeError(Task(r), "failed")
      BY <1>r, <3>1 DEF finalizeError, TypeOK, Status
    <3>2. ASSUME NEW u \in Tasks,
                 status' = [status EXCEPT
                   ![Task(r)] = IF @ = "cancelled" THEN @ ELSE "failed",
                   ![u] = "queued"]
          PROVE  status' \in [Tasks -> Status]
      BY <1>r, <3>2 DEF TypeOK, Status
    <3> QED
      BY <1>4, <3>1, <3>2 DEF SessionFails
  <2>2. retryCount' \in [Tasks -> 0..MaxRetries] /\ deferred' \subseteq Tasks
    <3>1. CASE UNCHANGED <<retryCount, deferred>>
      BY <3>1 DEF TypeOK
    <3>2. ASSUME NEW u \in Tasks, Retryable(Task(r)),
                 retryCount' = [retryCount EXCEPT ![u] = retryCount[Task(r)] + 1],
                 deferred' = deferred \cup {u}
          PROVE  retryCount' \in [Tasks -> 0..MaxRetries] /\ deferred' \subseteq Tasks
      <4>1. retryCount[Task(r)] + 1 \in 0..MaxRetries
        BY <1>r, <3>2 DEF Retryable, TypeOK, ConstantsAssumption
      <4> QED
        BY <3>2, <4>1 DEF TypeOK
    <3> QED
      BY <1>4, <3>1, <3>2 DEF SessionFails
  <2> QED
    BY <1>4, <1>s, <2>1, <2>2 DEF SessionFails, TypeOK
<1>5. CASE SessionTimesOut(r)
  <2>1. run' \in [Runs -> RunState]
    BY <1>5, AbortedType DEF SessionTimesOut, TypeOK, AbortReasons
  <2> QED
    BY <1>5, <2>1 DEF SessionTimesOut, TypeOK, dbVars
<1>6. CASE Ask(r)
  <2> DEFINE n == run[r].asked + 1
  <2>n. n \in QuestionNums /\ n \in 0..MaxQuestions
    BY <1>6 DEF Ask, TypeOK, RunState, QuestionNums
  <2>1. run' \in [Runs -> RunState]
    <3>1. run[r].open \cup {n} \in SUBSET QuestionNums
      BY <2>n DEF TypeOK, RunState
    <3>2. [run[r] EXCEPT !.asked = n, !.open = run[r].open \cup {n}] \in RunState
      BY <2>n, <3>1, OpenType DEF TypeOK
    <3>3. run' = [run EXCEPT ![r] =
                    [run[r] EXCEPT !.asked = n, !.open = run[r].open \cup {n}]]
      BY <1>6 DEF Ask, TypeOK
    <3> QED
      BY <3>2, <3>3 DEF TypeOK
  <2>2. status' \in [Tasks -> Status]
    BY <1>6, <1>r DEF Ask, TypeOK, Status
  <2>3. question' \in [Tasks -> [QuestionNums -> {"none", "pending", "answered"}]]
    BY <1>6, <1>r, <2>n DEF Ask, TypeOK
  <2> QED
    BY <1>6, <2>1, <2>2, <2>3 DEF Ask, TypeOK
<1> QED
  BY <1>1, <1>2, <1>3, <1>4, <1>5, <1>6 DEF SessionStep, SessionSettles

LEMMA TypeRequest ==
  ASSUME TypeOK, NEW t \in Tasks, Request(t)
  PROVE  TypeOK'
<1> USE ConstantsAssumption
<1>e. ASSUME NEW u \in Tasks, Execute(run, micro, <<u>>)
      PROVE  run' \in [Runs -> RunState] /\ micro' \in Seq(Runs)
  <2>1. <<u>> \in Seq(Tasks)
    OBVIOUS
  <2> QED
    BY <1>e, <2>1, ExecuteType DEF TypeOK
<1>1. CASE Create(t)
  <2>1. status' \in [Tasks -> Status] /\ assignedKey' \in [Tasks -> Keys \cup {NoKey}]
    BY <1>1 DEF Create, TypeOK, Status
  <2> QED
    BY <1>1, <1>e, <2>1 DEF Create, TypeOK
<1>2. ASSUME NEW u \in Tasks, Rerun(t, u) PROVE TypeOK'
  <2>1. status' \in [Tasks -> Status]
    BY <1>2 DEF Rerun, TypeOK, Status
  <2> QED
    BY <1>2, <1>e, <2>1 DEF Rerun, TypeOK
<1>3. CASE Cancel(t)
  <2>1. status' \in [Tasks -> Status] /\ timers' \subseteq Tasks /\ resumeAt' \subseteq Tasks
    BY <1>3 DEF Cancel, TypeOK, Status
  <2>2. run' \in [Runs -> RunState]
    <3>1. CASE sessions[t] = NoRun
      BY <1>3, <3>1 DEF Cancel, TypeOK
    <3>2. CASE sessions[t] # NoRun
      <4>1. sessions[t] \in Runs
        BY <3>2 DEF TypeOK
      <4>2. Aborted(run[sessions[t]], "user") \in RunState
        BY <4>1, AbortedType DEF TypeOK, AbortReasons
      <4> QED
        BY <1>3, <3>2, <4>1, <4>2 DEF Cancel, TypeOK
    <3> QED
      BY <3>1, <3>2
  <2>3. queue' \in Seq(Tasks)
    BY <1>3, DequeuedFacts DEF Cancel, TypeOK
  <2> QED
    BY <1>3, <2>1, <2>2, <2>3 DEF Cancel, TypeOK
<1>4. CASE Approve(t)
  BY <1>4 DEF Approve, TypeOK, Status, memVars
<1>5. CASE RejectBegin(t)
  BY <1>5 DEF RejectBegin, TypeOK, Status
<1>6. CASE RejectCommit(t)
  BY <1>6 DEF RejectCommit, TypeOK, Status
<1>7. ASSUME NEW n \in QuestionNums, AnswerHot(t, n) PROVE TypeOK'
  <2>1. status' \in [Tasks -> Status]
    BY <1>7 DEF AnswerHot, TypeOK, Status
  <2>2. run' \in [Runs -> RunState]
    <3> DEFINE x == sessions[t]
    <3>1. x \in Runs
      BY <1>7 DEF AnswerHot, TypeOK
    <3>2. run[x].open \ {n} \in SUBSET QuestionNums
      BY <3>1 DEF TypeOK, RunState
    <3>3. 0 \in 0..MaxQuestions
      OBVIOUS
    <3>4. [run[x] EXCEPT !.open = run[x].open \ {n}] \in RunState
      BY <3>1, <3>2, <3>3, OpenType DEF TypeOK
    <3>5. run' = [run EXCEPT ![x] = [run[x] EXCEPT !.open = run[x].open \ {n}]]
      BY <1>7 DEF AnswerHot
    <3> QED
      BY <3>1, <3>4, <3>5 DEF TypeOK
  <2>3. question' \in [Tasks -> [QuestionNums -> {"none", "pending", "answered"}]]
    BY <1>7 DEF AnswerHot, TypeOK
  <2> QED
    BY <1>7, <2>1, <2>2, <2>3 DEF AnswerHot, TypeOK
<1>8. ASSUME NEW n \in QuestionNums, AnswerCold(t, n) PROVE TypeOK'
  <2>1. status' \in [Tasks -> Status]
    BY <1>8 DEF AnswerCold, TypeOK, Status
  <2>2. question' \in [Tasks -> [QuestionNums -> {"none", "pending", "answered"}]]
    BY <1>8 DEF AnswerCold, TypeOK
  <2> QED
    BY <1>8, <1>e, <2>1, <2>2 DEF AnswerCold, TypeOK
<1> QED
  BY <1>1, <1>2, <1>3, <1>4, <1>5, <1>6, <1>7, <1>8 DEF Request

LEMMA TypeTimer ==
  ASSUME TypeOK, NEW t \in Tasks, TimerFires(t)
  PROVE  TypeOK'
<1>1. ASSUME Execute(run, micro, <<t>>)
      PROVE  run' \in [Runs -> RunState] /\ micro' \in Seq(Runs)
  <2>1. <<t>> \in Seq(Tasks)
    OBVIOUS
  <2> QED
    BY <1>1, <2>1, ExecuteType, ConstantsAssumption DEF TypeOK
<1>2. CASE ResumeFromRateLimit(t)
  <2>1. status' \in [Tasks -> Status] /\ resumeAt' \subseteq Tasks /\ timers' \subseteq Tasks
    BY <1>2 DEF ResumeFromRateLimit, TypeOK, Status
  <2>2. run' \in [Runs -> RunState] /\ micro' \in Seq(Runs)
    BY <1>1, <1>2 DEF ResumeFromRateLimit, TypeOK
  <2> QED
    BY <1>2, <2>1, <2>2 DEF ResumeFromRateLimit, TypeOK
<1>3. CASE RunDeferred(t)
  BY <1>1, <1>3 DEF RunDeferred, TypeOK, dbVars
<1> QED
  BY <1>2, <1>3 DEF TimerFires

LEMMA TypeDaemon ==
  ASSUME TypeOK, CancelAll \/ Exit \/ Boot
  PROVE  TypeOK'
<1> USE ConstantsAssumption
<1>1. CASE CancelAll
  <2>1. run' \in [Runs -> RunState]
    BY <1>1, AbortedType DEF CancelAll, TypeOK, AbortReasons
  <2> QED
    BY <1>1, <2>1 DEF CancelAll, TypeOK, dbVars
<1>2. CASE Exit
  BY <1>2, IdleRunType DEF Exit, TypeOK, dbVars
<1>3. CASE Boot
  <2>1. Stale \subseteq Tasks
    BY DEF Stale
  <2>2. run' \in [Runs -> RunState] /\ micro' \in Seq(Runs)
    BY <1>3, <2>1, OrderingsAreSeqs, ExecuteType DEF Boot, TypeOK
  <2>3. status' \in [Tasks -> Status]
    BY <1>3 DEF Boot, TypeOK, Status
  <2> QED
    BY <1>3, <2>2, <2>3 DEF Boot, TypeOK
<1> QED
  BY <1>1, <1>2, <1>3

(* Every reachable state of the executor is well typed. *)
THEOREM TypeCorrect == Spec => []TypeOK
<1>1. TypeOK /\ [Next]_vars => TypeOK'
  <2> SUFFICES ASSUME TypeOK, [Next]_vars PROVE TypeOK'
    OBVIOUS
  <2>1. CASE UNCHANGED vars
    BY <2>1 DEF TypeOK, vars, dbVars, memVars
  <2>2. CASE Next
    BY <2>2, TypeRunStep, TypeSessionStep, TypeRequest, TypeTimer, TypeDaemon
    DEF Next
  <2> QED
    BY <2>1, <2>2
<1> QED
  BY <1>1, TypeInit, PTL DEF Spec

-----------------------------------------------------------------------------
(* The discipline of runs and slots.  SingleRun, SessionsReachable and      *)
(* KeyCapacity are not inductive: execute() has no guard, so what keeps two  *)
(* runs of a task apart is that each caller of execute() finds the task in   *)
(* a state in which nobody else is about to run it.  The parts below say     *)
(* where each task can be.                                                   *)

First(t) == <<t, 1>>
Phase(t) == run[First(t)].phase

(* The promise job queue holds exactly the runs that wait for a turn. *)
MicroExact ==
  /\ IsInjective(micro)
  /\ ToSet(micro) = {r \in Runs : run[r].phase \in MicroPhases}

(* The second attempt number is never needed. *)
OneAttempt == \A t \in Tasks : run[<<t, 2>>].phase = "idle"

(* A task in the queue or in a retry timer is nowhere else and not started. *)
Parked == ToSet(queue) \cup deferred
QueueDiscipline ==
  /\ IsInjective(queue)
  /\ ToSet(queue) \cap deferred = {}
  /\ \A t \in Parked : Phase(t) = "idle" /\ status[t] \in {"queued", "cancelled"}

(* What the row can say at each stage of its run. *)
StatusIn(p) ==
  CASE p \in {"select", "enqueue", "nokey", "start"} -> {"queued", "cancelled"}
    [] p \in {"prepfail", "prepare"} -> {"running", "cancelled", "done"}
    [] p = "live" -> {"running", "waiting_for_input", "cancelled", "done"}
    [] p = "end"  -> Status \ {"absent", "queued"}
    [] OTHER      -> Status
PhaseStatus == \A t \in Tasks : status[t] \in StatusIn(Phase(t))

(* A session is registered exactly while its run awaits it. *)
SessionsExact ==
  \A t \in Tasks : sessions[t] = IF Phase(t) = "live" THEN First(t) ELSE NoRun

(* Nothing of a daemon survives it but the database. *)
DownIsEmpty ==
  daemon = "down" =>
    /\ micro = <<>> /\ queue = <<>> /\ deferred = {}
    /\ \A t \in Tasks : Phase(t) = "idle"

Discipline ==
  /\ TypeOK /\ MicroExact /\ OneAttempt /\ QueueDiscipline /\ PhaseStatus
  /\ SessionsExact /\ DownIsEmpty

-----------------------------------------------------------------------------
(* Injective sequences *)

LEMMA EmptyFacts ==
  /\ IsInjective(<<>>) /\ ToSet(<<>>) = {}
  /\ \A S : \A s \in Seq(S) : ToSet(s) = {} => s = <<>>
<1>1. IsInjective(<<>>) /\ ToSet(<<>>) = {}
  BY DEF IsInjective, ToSet
<1>2. ASSUME NEW S, NEW s \in Seq(S), s # <<>> PROVE ToSet(s) # {}
  <2>1. Len(s) \in Nat /\ Len(s) # 0 /\ DOMAIN s = 1..Len(s)
    BY <1>2, EmptySeq, LenProperties
  <2>2. 1 \in DOMAIN s
    BY <2>1
  <2> QED
    BY <2>2 DEF ToSet
<1> QED
  BY <1>1, <1>2

LEMMA SingletonFacts ==
  ASSUME NEW x
  PROVE  IsInjective(<<x>>) /\ ToSet(<<x>>) = {x}
BY DEF IsInjective, ToSet

LEMMA ConcatFacts ==
  ASSUME NEW S, NEW s \in Seq(S), NEW q \in Seq(S),
         IsInjective(s), IsInjective(q), ToSet(s) \cap ToSet(q) = {}
  PROVE  /\ s \o q \in Seq(S) /\ IsInjective(s \o q)
         /\ ToSet(s \o q) = ToSet(s) \cup ToSet(q)
<1> DEFINE c == s \o q
<1>1. /\ c \in Seq(S) /\ Len(c) = Len(s) + Len(q)
      /\ \A i \in 1..(Len(s) + Len(q)) :
           c[i] = IF i <= Len(s) THEN s[i] ELSE q[i - Len(s)]
  BY ConcatProperties
<1> HIDE DEF c
<1>2. /\ DOMAIN s = 1..Len(s) /\ DOMAIN q = 1..Len(q) /\ Len(s) \in Nat
      /\ DOMAIN c = 1..(Len(s) + Len(q)) /\ Len(q) \in Nat
  BY <1>1
<1>3. ASSUME NEW i \in 1..Len(s) PROVE i \in 1..(Len(s) + Len(q)) /\ c[i] = s[i]
  BY <1>1, <1>2
<1>4. ASSUME NEW i \in 1..Len(q)
      PROVE  Len(s) + i \in 1..(Len(s) + Len(q)) /\ c[Len(s) + i] = q[i]
  <2>1. /\ Len(s) + i \in 1..(Len(s) + Len(q)) /\ ~(Len(s) + i <= Len(s))
        /\ (Len(s) + i) - Len(s) = i
    BY <1>2
  <2> QED
    BY <1>1, <2>1
<1>5. ASSUME NEW i \in 1..(Len(s) + Len(q))
      PROVE  \/ i \in 1..Len(s)
             \/ \E j \in 1..Len(q) : i = Len(s) + j
  <2>1. CASE i <= Len(s)
    BY <1>2, <2>1
  <2>2. CASE ~(i <= Len(s))
    <3>1. i - Len(s) \in 1..Len(q) /\ i = Len(s) + (i - Len(s))
      BY <1>2, <2>2
    <3> QED
      BY <3>1
  <2> QED
    BY <2>1, <2>2
<1>6. ToSet(c) = ToSet(s) \cup ToSet(q)
  <2>1. ToSet(c) \subseteq ToSet(s) \cup ToSet(q)
    <3> SUFFICES ASSUME NEW i \in 1..(Len(s) + Len(q))
                 PROVE  c[i] \in ToSet(s) \cup ToSet(q)
      BY <1>2 DEF ToSet
    <3>1. CASE i \in 1..Len(s)
      BY <1>2, <1>3, <3>1 DEF ToSet
    <3>2. ASSUME NEW j \in 1..Len(q), i = Len(s) + j
          PROVE  c[i] \in ToSet(q)
      BY <1>2, <1>4, <3>2 DEF ToSet
    <3> QED
      BY <1>5, <3>1, <3>2
  <2>2. ToSet(s) \subseteq ToSet(c)
    BY <1>2, <1>3 DEF ToSet
  <2>3. ToSet(q) \subseteq ToSet(c)
    BY <1>2, <1>4 DEF ToSet
  <2> QED
    BY <2>1, <2>2, <2>3
<1>7. IsInjective(c)
  <2> SUFFICES ASSUME NEW i \in DOMAIN c, NEW j \in DOMAIN c, c[i] = c[j]
               PROVE  i = j
    BY DEF IsInjective
  <2>1. CASE i \in 1..Len(s) /\ j \in 1..Len(s)
    BY <1>2, <1>3, <2>1 DEF IsInjective
  <2>2. ASSUME NEW a \in 1..Len(q), NEW b \in 1..Len(q), i = Len(s) + a, j = Len(s) + b
        PROVE  i = j
    BY <1>2, <1>4, <2>2 DEF IsInjective
  <2>3. ASSUME NEW b \in 1..Len(q), i \in 1..Len(s), j = Len(s) + b
        PROVE  FALSE
    BY <1>2, <1>3, <1>4, <2>3 DEF ToSet
  <2>4. ASSUME NEW a \in 1..Len(q), j \in 1..Len(s), i = Len(s) + a
        PROVE  FALSE
    BY <1>2, <1>3, <1>4, <2>4 DEF ToSet
  <2> QED
    BY <1>2, <1>5, <2>1, <2>2, <2>3, <2>4
<1> QED
  BY <1>1, <1>6, <1>7 DEF c

LEMMA AppendFacts ==
  ASSUME NEW S, NEW s \in Seq(S), NEW x \in S, IsInjective(s), x \notin ToSet(s)
  PROVE  /\ Append(s, x) \in Seq(S) /\ IsInjective(Append(s, x))
         /\ ToSet(Append(s, x)) = ToSet(s) \cup {x}
<1> DEFINE u == <<x>>
<1>1. Append(s, x) = s \o u
  BY AppendIsConcat
<1>2. u \in Seq(S) /\ IsInjective(u) /\ ToSet(u) = {x}
  BY SingletonFacts
<1> HIDE DEF u
<1>3. ToSet(s) \cap ToSet(u) = {}
  BY <1>2
<1>4. s \o u \in Seq(S) /\ IsInjective(s \o u) /\ ToSet(s \o u) = ToSet(s) \cup ToSet(u)
  BY <1>2, <1>3, ConcatFacts
<1> QED
  BY <1>1, <1>2, <1>4

(* A continuation taken from the promise job queue is no longer in it. *)
LEMMA TailFacts ==
  ASSUME NEW S, NEW s \in Seq(S), s # <<>>, IsInjective(s)
  PROVE  /\ Head(s) \in S
         /\ Tail(s) \in Seq(S) /\ IsInjective(Tail(s))
         /\ ToSet(Tail(s)) = ToSet(s) \ {Head(s)}
         /\ Head(s) \in ToSet(s)
<1> DEFINE q == Tail(s)
<1>1. /\ Head(s) = s[1] /\ Len(s) \in Nat /\ Len(s) > 0
      /\ q \in Seq(S) /\ Len(q) = Len(s) - 1
      /\ \A i \in 1..Len(q) : q[i] = s[i + 1]
  BY HeadTailProperties
<1> HIDE DEF q
<1>2. DOMAIN s = 1..Len(s) /\ DOMAIN q = 1..(Len(s) - 1) /\ 1 \in 1..Len(s)
  BY <1>1
<1>3. ASSUME NEW i \in 1..(Len(s) - 1)
      PROVE  i + 1 \in 1..Len(s) /\ i + 1 # 1 /\ q[i] = s[i + 1]
  BY <1>1, <1>2
<1>4. ASSUME NEW i \in 1..Len(s), i # 1
      PROVE  i - 1 \in 1..(Len(s) - 1) /\ q[i - 1] = s[i]
  <2>1. i - 1 \in 1..(Len(s) - 1) /\ (i - 1) + 1 = i
    BY <1>1, <1>4
  <2> QED
    BY <1>1, <2>1
<1>5. IsInjective(q)
  BY <1>2, <1>3 DEF IsInjective
<1>6. ToSet(q) \subseteq ToSet(s) \ {s[1]}
  BY <1>2, <1>3 DEF IsInjective, ToSet
<1>7. ToSet(s) \ {s[1]} \subseteq ToSet(q)
  BY <1>2, <1>4 DEF ToSet
<1>8. s[1] \in S /\ s[1] \in ToSet(s)
  BY <1>2 DEF ToSet
<1> QED
  BY <1>1, <1>5, <1>6, <1>7, <1>8 DEF q

-----------------------------------------------------------------------------
(* How runs move *)

(* An active run is the first attempt of its task. *)
LEMMA ActiveIsFirst ==
  ASSUME OneAttempt, NEW r \in Runs, run[r].phase # "idle"
  PROVE  Task(r) \in Tasks /\ r = First(Task(r))
BY DEF OneAttempt, Runs, Task, First

LEMMA FirstIsRun ==
  ASSUME NEW t \in Tasks
  PROVE  First(t) \in Runs /\ Task(First(t)) = t /\ <<t, 2>> \in Runs /\ First(t) # <<t, 2>>
BY DEF First, Runs, Task

(* One run changes its state and no other does. *)
LEMMA OneMoves ==
  ASSUME TypeOK, OneAttempt, NEW t \in Tasks, NEW s,
         run' = [run EXCEPT ![First(t)] = s]
  PROVE  /\ OneAttempt'
         /\ \A u \in Tasks : /\ run'[First(u)] = IF u = t THEN s ELSE run[First(u)]
                             /\ Phase(u)' = IF u = t THEN s.phase ELSE Phase(u)
<1>1. \A u \in Tasks : First(u) \in Runs /\ <<u, 2>> \in Runs
  BY FirstIsRun
<1>2. \A u \in Tasks : First(u) = First(t) <=> u = t
  BY DEF First
<1>3. \A u \in Tasks : <<u, 2>> # First(t)
  BY DEF First
<1>4. \A r \in Runs : run'[r] = IF r = First(t) THEN s ELSE run[r]
  BY <1>1 DEF TypeOK
<1>5. OneAttempt'
  BY <1>1, <1>3, <1>4 DEF OneAttempt
<1>6. \A u \in Tasks : run'[First(u)] = IF u = t THEN s ELSE run[First(u)]
  BY <1>1, <1>2, <1>4
<1>7. ASSUME NEW u \in Tasks
      PROVE  Phase(u)' = IF u = t THEN s.phase ELSE Phase(u)
  <2>1. CASE u = t
    BY <1>6, <2>1 DEF Phase, First
  <2>2. CASE u # t
    BY <1>6, <2>2 DEF Phase, First
  <2> QED
    BY <2>1, <2>2
<1> QED
  BY <1>5, <1>6, <1>7

(* The promise job queue when the run r moves to phase p. *)
MicroFollows(r, p) ==
  \/ /\ micro # <<>> /\ Head(micro) = r
     /\ \/ p \in MicroPhases /\ micro' = Append(Tail(micro), r)
        \/ p \notin MicroPhases /\ micro' = Tail(micro)
  \/ micro = <<>> /\ p \in MicroPhases /\ micro' = <<r>>
  \/ /\ micro' = micro
     /\ run[r].phase \in MicroPhases <=> p \in MicroPhases

(* The queue and the retry timers when the run of t moves to phase p. *)
ParkedStay(t, p) ==
  /\ IsInjective(queue') /\ ToSet(queue') \cap deferred' = {}
  /\ \A u \in Parked' : /\ u # t => Phase(u) = "idle"
                        /\ u = t => p = "idle"
                        /\ status'[u] \in {"queued", "cancelled"}

(* The rows and sessions of the other tasks. *)
OthersStay(t) ==
  \A u \in Tasks \ {t} : /\ status'[u] # status[u] => Phase(u) = "idle"
                         /\ sessions'[u] = sessions[u]

(* The promise job queue follows the phase of the run that moves. *)
LEMMA MicroMoves ==
  ASSUME TypeOK, MicroExact, OneAttempt, NEW t \in Tasks, NEW s \in RunState,
         run' = [run EXCEPT ![First(t)] = s],
         MicroFollows(First(t), s.phase)
  PROVE  MicroExact'
<1> DEFINE r == First(t)
           W == {x \in Runs : run[x].phase \in MicroPhases}
<1>1. r \in Runs
  BY FirstIsRun
<1>2. \A x \in Runs : run'[x] = IF x = r THEN s ELSE run[x]
  BY <1>1 DEF TypeOK
<1>3. {x \in Runs : run'[x].phase \in MicroPhases}
        = IF s.phase \in MicroPhases THEN W \cup {r} ELSE W \ {r}
  BY <1>1, <1>2
<1>4. micro \in Seq(Runs) /\ IsInjective(micro) /\ ToSet(micro) = W
  BY DEF MicroExact, TypeOK
<1> HIDE DEF r, W
<1>5. CASE micro # <<>> /\ Head(micro) = r
  <2>1. /\ Tail(micro) \in Seq(Runs) /\ IsInjective(Tail(micro))
        /\ ToSet(Tail(micro)) = W \ {r}
    BY <1>4, <1>5, TailFacts
  <2>2. CASE s.phase \in MicroPhases /\ micro' = Append(Tail(micro), r)
    <3> DEFINE q == Tail(micro)
    <3>a. q \in Seq(Runs) /\ IsInjective(q) /\ ToSet(q) = W \ {r} /\ r \notin ToSet(q)
      BY <2>1
    <3>b. micro' = Append(q, r)
      BY <2>2
    <3> HIDE DEF q
    <3>1. IsInjective(micro') /\ ToSet(micro') = (W \ {r}) \cup {r}
      BY <1>1, <3>a, <3>b, AppendFacts
    <3> QED
      BY <1>3, <2>2, <3>1 DEF MicroExact
  <2>3. CASE s.phase \notin MicroPhases /\ micro' = Tail(micro)
    BY <1>3, <2>1, <2>3 DEF MicroExact
  <2>4. CASE micro' = micro /\ (run[r].phase \in MicroPhases <=> s.phase \in MicroPhases)
    BY <1>1, <1>3, <1>4, <2>4 DEF MicroExact, W
  <2> QED
    BY <1>5, <2>2, <2>3, <2>4 DEF r, MicroFollows
<1>6. CASE micro = <<>> /\ s.phase \in MicroPhases /\ micro' = <<r>>
  <2>1. W = {}
    BY <1>4, <1>6, EmptyFacts
  <2>2. IsInjective(micro') /\ ToSet(micro') = {r}
    BY <1>6, SingletonFacts
  <2> QED
    BY <1>3, <1>6, <2>1, <2>2 DEF MicroExact
<1>7. CASE micro' = micro /\ (run[r].phase \in MicroPhases <=> s.phase \in MicroPhases)
  BY <1>1, <1>3, <1>4, <1>7 DEF MicroExact, W
<1> QED
  BY <1>5, <1>6, <1>7 DEF r, MicroFollows

(* execute() on tasks nobody runs starts the first attempt of each.         *)
LEMMA ExecuteFacts ==
  ASSUME NEW rn \in [Runs -> RunState], NEW mq \in Seq(Runs), NEW ts \in Seq(Tasks),
         IsInjective(ts), IsInjective(mq),
         ToSet(mq) = {r \in Runs : rn[r].phase \in MicroPhases},
         \A t \in Tasks : rn[<<t, 2>>].phase = "idle",
         \A t \in ToSet(ts) : rn[First(t)].phase = "idle",
         Execute(rn, mq, ts)
  PROVE  /\ MicroExact' /\ OneAttempt'
         /\ \A t \in Tasks :
              run'[First(t)] = IF t \in ToSet(ts)
                               THEN [IdleRun EXCEPT !.phase = "select"]
                               ELSE rn[First(t)]
<1> DEFINE S == [IdleRun EXCEPT !.phase = "select"]
           q == [i \in DOMAIN ts |-> Fresh(rn, ts[i])]
           New == {First(t) : t \in ToSet(ts)}
<1>1. DOMAIN ts = 1..Len(ts) /\ Len(ts) \in Nat /\ \A i \in DOMAIN ts : ts[i] \in Tasks
  OBVIOUS
<1>2. \A i \in DOMAIN ts : Fresh(rn, ts[i]) = First(ts[i])
  BY DEF ToSet, Fresh, First
<1>3. S.phase = "select"
  BY DEF IdleRun
<1>4. \A i \in DOMAIN ts : First(ts[i]) \in Runs
  BY <1>1, FirstIsRun
<1>5. q \in Seq(Runs) /\ DOMAIN q = DOMAIN ts /\ \A i \in DOMAIN ts : q[i] = First(ts[i])
  BY <1>1, <1>2, <1>4
<1>6. micro' = mq \o q /\ run' = [r \in Runs |-> IF \E i \in DOMAIN ts : r = Fresh(rn, ts[i])
                                                   THEN S ELSE rn[r]]
  BY DEF Execute
<1> HIDE DEF S, q
<1>7. ToSet(q) = New /\ IsInjective(q)
  <2>1. ToSet(q) = New
    BY <1>5 DEF ToSet
  <2>2. IsInjective(q)
    BY <1>5 DEF IsInjective, First
  <2> QED
    BY <2>1, <2>2
<1>8. \A r \in Runs : run'[r] = IF r \in New THEN S ELSE rn[r]
  BY <1>2, <1>6 DEF ToSet
<1>9. New \subseteq Runs /\ \A r \in New : rn[r].phase = "idle"
  BY <1>4 DEF ToSet
<1> HIDE DEF New
<1>10. MicroExact'
  <2>1. ToSet(mq) \cap New = {}
    BY <1>9 DEF MicroPhases
  <2>2. IsInjective(micro') /\ ToSet(micro') = ToSet(mq) \cup New
    BY <1>5, <1>6, <1>7, <2>1, ConcatFacts
  <2>3. {r \in Runs : run'[r].phase \in MicroPhases} = ToSet(mq) \cup New
    BY <1>3, <1>8, <1>9 DEF MicroPhases
  <2> QED
    BY <2>2, <2>3 DEF MicroExact
<1>11. \A t \in Tasks : First(t) \in New <=> t \in ToSet(ts)
  BY DEF New, First
<1>12. \A t \in Tasks : <<t, 2>> \notin New
  BY DEF New, First
<1>13. OneAttempt'
  BY <1>8, <1>12, FirstIsRun DEF OneAttempt
<1> QED
  BY <1>8, <1>10, <1>11, <1>13, FirstIsRun DEF S

-----------------------------------------------------------------------------
(* The discipline is kept *)

(* A step that changes one run, and other rows only where nobody runs them. *)
LEMMA OneTaskMoves ==
  ASSUME Discipline, TypeOK', NEW t \in Tasks, NEW s \in RunState,
         run' = [run EXCEPT ![First(t)] = s],
         MicroFollows(First(t), s.phase),
         ParkedStay(t, s.phase), OthersStay(t),
         status'[t] \in StatusIn(s.phase),
         sessions'[t] = IF s.phase = "live" THEN First(t) ELSE NoRun,
         daemon # "down", daemon' = daemon
  PROVE  Discipline'
<1>1. MicroExact'
  BY MicroMoves DEF Discipline
<1>2. /\ OneAttempt'
      /\ \A u \in Tasks : Phase(u)' = IF u = t THEN s.phase ELSE Phase(u)
  BY OneMoves DEF Discipline
<1>3. Parked' \subseteq Tasks
  BY DEF Parked, TypeOK, ToSet
<1>4. QueueDiscipline'
  <2>1. \A u \in Parked' : Phase(u)' = "idle"
    BY <1>2, <1>3 DEF ParkedStay
  <2> QED
    BY <2>1 DEF QueueDiscipline, ParkedStay
<1>5. PhaseStatus'
  <2> SUFFICES ASSUME NEW u \in Tasks PROVE status'[u] \in StatusIn(Phase(u)')
    BY DEF PhaseStatus, StatusIn
  <2>1. CASE u = t
    BY <1>2, <2>1
  <2>2. CASE u # t /\ status'[u] = status[u]
    BY <1>2, <2>2 DEF Discipline, PhaseStatus
  <2>3. CASE u # t /\ status'[u] # status[u]
    <3>1. Phase(u)' = "idle"
      BY <1>2, <2>3 DEF OthersStay
    <3>2. StatusIn("idle") = Status
      BY DEF StatusIn
    <3>3. status'[u] \in Status
      BY DEF TypeOK
    <3> QED
      BY <3>1, <3>2, <3>3
  <2> QED
    BY <2>1, <2>2, <2>3
<1>6. SessionsExact'
  <2> SUFFICES ASSUME NEW u \in Tasks
               PROVE  sessions'[u] = IF Phase(u)' = "live" THEN First(u) ELSE NoRun
    BY DEF SessionsExact, First
  <2>1. CASE u = t
    BY <1>2, <2>1
  <2>2. CASE u # t
    BY <1>2, <2>2 DEF Discipline, SessionsExact, OthersStay
  <2> QED
    BY <2>1, <2>2
<1>7. DownIsEmpty'
  BY DEF DownIsEmpty
<1> QED
  BY <1>1, <1>2, <1>4, <1>5, <1>6, <1>7 DEF Discipline

(* A step that calls execute() on one task that nobody is about to run. *)
LEMMA OneTaskStarts ==
  ASSUME Discipline, TypeOK', NEW t \in Tasks,
         Execute(run, micro, <<t>>), Phase(t) = "idle",
         queue' = queue, t \notin ToSet(queue),
         deferred' \subseteq deferred, t \notin deferred',
         status'[t] \in {"queued", "cancelled"},
         \A u \in Tasks \ {t} : status'[u] = status[u],
         sessions' = sessions, daemon # "down", daemon' = daemon
  PROVE  Discipline'
<1>1. ToSet(<<t>>) = {t} /\ IsInjective(<<t>>)
  BY SingletonFacts
<1>2. /\ MicroExact' /\ OneAttempt'
      /\ \A u \in Tasks : run'[First(u)] = IF u \in {t}
                                            THEN [IdleRun EXCEPT !.phase = "select"]
                                            ELSE run[First(u)]
  <2> DEFINE ts == <<t>>
  <2>1. ts \in Seq(Tasks) /\ ToSet(ts) = {t} /\ IsInjective(ts) /\ Execute(run, micro, ts)
    BY <1>1
  <2> HIDE DEF ts
  <2>2. \A u \in ToSet(ts) : run[First(u)].phase = "idle"
    BY <2>1 DEF Phase
  <2>3. /\ run \in [Runs -> RunState] /\ micro \in Seq(Runs) /\ IsInjective(micro)
        /\ ToSet(micro) = {r \in Runs : run[r].phase \in MicroPhases}
        /\ \A u \in Tasks : run[<<u, 2>>].phase = "idle"
    BY DEF Discipline, TypeOK, MicroExact, OneAttempt
  <2>4. /\ MicroExact' /\ OneAttempt'
        /\ \A u \in Tasks : run'[First(u)] = IF u \in ToSet(ts)
                                              THEN [IdleRun EXCEPT !.phase = "select"]
                                              ELSE run[First(u)]
    BY <2>1, <2>2, <2>3, ExecuteFacts, SMTT(30)
  <2> QED
    BY <2>1, <2>4
<1>3. ASSUME NEW u \in Tasks
      PROVE  Phase(u)' = IF u = t THEN "select" ELSE Phase(u)
  BY <1>2 DEF Phase, First, IdleRun
<1>4. QueueDiscipline'
  <2>1. Parked' \subseteq Parked \ {t} /\ Parked \subseteq Tasks
    BY DEF Parked, Discipline, TypeOK, ToSet
  <2>2. \A u \in Parked' : Phase(u)' = "idle" /\ status'[u] \in {"queued", "cancelled"}
    BY <1>3, <2>1 DEF Discipline, QueueDiscipline
  <2> QED
    BY <2>2 DEF Discipline, QueueDiscipline
<1>5. PhaseStatus'
  <2> SUFFICES ASSUME NEW u \in Tasks PROVE status'[u] \in StatusIn(Phase(u)')
    BY DEF PhaseStatus, StatusIn
  <2>1. CASE u = t
    BY <1>3, <2>1 DEF StatusIn
  <2>2. CASE u # t
    BY <1>3, <2>2 DEF Discipline, PhaseStatus
  <2> QED
    BY <2>1, <2>2
<1>6. SessionsExact'
  <2> SUFFICES ASSUME NEW u \in Tasks
               PROVE  sessions'[u] = IF Phase(u)' = "live" THEN First(u) ELSE NoRun
    BY DEF SessionsExact, First
  <2> QED
    BY <1>3 DEF Discipline, SessionsExact
<1>7. DownIsEmpty'
  BY DEF DownIsEmpty
<1> QED
  BY <1>2, <1>4, <1>5, <1>6, <1>7 DEF Discipline

(* What is known of the task whose run takes a step. *)
LEMMA Mover ==
  ASSUME Discipline, NEW r \in Runs, run[r].phase # "idle"
  PROVE  /\ Task(r) \in Tasks /\ r = First(Task(r))
         /\ IsInjective(queue) /\ ToSet(queue) \cap deferred = {}
         /\ Task(r) \notin Parked /\ Task(r) \notin ToSet(queue) /\ Parked \subseteq Tasks
         /\ \A u \in Parked : Phase(u) = "idle" /\ status[u] \in {"queued", "cancelled"}
         /\ status[Task(r)] \in StatusIn(run[r].phase)
         /\ sessions[Task(r)] = IF run[r].phase = "live" THEN r ELSE NoRun
         /\ run[r] \in RunState /\ micro \in Seq(Runs) /\ daemon # "down"
         /\ status \in [Tasks -> Status] /\ sessions \in [Tasks -> Runs \cup {NoRun}]
<1>1. Task(r) \in Tasks /\ r = First(Task(r))
  BY ActiveIsFirst DEF Discipline
<1>2. Phase(Task(r)) = run[r].phase
  BY <1>1 DEF Phase
<1>3. \A u \in Parked : Phase(u) = "idle" /\ status[u] \in {"queued", "cancelled"}
  BY DEF Discipline, QueueDiscipline
<1>4. Task(r) \notin Parked
  BY <1>2, <1>3
<1>5. Task(r) \notin ToSet(queue)
  BY <1>4 DEF Parked
<1>6. IsInjective(queue) /\ ToSet(queue) \cap deferred = {}
  BY DEF Discipline, QueueDiscipline
<1>7. status[Task(r)] \in StatusIn(run[r].phase)
  BY <1>1, <1>2 DEF Discipline, PhaseStatus
<1>8. sessions[Task(r)] = IF run[r].phase = "live" THEN r ELSE NoRun
  BY <1>1, <1>2 DEF Discipline, SessionsExact
<1>9. daemon # "down"
  BY <1>1, <1>2 DEF Discipline, DownIsEmpty
<1>10. Parked \subseteq Tasks
  BY DEF Parked, ToSet, Discipline, TypeOK
<1> QED
  BY <1>1, <1>3, <1>4, <1>5, <1>6, <1>7, <1>8, <1>9, <1>10 DEF Discipline, TypeOK

(* The run r changes its state, and with it at most the row and the         *)
(* sessions entry of its own task.                                          *)
LEMMA RunMoves ==
  ASSUME Discipline, TypeOK', NEW r \in Runs, run[r].phase # "idle",
         NEW s \in RunState, run' = [run EXCEPT ![r] = s],
         MicroFollows(r, s.phase),
         \E v : status' = [status EXCEPT ![Task(r)] = v] /\ v \in StatusIn(s.phase),
         \A u \in Tasks \ {Task(r)} : sessions'[u] = sessions[u],
         sessions'[Task(r)] = IF s.phase = "live" THEN r ELSE NoRun,
         UNCHANGED <<queue, deferred, daemon>>
  PROVE  Discipline'
<1>1. PICK t \in Tasks : t = Task(r) /\ r = First(t)
  BY Mover
<1>2. PICK v : status' = [status EXCEPT ![t] = v] /\ v \in StatusIn(s.phase)
  BY <1>1
<1>3. Parked' = Parked /\ Parked \subseteq Tasks /\ t \notin Parked
  BY <1>1, Mover DEF Parked
<1>4. status'[t] = v /\ \A u \in Tasks \ {t} : status'[u] = status[u]
  BY <1>1, <1>2, Mover
<1>5. ParkedStay(t, s.phase)
  BY <1>1, <1>3, <1>4, Mover DEF ParkedStay
<1>6. daemon # "down" /\ daemon' = daemon
  BY Mover
<1>7. /\ run' = [run EXCEPT ![First(t)] = s] /\ MicroFollows(First(t), s.phase)
      /\ sessions'[t] = IF s.phase = "live" THEN First(t) ELSE NoRun
      /\ status'[t] \in StatusIn(s.phase)
  BY <1>1, <1>2, <1>4
<1>8. OthersStay(t)
  BY <1>1, <1>4 DEF OthersStay
<1> QED
  BY <1>5, <1>6, <1>7, <1>8, OneTaskMoves

LEMMA SafeSelectKey ==
  ASSUME Discipline, TypeOK', NEW r \in Runs, SelectKey(r)
  PROVE  Discipline'
<1> DEFINE t == Task(r)
<1>1. run[r].phase = "select" /\ micro # <<>> /\ Head(micro) = r
  BY DEF SelectKey, Turn
<1>2. PICK s \in RunState : /\ run' = [run EXCEPT ![r] = s]
                           /\ s.phase \in {"select", "start", "nokey", "enqueue"}
  <2> DEFINE s == run'[r]
  <2>1. s \in RunState
    BY DEF TypeOK
  <2>2. run' = [run EXCEPT ![r] = s]
    BY DEF SelectKey, Discipline, TypeOK
  <2>3. run[r] \in RunState
    BY Mover, <1>1
  <2>4. s.phase \in {"select", "start", "nokey", "enqueue"}
    BY <1>1, <2>3 DEF SelectKey, Discipline, TypeOK, RunState
  <2> QED
    BY <2>1, <2>2, <2>4
<1>3. /\ micro' = Append(Tail(micro), r) /\ UNCHANGED <<status, sessions, queue, deferred, daemon>>
  BY DEF SelectKey, dbVars
<1>4. s.phase \in MicroPhases /\ s.phase # "live" /\ StatusIn(s.phase) = StatusIn("select")
  BY <1>2 DEF MicroPhases, StatusIn
<1>5. /\ MicroFollows(r, s.phase) /\ sessions'[t] = NoRun
      /\ status[t] \in StatusIn(s.phase) /\ status' = [status EXCEPT ![t] = status[t]]
  BY <1>1, <1>3, <1>4, Mover DEF MicroFollows
<1> QED
  BY <1>1, <1>2, <1>3, <1>4, <1>5, RunMoves

LEMMA SafeRunStep ==
  ASSUME Discipline, TypeOK', NEW r \in Runs, RunStep(r)
  PROVE  Discipline'
<1> DEFINE t == Task(r)
<1>1. CASE SelectKey(r)
  BY <1>1, SafeSelectKey
<1>2. CASE EnqueueTask(r)
  <2>1. /\ run[r].phase = "enqueue" /\ micro # <<>> /\ Head(micro) = r
        /\ run' = [run EXCEPT ![r] = IdleRun] /\ micro' = Tail(micro)
        /\ UNCHANGED <<status, sessions, deferred, daemon>>
    BY <1>2 DEF EnqueueTask, Turn, dbVars
  <2>2. t \in Tasks /\ t \notin ToSet(queue) /\ t \notin deferred /\ queue \in Seq(Tasks)
    BY <2>1, Mover DEF Parked, Discipline, TypeOK
  <2>3. queue' = Append(queue, t)
    BY <1>2, <2>2 DEF EnqueueTask
  <2>4. IsInjective(queue)
    BY <2>1, Mover
  <2>5. IsInjective(queue') /\ ToSet(queue') = ToSet(queue) \cup {t}
    BY <2>2, <2>3, <2>4, AppendFacts
  <2>6. Parked' = Parked \cup {t} /\ ToSet(queue') \cap deferred' = {}
    BY <2>1, <2>2, <2>5, Mover DEF Parked
  <2>7. IdleRun.phase = "idle" /\ IdleRun \in RunState
    BY IdleRunType DEF IdleRun
  <2>8. status[t] \in {"queued", "cancelled"} /\ StatusIn("idle") = Status
    BY <2>1, Mover DEF StatusIn
  <2>9. "idle" \notin MicroPhases
    BY DEF MicroPhases
  <2>10. /\ r = First(t) /\ daemon # "down" /\ status'[t] \in StatusIn("idle")
         /\ sessions'[t] = NoRun /\ OthersStay(t)
    BY <2>1, <2>8, Mover DEF Status, OthersStay
  <2>11. ParkedStay(t, "idle")
    BY <2>1, <2>5, <2>6, <2>8, Mover DEF ParkedStay
  <2>12. /\ run' = [run EXCEPT ![First(t)] = IdleRun]
         /\ MicroFollows(First(t), "idle")
    BY <2>1, <2>9, <2>10 DEF MicroFollows
  <2> QED
    BY <2>1, <2>2, <2>7, <2>10, <2>11, <2>12, OneTaskMoves
<1>3. CASE FailBeforeStart(r)
  <2>1. /\ run[r].phase = "nokey" /\ micro # <<>> /\ Head(micro) = r
        /\ run' = [run EXCEPT ![r] = IdleRun] /\ micro' = Tail(micro)
        /\ status' = [status EXCEPT ![t] = "failed"]
        /\ UNCHANGED <<sessions, queue, deferred, daemon>>
    BY <1>3 DEF FailBeforeStart, Turn
  <2>2. IdleRun.phase = "idle" /\ IdleRun \in RunState /\ "idle" \notin MicroPhases
    BY IdleRunType DEF IdleRun, MicroPhases
  <2>3. "failed" \in StatusIn("idle") /\ sessions'[t] = NoRun
    BY <2>1, Mover DEF StatusIn, Status
  <2>4. MicroFollows(r, "idle") /\ sessions' = sessions
    BY <2>1, <2>2 DEF MicroFollows
  <2> QED
    BY <2>1, <2>2, <2>3, <2>4, RunMoves
<1>4. CASE StartRun(r)
  <2>1. /\ run[r].phase = "start" /\ micro # <<>> /\ Head(micro) = r
        /\ UNCHANGED <<sessions, queue, deferred, daemon>>
    BY <1>4 DEF StartRun, Turn
  <2>2. PICK p \in {"prepare", "prepfail", "end"}, v \in {"failed", "running"} :
          /\ run' = [run EXCEPT ![r] = [run[r] EXCEPT !.phase = p]]
          /\ status' = [status EXCEPT ![t] = v]
          /\ v = "failed" <=> p = "end"
          /\ \/ p = "prepare" /\ micro' = Tail(micro)
             \/ p # "prepare" /\ micro' = Append(Tail(micro), r)
    BY <1>4 DEF StartRun
  <2> DEFINE s == [run[r] EXCEPT !.phase = p]
  <2>3. s \in RunState /\ s.phase = p
    BY <2>1, Mover DEF RunState, Phases, MicroPhases
  <2>4. /\ p \in MicroPhases <=> p # "prepare"
        /\ p # "live" /\ v \in StatusIn(p)
    BY <2>2 DEF MicroPhases, StatusIn, Status
  <2>5. run' = [run EXCEPT ![r] = s]
    BY <2>2
  <2>6. sessions' = sessions /\ sessions'[t] = NoRun
    BY <2>1, Mover
  <2>7. MicroFollows(r, p)
    BY <2>1, <2>2, <2>4 DEF MicroFollows
  <2> HIDE DEF s
  <2> QED
    BY <2>1, <2>2, <2>3, <2>4, <2>5, <2>6, <2>7, RunMoves
<1>5. CASE PrepareFail(r)
  <2> DEFINE s == [run[r] EXCEPT !.phase = "end"]
  <2>1. /\ run[r].phase \in {"prepfail", "prepare"}
        /\ \/ micro # <<>> /\ Head(micro) = r /\ micro' = Append(Tail(micro), r)
           \/ micro = <<>> /\ micro' = <<r>>
        /\ run' = [run EXCEPT ![r] = s]
        /\ status' = [status EXCEPT ![t] = "failed"]
        /\ UNCHANGED <<sessions, queue, deferred, daemon>>
    BY <1>5 DEF PrepareFail, Turn, Serving
  <2>2. s \in RunState /\ s.phase = "end"
    BY <2>1, Mover DEF RunState, Phases, MicroPhases
  <2>3. "end" \in MicroPhases /\ "failed" \in StatusIn("end")
    BY DEF MicroPhases, StatusIn, Status
  <2>4. sessions' = sessions /\ sessions'[t] = NoRun
    BY <2>1, Mover
  <2>5. MicroFollows(r, "end")
    BY <2>1, <2>3 DEF MicroFollows
  <2> HIDE DEF s
  <2> QED
    BY <2>1, <2>2, <2>3, <2>4, <2>5, RunMoves
<1>6. CASE PrepareOk(r)
  <2> DEFINE s == [run[r] EXCEPT !.phase = "live"]
  <2>1. /\ run[r].phase = "prepare" /\ micro' = micro
        /\ run' = [run EXCEPT ![r] = s]
        /\ sessions' = [sessions EXCEPT ![t] = r]
        /\ UNCHANGED <<status, queue, deferred, daemon>>
    BY <1>6 DEF PrepareOk, Serving
  <2>2. s \in RunState /\ s.phase = "live"
    BY <2>1, Mover DEF RunState, Phases, MicroPhases
  <2>3. "live" \notin MicroPhases /\ "prepare" \notin MicroPhases
    BY DEF MicroPhases
  <2>4. status[t] \in StatusIn("live")
    BY <2>1, Mover DEF StatusIn
  <2>5. status' = [status EXCEPT ![t] = status[t]]
    BY <2>1, Mover
  <2>6. sessions'[t] = r /\ \A u \in Tasks \ {t} : sessions'[u] = sessions[u]
    BY <2>1, Mover
  <2>7. MicroFollows(r, "live")
    BY <2>1, <2>3 DEF MicroFollows
  <2> HIDE DEF s
  <2> QED
    BY <2>1, <2>2, <2>3, <2>4, <2>5, <2>6, <2>7, RunMoves
<1>7. CASE EndRun(r)
  <2> DEFINE rn == [run EXCEPT ![r] = IdleRun]
             mq == Tail(micro)
  <2>1. /\ run[r].phase = "end" /\ micro # <<>> /\ Head(micro) = r
        /\ queue' = <<>> /\ Execute(rn, mq, queue)
        /\ UNCHANGED <<status, sessions, deferred, daemon>>
    BY <1>7 DEF EndRun, Turn, dbVars
  <2>2. /\ t \in Tasks /\ r = First(t) /\ t \notin Parked /\ t \notin ToSet(queue)
        /\ IsInjective(queue) /\ ToSet(queue) \cap deferred = {}
        /\ sessions[t] = NoRun /\ daemon # "down"
    BY <2>1, Mover
  <2>3. /\ IsInjective(micro) /\ micro \in Seq(Runs) /\ queue \in Seq(Tasks)
        /\ ToSet(micro) = {x \in Runs : run[x].phase \in MicroPhases}
        /\ run \in [Runs -> RunState] /\ \A u \in Tasks : run[<<u, 2>>].phase = "idle"
    BY DEF Discipline, TypeOK, MicroExact, OneAttempt
  <2>4. /\ mq \in Seq(Runs) /\ IsInjective(mq)
        /\ ToSet(mq) = ToSet(micro) \ {r}
    BY <2>1, <2>3, TailFacts
  <2>5. /\ rn \in [Runs -> RunState]
        /\ \A x \in Runs : rn[x] = IF x = r THEN IdleRun ELSE run[x]
    BY <2>3, IdleRunType
  <2>6. IdleRun.phase = "idle" /\ "idle" \notin MicroPhases
    BY DEF IdleRun, MicroPhases
  <2> HIDE DEF rn, mq
  <2>7. ToSet(mq) = {x \in Runs : rn[x].phase \in MicroPhases}
    BY <2>3, <2>4, <2>5, <2>6
  <2>8. \A u \in Tasks : rn[<<u, 2>>].phase = "idle"
    BY <2>3, <2>5, <2>6, FirstIsRun
  <2>9. /\ ToSet(queue) \subseteq Tasks
        /\ \A u \in Tasks : rn[First(u)] = IF u = t THEN IdleRun ELSE run[First(u)]
    <3>1. ToSet(queue) \subseteq Tasks
      BY <2>3 DEF ToSet
    <3>2. \A u \in Tasks : First(u) = r <=> u = t
      BY <2>2 DEF First
    <3> QED
      BY <2>5, <3>1, <3>2, FirstIsRun
  <2>10. /\ \A u \in ToSet(queue) : rn[First(u)].phase = "idle"
         /\ \A u \in Parked : Phase(u) = "idle" /\ status[u] \in {"queued", "cancelled"}
    BY <2>2, <2>9 DEF Discipline, QueueDiscipline, Parked, Phase
  <2>11. /\ MicroExact' /\ OneAttempt'
         /\ \A u \in Tasks : run'[First(u)] = IF u \in ToSet(queue)
                                               THEN [IdleRun EXCEPT !.phase = "select"]
                                               ELSE rn[First(u)]
    <3>1. /\ rn \in [Runs -> RunState] /\ mq \in Seq(Runs) /\ queue \in Seq(Tasks)
          /\ IsInjective(queue) /\ IsInjective(mq)
      BY <2>2, <2>3, <2>4, <2>5
    <3>2. Execute(rn, mq, queue)
      BY <2>1
    <3>3. \A u \in ToSet(queue) : rn[First(u)].phase = "idle"
      BY <2>10
    <3> QED
      BY <2>7, <2>8, <3>1, <3>2, <3>3, ExecuteFacts
  <2>12. ASSUME NEW u \in Tasks
         PROVE  Phase(u)' = IF u \in ToSet(queue) THEN "select"
                            ELSE IF u = t THEN "idle" ELSE Phase(u)
    BY <2>2, <2>6, <2>9, <2>11 DEF Phase, First, IdleRun
  <2>13. ToSet(queue') = {} /\ IsInjective(queue')
    BY <2>1, EmptyFacts
  <2>14. QueueDiscipline'
    <3>1. Parked' = deferred /\ deferred \subseteq Parked /\ deferred \subseteq Tasks
      BY <2>1, <2>13 DEF Parked, Discipline, TypeOK
    <3>2. \A u \in Parked' : Phase(u)' = "idle" /\ status'[u] \in {"queued", "cancelled"}
      BY <2>1, <2>2, <2>10, <2>12, <3>1
    <3> QED
      BY <2>13, <3>2 DEF QueueDiscipline
  <2>15. PhaseStatus'
    <3> SUFFICES ASSUME NEW u \in Tasks PROVE status'[u] \in StatusIn(Phase(u)')
      BY DEF PhaseStatus, StatusIn
    <3>1. CASE u \in ToSet(queue)
      BY <2>1, <2>10, <2>12, <3>1 DEF Parked, StatusIn
    <3>2. CASE u = t
      BY <2>2, <2>12, <3>2 DEF StatusIn, TypeOK
    <3>3. CASE u \notin ToSet(queue) /\ u # t
      BY <2>1, <2>12, <3>3 DEF Discipline, PhaseStatus
    <3> QED
      BY <3>1, <3>2, <3>3
  <2>16. SessionsExact'
    <3> SUFFICES ASSUME NEW u \in Tasks
                 PROVE  sessions'[u] = IF Phase(u)' = "live" THEN First(u) ELSE NoRun
      BY DEF SessionsExact, First
    <3>1. CASE u \in ToSet(queue)
      BY <2>1, <2>10, <2>12, <3>1 DEF Parked, Discipline, SessionsExact
    <3>2. CASE u = t
      BY <2>1, <2>2, <2>12, <3>2
    <3>3. CASE u \notin ToSet(queue) /\ u # t
      BY <2>1, <2>12, <3>3 DEF Discipline, SessionsExact
    <3> QED
      BY <3>1, <3>2, <3>3
  <2>17. DownIsEmpty'
    BY <2>1, <2>2 DEF DownIsEmpty
  <2> QED
    BY <2>11, <2>14, <2>15, <2>16, <2>17 DEF Discipline
<1> QED
  BY <1>1, <1>2, <1>3, <1>4, <1>5, <1>6, <1>7 DEF RunStep

(* A session settles: the row, and at most one row that did not exist.      *)
LEMMA SafeSessionSettles ==
  ASSUME Discipline, TypeOK', NEW r \in Runs, SessionSettles(r)
  PROVE  Discipline'
<1> DEFINE t == Task(r)
           s == [run[r] EXCEPT !.phase = "end", !.open = {}]
<1>1. /\ run[r].phase = "live" /\ micro = <<>> /\ micro' = <<r>>
      /\ sessions' = [sessions EXCEPT ![t] = NoRun]
      /\ run' = [run EXCEPT ![r] = s]
      /\ UNCHANGED <<queue, daemon>>
  <2>1. Settle(r) /\ UNCHANGED <<queue, daemon>>
    BY DEF SessionSettles, SessionSucceeds, SessionRateLimited, SessionAborts, SessionFails
  <2>2. micro \in Seq(Runs) /\ micro = <<>>
    BY <2>1 DEF Settle, Serving, Discipline, TypeOK
  <2>3. run' = [run EXCEPT ![r].phase = "end", ![r].open = {}]
    BY <2>1 DEF Settle
  <2>4. run' = [run EXCEPT ![r] = s]
    BY <2>3 DEF Discipline, TypeOK
  <2>5. run[r].phase = "live" /\ micro' = <<r>> /\ sessions' = [sessions EXCEPT ![t] = NoRun]
    BY <2>1 DEF Settle
  <2> HIDE DEF s
  <2> QED
    BY <2>1, <2>2, <2>4, <2>5
<1>2. s \in RunState /\ s.phase = "end"
  <2>1. run[r] \in RunState /\ "end" \in Phases
    BY <1>1, Mover, PhaseNames
  <2>2. s \in RunState
    BY <2>1, SettledType
  <2>3. s.phase = "end"
    BY <2>1 DEF RunState
  <2> QED
    BY <2>2, <2>3
<1> HIDE DEF s
<1>3. /\ sessions'[t] = NoRun /\ \A u \in Tasks \ {t} : sessions'[u] = sessions[u]
      /\ MicroFollows(r, "end")
  BY <1>1, Mover DEF MicroFollows, MicroPhases
<1>4. /\ status[t] \in StatusIn("end") /\ "failed" \in StatusIn("end")
      /\ {"done", "pending_approval", "rate_limited", "timed_out", "cancelled"}
           \subseteq StatusIn("end")
  BY <1>1, Mover DEF StatusIn, Status
<1>5. CASE deferred' = deferred
  <2>1. \E v : status' = [status EXCEPT ![t] = v] /\ v \in StatusIn("end")
    <3>1. CASE SessionSucceeds(r)
      BY <1>4, <3>1 DEF SessionSucceeds
    <3>2. CASE SessionRateLimited(r)
      BY <1>4, <3>2 DEF SessionRateLimited
    <3>3. CASE SessionAborts(r)
      <4>1. CASE status' = status
        <5>1. status' = [status EXCEPT ![t] = status[t]]
          BY <1>1, <4>1, Mover
        <5> QED
          BY <1>4, <5>1
      <4>2. CASE status' # status
        BY <1>4, <3>3, <4>2 DEF SessionAborts, finalizeError
      <4> QED
        BY <4>1, <4>2
    <3>4. CASE SessionFails(r)
      <4>1. finalizeError(t, "failed")
        <5>1. ASSUME NEW u \in Tasks, status[u] = "absent", deferred' = deferred \cup {u}
              PROVE  FALSE
          BY <1>1, <1>5, <5>1, Mover DEF Parked
        <5> QED
          BY <3>4, <5>1 DEF SessionFails
      <4> QED
        BY <1>4, <4>1 DEF finalizeError
    <3> QED
      BY <3>1, <3>2, <3>3, <3>4 DEF SessionSettles
  <2> QED
    BY <1>1, <1>2, <1>3, <1>5, <2>1, RunMoves
<1>6. CASE deferred' # deferred
  <2>1. PICK u \in Tasks :
          /\ status[u] = "absent"
          /\ status' = [status EXCEPT ![t] = IF @ = "cancelled" THEN @ ELSE "failed",
                                      ![u] = "queued"]
          /\ deferred' = deferred \cup {u}
    BY <1>6 DEF SessionSettles, SessionSucceeds, SessionRateLimited, SessionAborts,
                SessionFails
  <2>2. u # t /\ u \notin Parked /\ u \notin ToSet(queue)
    BY <1>1, <2>1, Mover DEF StatusIn, Parked
  <2>3. Phase(u) = "idle"
    <3>1. status[u] \in StatusIn(Phase(u)) /\ Phase(u) \in Phases
      BY FirstIsRun DEF Discipline, PhaseStatus, TypeOK, RunState, Phase
    <3> QED
      BY <2>1, <3>1 DEF StatusIn, Phases, MicroPhases
  <2>4. /\ status'[t] \in StatusIn("end") /\ status'[u] = "queued"
        /\ \A x \in Tasks \ {t, u} : status'[x] = status[x]
    BY <1>1, <1>4, <2>1, <2>2, Mover
  <2>5. Parked' = Parked \cup {u} /\ ToSet(queue') \cap deferred' = {}
    BY <1>1, <2>1, <2>2, Mover DEF Parked
  <2>6. ParkedStay(t, "end")
    BY <1>1, <2>2, <2>3, <2>4, <2>5, Mover DEF ParkedStay
  <2>7. OthersStay(t)
    BY <1>3, <2>3, <2>4 DEF OthersStay
  <2>8. /\ t \in Tasks /\ r = First(t) /\ daemon # "down" /\ daemon' = daemon
    BY <1>1, Mover
  <2> QED
    BY <1>1, <1>2, <1>3, <2>4, <2>6, <2>7, <2>8, OneTaskMoves
<1> QED
  BY <1>5, <1>6

LEMMA SafeSessionStep ==
  ASSUME Discipline, TypeOK', NEW r \in Runs, SessionStep(r)
  PROVE  Discipline'
<1> DEFINE t == Task(r)
<1>1. CASE SessionSettles(r)
  BY <1>1, SafeSessionSettles
<1>2. CASE SessionTimesOut(r) \/ Ask(r)
  <2>1. /\ run[r].phase = "live"
        /\ UNCHANGED <<micro, sessions, queue, deferred, daemon>>
    BY <1>2 DEF SessionTimesOut, Ask, dbVars
  <2>2. PICK s \in RunState : run' = [run EXCEPT ![r] = s] /\ s.phase = "live"
    <3> DEFINE s == run'[r]
    <3>1. s \in RunState
      BY DEF TypeOK
    <3>2. run' = [run EXCEPT ![r] = s]
      BY <1>2 DEF SessionTimesOut, Ask, Discipline, TypeOK
    <3>3. run[r] \in RunState
      BY <2>1, Mover
    <3>4. s.phase = "live"
      <4>1. CASE SessionTimesOut(r)
        <5>1. s = Aborted(run[r], "timeout")
          BY <4>1 DEF SessionTimesOut, Discipline, TypeOK
        <5> QED
          BY <2>1, <3>3, <5>1 DEF Aborted, RunState
      <4>2. CASE Ask(r)
        <5>1. \E n, o : s = [run[r] EXCEPT !.asked = n, !.open = o]
          BY <4>2 DEF Ask, Discipline, TypeOK
        <5> QED
          BY <2>1, <3>3, <5>1 DEF RunState
      <4> QED
        BY <1>2, <4>1, <4>2
    <3> QED
      BY <3>1, <3>2, <3>4
  <2>3. \E v : status' = [status EXCEPT ![t] = v] /\ v \in StatusIn("live")
    <3>1. status[t] \in StatusIn("live") /\ "waiting_for_input" \in StatusIn("live")
      BY <2>1, Mover DEF StatusIn
    <3>2. CASE status' = status
      <4>1. status' = [status EXCEPT ![t] = status[t]]
        BY <2>1, <3>2, Mover
      <4> QED
        BY <3>1, <4>1
    <3>3. CASE status' # status
      BY <1>2, <3>1, <3>3 DEF SessionTimesOut, Ask, dbVars
    <3> QED
      BY <3>2, <3>3
  <2>4. MicroFollows(r, "live") /\ sessions'[t] = r
    BY <2>1, Mover DEF MicroFollows
  <2> QED
    BY <2>1, <2>2, <2>3, <2>4, RunMoves
<1> QED
  BY <1>1, <1>2 DEF SessionStep

(* Requests and timers that start a run find the task in nobody's hands.    *)
LEMMA SafeStarts ==
  ASSUME Discipline, TypeOK', NEW t \in Tasks,
         \/ Create(t) \/ \E u \in Tasks : Rerun(u, t)
         \/ \E n \in QuestionNums : AnswerCold(t, n)
         \/ ResumeFromRateLimit(t) /\ status[t] = "rate_limited"
         \/ RunDeferred(t)
  PROVE  Discipline'
<1>1. /\ Execute(run, micro, <<t>>) /\ daemon # "down"
      /\ UNCHANGED <<sessions, queue, daemon>>
  BY DEF Create, Rerun, AnswerCold, ResumeFromRateLimit, RunDeferred, Serving
<1>2. /\ status \in [Tasks -> Status] /\ Phase(t) \in Phases
      /\ status[t] \in StatusIn(Phase(t)) /\ micro \in Seq(Runs)
  BY FirstIsRun DEF Discipline, TypeOK, PhaseStatus, Phase, RunState
<1>3. \A u \in Parked : Phase(u) = "idle" /\ status[u] \in {"queued", "cancelled"}
  BY DEF Discipline, QueueDiscipline
<1>4. CASE RunDeferred(t)
  <2>1. /\ status' = status /\ t \in deferred /\ deferred' = deferred \ {t}
    BY <1>4 DEF RunDeferred, dbVars
  <2>2. t \in Parked /\ t \notin ToSet(queue)
    BY <2>1 DEF Parked, Discipline, QueueDiscipline
  <2> QED
    BY <1>1, <1>2, <1>3, <2>1, <2>2, OneTaskStarts
<1>5. CASE ~RunDeferred(t)
  <2>1. /\ status[t] \in {"absent", "waiting_for_input", "rate_limited"}
        /\ status' = [status EXCEPT ![t] = "queued"] /\ deferred' = deferred
        /\ status[t] = "waiting_for_input" => sessions[t] = NoRun
    BY <1>5 DEF Create, Rerun, AnswerCold, ResumeFromRateLimit
  <2>2. t \notin Parked /\ t \notin ToSet(queue) /\ t \notin deferred
    <3>1. t \notin Parked
      BY <1>3, <2>1
    <3> QED
      BY <3>1 DEF Parked
  <2>3. Phase(t) = "live" => sessions[t] = First(t) /\ First(t) # NoRun
    BY FirstIsRun, ConstantsAssumption DEF Discipline, SessionsExact, Runs
  <2>4. Phase(t) \in {"idle", "end"}
    BY <1>2, <2>1, <2>3 DEF StatusIn, Phases, MicroPhases
  <2>5. Phase(t) # "end"
    <3>1. CASE micro = <<>>
      <4>1. ToSet(micro) = {}
        BY <3>1, EmptyFacts
      <4>2. ToSet(micro) = {r \in Runs : run[r].phase \in MicroPhases}
        BY DEF Discipline, MicroExact
      <4> QED
        BY <4>1, <4>2, FirstIsRun DEF Phase, MicroPhases
    <3>2. CASE micro # <<>>
      BY <1>5, <3>2 DEF Create, Rerun, AnswerCold, ResumeFromRateLimit, Serving
    <3> QED
      BY <3>1, <3>2
  <2>6. status'[t] = "queued" /\ \A u \in Tasks \ {t} : status'[u] = status[u]
    BY <1>2, <2>1
  <2> QED
    BY <1>1, <2>1, <2>2, <2>4, <2>5, <2>6, OneTaskStarts
<1> QED
  BY <1>4, <1>5

(* Steps that leave every run in its phase and touch the row of t alone.    *)
LEMMA PhasesStay ==
  ASSUME Discipline, TypeOK', NEW t \in Tasks, NEW s \in RunState,
         run' = [run EXCEPT ![First(t)] = s], s.phase = Phase(t),
         UNCHANGED <<micro, sessions, deferred, daemon>>, daemon # "down",
         \E v : status' = [status EXCEPT ![t] = v] /\ v \in StatusIn(Phase(t)),
         \/ queue' = queue /\ t \notin Parked
         \/ queue' = queue /\ status'[t] = "cancelled"
         \/ queue' = Dequeued(queue, t) /\ status'[t] = "cancelled"
  PROVE  Discipline'
<1>1. /\ status \in [Tasks -> Status] /\ queue \in Seq(Tasks) /\ Parked \subseteq Tasks
      /\ sessions[t] = IF Phase(t) = "live" THEN First(t) ELSE NoRun
  BY DEF Discipline, TypeOK, SessionsExact, Parked, ToSet
<1>2. PICK v : status' = [status EXCEPT ![t] = v] /\ v \in StatusIn(Phase(t))
  OBVIOUS
<1>3. /\ IsInjective(queue) /\ ToSet(queue) \cap deferred = {}
      /\ \A u \in Parked : Phase(u) = "idle" /\ status[u] \in {"queued", "cancelled"}
  BY DEF Discipline, QueueDiscipline
<1>4. /\ IsInjective(Dequeued(queue, t))
      /\ ToSet(Dequeued(queue, t)) = ToSet(queue) \ {t}
  BY <1>1, <1>3, DequeuedFacts
<1>5. /\ IsInjective(queue') /\ ToSet(queue') \subseteq ToSet(queue)
      /\ t \notin Parked \/ status'[t] = "cancelled"
  BY <1>3, <1>4
<1>6. ParkedStay(t, s.phase)
  <2>1. Parked' \subseteq Parked
    BY <1>5 DEF Parked
  <2>2. \A u \in Tasks \ {t} : status'[u] = status[u]
    BY <1>1, <1>2
  <2>3. ASSUME NEW u \in Parked'
        PROVE  /\ u # t => Phase(u) = "idle"
               /\ u = t => s.phase = "idle"
               /\ status'[u] \in {"queued", "cancelled"}
    <3>1. u \in Parked /\ u \in Tasks /\ Phase(u) = "idle" /\ status[u] \in {"queued", "cancelled"}
      BY <1>1, <1>3, <2>1
    <3>2. CASE u = t
      BY <1>5, <3>1, <3>2
    <3>3. CASE u # t
      BY <2>2, <3>1, <3>3
    <3> QED
      BY <3>2, <3>3
  <2>4. ToSet(queue') \cap deferred' = {}
    BY <1>3, <1>5
  <2> QED
    BY <1>5, <2>3, <2>4 DEF ParkedStay
<1>7. OthersStay(t)
  BY <1>1, <1>2 DEF OthersStay
<1>8. MicroFollows(First(t), s.phase)
  BY DEF MicroFollows, Phase
<1>9. status'[t] \in StatusIn(s.phase)
  BY <1>1, <1>2
<1>10. sessions'[t] = IF s.phase = "live" THEN First(t) ELSE NoRun
  BY <1>1
<1> QED
  BY <1>6, <1>7, <1>8, <1>9, <1>10, OneTaskMoves

(* A run put back unchanged. *)
LEMMA SameRun ==
  ASSUME TypeOK, NEW t \in Tasks, run' = run
  PROVE  /\ run[First(t)] \in RunState /\ run' = [run EXCEPT ![First(t)] = run[First(t)]]
         /\ run[First(t)].phase = Phase(t)
BY FirstIsRun DEF TypeOK, Phase

LEMMA NothingMoves ==
  ASSUME Discipline, TypeOK',
         UNCHANGED <<run, status, micro, queue, deferred, sessions, daemon>>
  PROVE  Discipline'
BY DEF Discipline, MicroExact, OneAttempt, QueueDiscipline, Parked, PhaseStatus, Phase,
       First, StatusIn, SessionsExact, DownIsEmpty

LEMMA SafeRequest ==
  ASSUME Discipline, TypeOK', NEW t \in Tasks, Request(t)
  PROVE  Discipline'
<1>1. /\ TypeOK /\ status \in [Tasks -> Status] /\ Phase(t) \in Phases
      /\ status[t] \in StatusIn(Phase(t)) /\ First(t) \in Runs /\ First(t) # NoRun
      /\ sessions[t] = IF Phase(t) = "live" THEN First(t) ELSE NoRun
      /\ run[First(t)] \in RunState /\ run[First(t)].phase = Phase(t)
  BY FirstIsRun, ConstantsAssumption
  DEF Discipline, TypeOK, PhaseStatus, SessionsExact, Phase, RunState, Runs
<1>2. "cancelled" \in StatusIn(Phase(t))
  BY <1>1 DEF StatusIn, Status
<1>3. t \in Parked => status[t] \in {"queued", "cancelled"}
  BY DEF Discipline, QueueDiscipline
<1>4. CASE Create(t) \/ (\E u \in Tasks : Rerun(t, u)) \/ \E n \in QuestionNums : AnswerCold(t, n)
  BY <1>4, SafeStarts
<1>5. CASE Cancel(t)
  <2>1. /\ UNCHANGED <<micro, sessions, deferred, daemon>> /\ daemon # "down"
        /\ status' = [status EXCEPT ![t] = "cancelled"] /\ queue' = Dequeued(queue, t)
    BY <1>5 DEF Cancel, Serving
  <2>2. status'[t] = "cancelled"
    BY <1>1, <2>1
  <2>3. \E s \in RunState : run' = [run EXCEPT ![First(t)] = s] /\ s.phase = Phase(t)
    <3>1. CASE sessions[t] = NoRun
      <4>1. run' = run
        BY <1>5, <3>1 DEF Cancel
      <4> QED
        BY <1>1, <4>1, SameRun
    <3>2. CASE sessions[t] # NoRun
      <4> DEFINE s == Aborted(run[First(t)], "user")
      <4>1. run' = [run EXCEPT ![First(t)] = s]
        BY <1>1, <1>5, <3>2 DEF Cancel
      <4>2. s \in RunState
        BY <1>1, AbortedType DEF AbortReasons
      <4>3. s.phase = Phase(t)
        BY <1>1 DEF Aborted, RunState
      <4> QED
        BY <4>1, <4>2, <4>3
    <3> QED
      BY <3>1, <3>2
  <2> QED
    BY <1>2, <2>1, <2>2, <2>3, PhasesStay
<1>6. CASE Approve(t)
  <2>1. /\ UNCHANGED <<run, queue, micro, sessions, deferred, daemon>> /\ daemon # "down"
        /\ status' = [status EXCEPT ![t] = "done"]
        /\ "done" \in TASK_STATUS_TRANSITIONS[status[t]]
    BY <1>6 DEF Approve, Serving, memVars, validateTaskTransition
  <2>2. status[t] \in {"running", "pending_approval"}
    BY <1>1, <2>1 DEF TASK_STATUS_TRANSITIONS, Status
  <2>3. t \notin Parked /\ "done" \in StatusIn(Phase(t))
    BY <1>1, <1>3, <2>2 DEF StatusIn, Status
  <2> QED
    BY <1>1, <2>1, <2>3, SameRun, PhasesStay
<1>7. CASE RejectBegin(t) \/ RejectCommit(t)
  <2>1. /\ UNCHANGED <<run, queue, micro, sessions, deferred, daemon>> /\ daemon # "down"
        /\ status' = status \/ status' = [status EXCEPT ![t] = "cancelled"]
    BY <1>7 DEF RejectBegin, RejectCommit, Serving
  <2>2. CASE status' = status
    BY <2>1, <2>2, NothingMoves
  <2>3. CASE status' = [status EXCEPT ![t] = "cancelled"]
    <3>1. status'[t] = "cancelled"
      BY <1>1, <2>3
    <3> QED
      BY <1>1, <1>2, <2>1, <2>3, <3>1, SameRun, PhasesStay
  <2> QED
    BY <2>1, <2>2, <2>3
<1>8. ASSUME NEW n \in QuestionNums, AnswerHot(t, n) PROVE Discipline'
  <2> DEFINE s == [run[First(t)] EXCEPT !.open = @ \ {n}]
  <2>1. /\ UNCHANGED <<queue, micro, sessions, deferred, daemon>> /\ daemon # "down"
        /\ status' = [status EXCEPT ![t] = IF validateTaskTransition(@, "running")
                                           THEN "running" ELSE @]
        /\ sessions[t] = First(t) /\ Phase(t) = "live"
        /\ run' = [run EXCEPT ![sessions[t]].open = @ \ {n}]
    BY <1>1, <1>8 DEF AnswerHot, Serving
  <2>2. run' = [run EXCEPT ![First(t)] = s]
    BY <1>1, <2>1 DEF TypeOK
  <2>3. s \in RunState
    BY <2>2, <1>1 DEF TypeOK
  <2>4. s.phase = Phase(t)
    BY <1>1 DEF RunState
  <2>5. t \notin Parked
    BY <2>1 DEF Discipline, QueueDiscipline
  <2>6. \E v : status' = [status EXCEPT ![t] = v] /\ v \in StatusIn(Phase(t))
    <3>1. "running" \in StatusIn(Phase(t))
      BY <2>1 DEF StatusIn
    <3> QED
      BY <1>1, <2>1, <3>1
  <2> HIDE DEF s
  <2> QED
    BY <2>1, <2>2, <2>3, <2>4, <2>5, <2>6, PhasesStay
<1> QED
  BY <1>4, <1>5, <1>6, <1>7, <1>8 DEF Request

LEMMA SafeTimer ==
  ASSUME Discipline, TypeOK', NEW t \in Tasks, TimerFires(t)
  PROVE  Discipline'
<1>1. CASE RunDeferred(t) \/ (ResumeFromRateLimit(t) /\ status[t] = "rate_limited")
  BY <1>1, SafeStarts
<1>2. CASE ResumeFromRateLimit(t) /\ status[t] # "rate_limited"
  BY <1>2, NothingMoves DEF ResumeFromRateLimit
<1> QED
  BY <1>1, <1>2 DEF TimerFires

LEMMA SafeDaemon ==
  ASSUME Discipline, TypeOK', CancelAll \/ Exit \/ Boot
  PROVE  Discipline'
<1>1. CASE CancelAll
  <2>1. /\ UNCHANGED <<status, micro, sessions, deferred>> /\ queue' = <<>>
        /\ daemon' = "stopping" /\ TypeOK
        /\ run' = [r \in Runs |-> IF sessions[Task(r)] = r
                                  THEN Aborted(run[r], "shutdown") ELSE run[r]]
    BY <1>1 DEF CancelAll, dbVars, Discipline
  <2>2. ASSUME NEW r \in Runs PROVE run'[r].phase = run[r].phase
    <3>1. run[r] \in RunState
      BY <2>1 DEF TypeOK
    <3>2. Aborted(run[r], "shutdown").phase = run[r].phase
      BY <3>1 DEF Aborted, RunState
    <3> QED
      BY <2>1, <3>2
  <2>3. \A u \in Tasks : Phase(u)' = Phase(u) /\ run'[<<u, 2>>].phase = run[<<u, 2>>].phase
    BY <2>2, FirstIsRun DEF Phase, First
  <2>4. MicroExact' /\ OneAttempt'
    BY <2>1, <2>2, <2>3 DEF Discipline, MicroExact, OneAttempt
  <2>5. QueueDiscipline'
    <3>1. ToSet(queue') = {} /\ IsInjective(queue') /\ Parked' \subseteq Parked
      BY <2>1, EmptyFacts DEF Parked
    <3>2. Parked \subseteq Tasks
      BY <2>1 DEF Parked, TypeOK, ToSet
    <3>3. \A u \in Parked' : Phase(u)' = "idle" /\ status'[u] \in {"queued", "cancelled"}
      BY <2>1, <2>3, <3>1, <3>2 DEF Discipline, QueueDiscipline
    <3> QED
      BY <3>1, <3>3 DEF QueueDiscipline
  <2>6. PhaseStatus'
    <3> SUFFICES ASSUME NEW u \in Tasks PROVE status'[u] \in StatusIn(Phase(u)')
      BY DEF PhaseStatus, StatusIn
    <3> QED
      BY <2>1, <2>3 DEF Discipline, PhaseStatus
  <2>7. SessionsExact'
    <3> SUFFICES ASSUME NEW u \in Tasks
                 PROVE  sessions'[u] = IF Phase(u)' = "live" THEN First(u) ELSE NoRun
      BY DEF SessionsExact, First
    <3> QED
      BY <2>1, <2>3 DEF Discipline, SessionsExact
  <2>8. DownIsEmpty'
    BY <2>1 DEF DownIsEmpty
  <2> QED
    BY <2>4, <2>5, <2>6, <2>7, <2>8 DEF Discipline
<1>2. CASE Exit
  <2>1. /\ status' = status /\ run' = [r \in Runs |-> IdleRun] /\ micro' = <<>>
        /\ queue' = <<>> /\ deferred' = {} /\ sessions' = [u \in Tasks |-> NoRun]
    BY <1>2 DEF Exit, dbVars
  <2>2. \A r \in Runs : run'[r].phase = "idle"
    BY <2>1 DEF IdleRun
  <2>3. \A u \in Tasks : Phase(u)' = "idle" /\ run'[<<u, 2>>].phase = "idle"
    BY <2>2, FirstIsRun DEF Phase, First
  <2>4. "idle" \notin MicroPhases /\ StatusIn("idle") = Status
    BY DEF MicroPhases, StatusIn
  <2>5. MicroExact'
    BY <2>1, <2>2, <2>4, EmptyFacts DEF MicroExact
  <2>6. OneAttempt'
    BY <2>3 DEF OneAttempt
  <2>7. QueueDiscipline'
    <3>1. Parked' = {} /\ IsInjective(queue')
      BY <2>1, EmptyFacts DEF Parked
    <3> QED
      BY <3>1 DEF QueueDiscipline, Parked
  <2>8. PhaseStatus'
    <3> SUFFICES ASSUME NEW u \in Tasks PROVE status'[u] \in StatusIn(Phase(u)')
      BY DEF PhaseStatus, StatusIn
    <3> QED
      BY <2>3, <2>4 DEF TypeOK
  <2>9. SessionsExact'
    <3> SUFFICES ASSUME NEW u \in Tasks
                 PROVE  sessions'[u] = IF Phase(u)' = "live" THEN First(u) ELSE NoRun
      BY DEF SessionsExact, First
    <3> QED
      BY <2>1, <2>3
  <2>10. DownIsEmpty'
    <3> SUFFICES ASSUME NEW u \in Tasks PROVE Phase(u)' = "idle"
      BY <2>1 DEF DownIsEmpty, Phase, First
    <3> QED
      BY <2>3
  <2> QED
    BY <2>5, <2>6, <2>7, <2>8, <2>9, <2>10 DEF Discipline
<1>3. CASE Boot
  <2>1. PICK ts \in SetToSeqs(Stale) : Execute(run, micro, ts)
    BY <1>3 DEF Boot
  <2>2. /\ status' = [u \in Tasks |-> IF u \in Stale THEN "queued" ELSE status[u]]
        /\ daemon = "down" /\ daemon' = "up"
        /\ UNCHANGED <<sessions, queue, deferred>>
    BY <1>3 DEF Boot
  <2>3. /\ micro = <<>> /\ queue = <<>> /\ deferred = {}
        /\ \A u \in Tasks : Phase(u) = "idle" /\ run[First(u)].phase = "idle"
    BY <2>2 DEF Discipline, DownIsEmpty, Phase
  <2>4. /\ ts \in Seq(Tasks) /\ IsInjective(ts) /\ ToSet(ts) \subseteq Stale
        /\ ToSet(ts) \subseteq Tasks
    <3>1. Stale \subseteq Tasks
      BY DEF Stale
    <3> QED
      BY <3>1, OrderingsAreSeqs
  <2>5. /\ run \in [Runs -> RunState] /\ micro \in Seq(Runs) /\ IsInjective(micro)
        /\ ToSet(micro) = {x \in Runs : run[x].phase \in MicroPhases}
        /\ \A u \in Tasks : run[<<u, 2>>].phase = "idle"
    BY DEF Discipline, TypeOK, MicroExact, OneAttempt
  <2>6. /\ MicroExact' /\ OneAttempt'
        /\ \A u \in Tasks : run'[First(u)] = IF u \in ToSet(ts)
                                              THEN [IdleRun EXCEPT !.phase = "select"]
                                              ELSE run[First(u)]
    <3>1. \A u \in ToSet(ts) : run[First(u)].phase = "idle"
      BY <2>3, <2>4
    <3> QED
      BY <2>1, <2>4, <2>5, <3>1, ExecuteFacts
  <2>7. ASSUME NEW u \in Tasks
        PROVE  Phase(u)' = IF u \in ToSet(ts) THEN "select" ELSE "idle"
    BY <2>3, <2>6 DEF Phase, First, IdleRun
  <2>8. QueueDiscipline'
    <3>1. Parked' = {} /\ IsInjective(queue') /\ ToSet(queue') = {}
      BY <2>2, <2>3, EmptyFacts DEF Parked
    <3> QED
      BY <3>1 DEF QueueDiscipline, Parked
  <2>9. PhaseStatus'
    <3> SUFFICES ASSUME NEW u \in Tasks PROVE status'[u] \in StatusIn(Phase(u)')
      BY DEF PhaseStatus, StatusIn
    <3>1. CASE u \in ToSet(ts)
      BY <2>2, <2>4, <2>7, <3>1 DEF StatusIn
    <3>2. CASE u \notin ToSet(ts)
      BY <2>7, <3>2 DEF StatusIn, TypeOK
    <3> QED
      BY <3>1, <3>2
  <2>10. SessionsExact'
    <3> SUFFICES ASSUME NEW u \in Tasks
                 PROVE  sessions'[u] = IF Phase(u)' = "live" THEN First(u) ELSE NoRun
      BY DEF SessionsExact, First
    <3>1. sessions'[u] = NoRun
      BY <2>2, <2>3 DEF Discipline, SessionsExact
    <3> QED
      BY <2>7, <3>1
  <2>11. DownIsEmpty'
    BY <2>2 DEF DownIsEmpty
  <2> QED
    BY <2>6, <2>8, <2>9, <2>10, <2>11 DEF Discipline
<1> QED
  BY <1>1, <1>2, <1>3

LEMMA DisciplineInit == Init => Discipline
<1> SUFFICES ASSUME Init PROVE Discipline
  OBVIOUS
<1>1. TypeOK
  BY TypeInit
<1>2. \A r \in Runs : run[r].phase = "idle"
  BY DEF Init, IdleRun
<1>3. \A u \in Tasks : Phase(u) = "idle" /\ run[<<u, 2>>].phase = "idle"
  BY <1>2, FirstIsRun DEF Phase
<1>4. /\ micro = <<>> /\ queue = <<>> /\ deferred = {} /\ daemon = "up"
      /\ \A u \in Tasks : sessions[u] = NoRun
  BY DEF Init
<1>5. "idle" \notin MicroPhases /\ StatusIn("idle") = Status
  BY DEF MicroPhases, StatusIn
<1>6. MicroExact /\ OneAttempt
  BY <1>2, <1>3, <1>4, <1>5, EmptyFacts DEF MicroExact, OneAttempt
<1>7. QueueDiscipline
  BY <1>4, EmptyFacts DEF QueueDiscipline, Parked
<1>8. PhaseStatus /\ SessionsExact /\ DownIsEmpty
  BY <1>1, <1>3, <1>4, <1>5 DEF PhaseStatus, SessionsExact, DownIsEmpty, TypeOK
<1> QED
  BY <1>1, <1>6, <1>7, <1>8 DEF Discipline

LEMMA DisciplineStep == Discipline /\ [Next]_vars => Discipline'
<1> SUFFICES ASSUME Discipline, [Next]_vars PROVE Discipline'
  OBVIOUS
<1>1. CASE UNCHANGED vars
  <2>1. UNCHANGED <<run, status, micro, queue, deferred, sessions, daemon>>
    BY <1>1 DEF vars, dbVars, memVars
  <2>2. TypeOK'
    BY <1>1 DEF Discipline, TypeOK, vars, dbVars, memVars
  <2> QED
    BY <2>1, <2>2, NothingMoves
<1>2. CASE Next
  <2>1. TypeOK'
    BY <1>2, TypeRunStep, TypeSessionStep, TypeRequest, TypeTimer, TypeDaemon
    DEF Next, Discipline
  <2> QED
    BY <1>2, <2>1, SafeRunStep, SafeSessionStep, SafeRequest, SafeTimer, SafeDaemon
    DEF Next
<1> QED
  BY <1>1, <1>2

(* The inductive invariant of the executor holds in every reachable state.  *)
THEOREM DisciplineHolds == Spec => []Discipline
BY DisciplineInit, DisciplineStep, PTL DEF Spec

(* A task never has two runs at once, and a queued one has none: although   *)
(* execute() does not look, its callers (the routes, the timers, the queue  *)
(* flush and the boot) only hand it tasks that nobody runs.                 *)
THEOREM RunsAreSingle == Spec => []SingleRun
<1>1. Discipline => SingleRun
  <2> SUFFICES ASSUME Discipline, NEW t \in Tasks
               PROVE  /\ ~(Active(<<t, 1>>) /\ Active(<<t, 2>>))
                      /\ t \in ToSet(queue) => ~Active(<<t, 1>>) /\ ~Active(<<t, 2>>)
    BY DEF SingleRun
  <2>1. ~Active(<<t, 2>>)
    BY DEF Discipline, OneAttempt, Active
  <2>2. t \in ToSet(queue) => ~Active(<<t, 1>>)
    BY DEF Discipline, QueueDiscipline, Parked, Phase, First, Active
  <2> QED
    BY <2>1, <2>2
<1> QED
  BY <1>1, DisciplineHolds, PTL

(* Cancel and answer reach every live session and no dead one.              *)
THEOREM SessionsAreReachable == Spec => []SessionsReachable
<1>1. Discipline => SessionsReachable
  <2> SUFFICES ASSUME Discipline, NEW t \in Tasks
               PROVE  /\ sessions[t] # NoRun => /\ Task(sessions[t]) = t
                                               /\ run[sessions[t]].phase = "live"
                      /\ \A r \in RunsOf(t) : run[r].phase = "live" => sessions[t] = r
    BY DEF SessionsReachable
  <2>1. sessions[t] = IF Phase(t) = "live" THEN First(t) ELSE NoRun
    BY DEF Discipline, SessionsExact
  <2>2. sessions[t] # NoRun => Task(sessions[t]) = t /\ run[sessions[t]].phase = "live"
    BY <2>1, FirstIsRun DEF Phase
  <2>3. ASSUME NEW r \in RunsOf(t), run[r].phase = "live" PROVE sessions[t] = r
    <3>1. r \in Runs /\ Task(r) = t /\ r = First(t)
      BY <2>3, ActiveIsFirst DEF RunsOf, Discipline
    <3> QED
      BY <2>1, <2>3, <3>1 DEF Phase
  <2> QED
    BY <2>2, <2>3
<1> QED
  BY <1>1, DisciplineHolds, PTL

-----------------------------------------------------------------------------
(* Who may write a row that has reached an end: the run it still has, or a  *)
(* reject whose rollback is under way.                                      *)
Ends == {"cancelled", "failed", "timed_out", "done"}
ByItsRun(t) ==
  /\ Phase(t) # "idle"
  /\ Phase(t) = "live" /\ status[t] = "cancelled" => status'[t] = "rate_limited"
ByReject(t) == t \in rejecting /\ status'[t] = "cancelled"
Written(t) ==
  status'[t] = status[t] \/ status[t] \notin Ends \/ ByItsRun(t) \/ ByReject(t)

LEMMA WrittenByRun ==
  ASSUME Discipline, NEW r \in Runs, RunStep(r) \/ SessionStep(r), NEW u \in Tasks
  PROVE  Written(u)
<1> DEFINE t == Task(r)
<1>1. run[r].phase # "idle"
  BY DEF RunStep, SelectKey, EnqueueTask, FailBeforeStart, StartRun, PrepareFail, PrepareOk,
         EndRun, Turn, SessionStep, SessionSettles, SessionSucceeds, SessionRateLimited,
         SessionAborts, SessionFails, Settle, SessionTimesOut, Ask
<1>2. t \in Tasks /\ r = First(t) /\ Phase(t) = run[r].phase /\ status \in [Tasks -> Status]
  BY <1>1, Mover DEF Phase
<1>3. ASSUME NEW v, status' = [status EXCEPT ![t] = v],
             run[r].phase = "live" /\ status[t] = "cancelled" =>
               v \in {"cancelled", "rate_limited"}
      PROVE  Written(u)
  <2>1. CASE u = t
    BY <1>1, <1>2, <1>3, <2>1 DEF Written, ByItsRun, Ends
  <2>2. CASE u # t
    BY <1>2, <1>3, <2>2 DEF Written
  <2> QED
    BY <2>1, <2>2
<1>4. CASE status' = status
  BY <1>4 DEF Written
<1>5. CASE RunStep(r)
  <2>1. \/ status' = status
        \/ /\ run[r].phase # "live"
           /\ \E v : status' = [status EXCEPT ![t] = v]
    BY <1>5 DEF RunStep, SelectKey, EnqueueTask, FailBeforeStart, StartRun, PrepareFail,
                PrepareOk, EndRun, Turn, dbVars
  <2> QED
    BY <1>3, <1>4, <2>1
<1>6. CASE SessionSucceeds(r) \/ SessionAborts(r) \/ SessionRateLimited(r)
  <2>1. \/ status' = status
        \/ \E v : status' = [status EXCEPT ![t] = IF @ = "cancelled" THEN @ ELSE v]
        \/ status' = [status EXCEPT ![t] = "rate_limited"]
    BY <1>6 DEF SessionSucceeds, SessionAborts, finalizeError, SessionRateLimited
  <2> QED
    BY <1>3, <1>4, <2>1
<1>7. CASE SessionFails(r)
  <2>1. CASE status' = [status EXCEPT ![t] = IF @ = "cancelled" THEN @ ELSE "failed"]
    BY <1>3, <2>1
  <2>2. ASSUME NEW w \in Tasks, status[w] = "absent",
               status' = [status EXCEPT ![t] = IF @ = "cancelled" THEN @ ELSE "failed",
                                        ![w] = "queued"]
        PROVE  Written(u)
    <3>1. CASE u = w
      BY <2>2, <3>1 DEF Written, Ends
    <3>2. CASE u = t /\ u # w
      <4>1. status'[t] = IF status[t] = "cancelled" THEN "cancelled" ELSE "failed"
        BY <1>2, <2>2, <3>2
      <4> QED
        BY <1>1, <1>2, <3>2, <4>1 DEF Written, ByItsRun
    <3>3. CASE u # t /\ u # w
      BY <1>2, <2>2, <3>3 DEF Written
    <3> QED
      BY <3>1, <3>2, <3>3
  <2> QED
    BY <1>7, <2>1, <2>2 DEF SessionFails, finalizeError
<1>8. CASE SessionTimesOut(r)
  BY <1>4, <1>8 DEF SessionTimesOut, dbVars
<1>9. CASE Ask(r)
  <2>1. status[t] = "cancelled" => "waiting_for_input" \notin TASK_STATUS_TRANSITIONS[status[t]]
    BY DEF TASK_STATUS_TRANSITIONS, Status
  <2>2. status' = [status EXCEPT ![t] =
                     IF "waiting_for_input" \in TASK_STATUS_TRANSITIONS[@]
                     THEN "waiting_for_input" ELSE @]
    BY <1>9 DEF Ask, validateTaskTransition
  <2> QED
    BY <1>3, <2>1, <2>2
<1> QED
  BY <1>5, <1>6, <1>7, <1>8, <1>9 DEF SessionStep, SessionSettles

(* The routes and timers of t. *)
LEMMA WrittenByOthers ==
  ASSUME Discipline, NEW t \in Tasks, Request(t) \/ TimerFires(t), NEW u \in Tasks
  PROVE  Written(u)
<1>1. status \in [Tasks -> Status]
  BY DEF Discipline, TypeOK
<1>2. ASSUME NEW w \in Tasks, NEW v, status' = [status EXCEPT ![w] = v],
             v = status[w] \/ status[w] \notin Ends \/ (w \in rejecting /\ v = "cancelled")
      PROVE  Written(u)
  BY <1>1, <1>2 DEF Written, ByReject
<1>3. CASE status' = status
  BY <1>3 DEF Written
<1>4. /\ status[t] \in Ends => /\ "done" \notin TASK_STATUS_TRANSITIONS[status[t]]
                               /\ "cancelled" \notin TASK_STATUS_TRANSITIONS[status[t]]
                               /\ "running" \notin TASK_STATUS_TRANSITIONS[status[t]]
  BY <1>1 DEF TASK_STATUS_TRANSITIONS, Status, Ends
<1>5. CASE Create(t) \/ (\E n \in QuestionNums : AnswerCold(t, n))
  BY <1>2, <1>5 DEF Create, AnswerCold, Ends
<1>6. ASSUME NEW w \in Tasks, Rerun(t, w) PROVE Written(u)
  BY <1>2, <1>6 DEF Rerun, Ends
<1>7. CASE Cancel(t) \/ Approve(t)
  BY <1>2, <1>4, <1>7 DEF Cancel, Approve, validateTaskTransition
<1>8. CASE RejectBegin(t) \/ RejectCommit(t)
  BY <1>2, <1>3, <1>4, <1>8 DEF RejectBegin, RejectCommit, validateTaskTransition
<1>9. ASSUME NEW n \in QuestionNums, AnswerHot(t, n) PROVE Written(u)
  <2> DEFINE v == IF "running" \in TASK_STATUS_TRANSITIONS[status[t]] THEN "running"
                  ELSE status[t]
  <2>1. status' = [status EXCEPT ![t] = v]
    BY <1>9 DEF AnswerHot, validateTaskTransition
  <2>2. v = status[t] \/ status[t] \notin Ends
    BY <1>4
  <2> QED
    BY <1>2, <2>1, <2>2
<1>10. CASE TimerFires(t)
  BY <1>2, <1>3, <1>10 DEF TimerFires, ResumeFromRateLimit, RunDeferred, dbVars, Ends
<1> QED
  BY <1>5, <1>6, <1>7, <1>8, <1>9, <1>10 DEF Request

LEMMA WrittenStep ==
  ASSUME Discipline, [Next]_vars, NEW u \in Tasks
  PROVE  Written(u)
<1>1. CASE UNCHANGED vars \/ CancelAll \/ Exit
  BY <1>1 DEF Written, vars, dbVars, CancelAll, Exit
<1>2. CASE Boot
  BY <1>2 DEF Written, Boot, Stale, Ends
<1>3. CASE \E r \in Runs : RunStep(r) \/ SessionStep(r)
  BY <1>3, WrittenByRun
<1>4. CASE \E t \in Tasks : Request(t) \/ TimerFires(t)
  BY <1>4, WrittenByOthers
<1> QED
  BY <1>1, <1>2, <1>3, <1>4 DEF Next

(* A failed or timed out row without a run stays so unless a reject is under *)
(* way, and a done row changes only under a reject or its own session       *)
(* (EndsAreKept): no timer, retry, flush or boot comes back to it.          *)
THEOREM EndsStay == Spec => EndsAreKept
<1>1. ASSUME Discipline, [Next]_vars, NEW t \in Tasks
      PROVE  /\ status[t] \in {"failed", "timed_out"} /\ RunsOf(t) = {} =>
                  status'[t] \in {status[t]} \cup (IF t \in rejecting THEN {"cancelled"} ELSE {})
             /\ status[t] = "done" /\ status'[t] # "done" =>
                  t \in rejecting \/ RunsOf(t) # {}
  <2>1. Written(t)
    BY <1>1, WrittenStep
  <2>2. RunsOf(t) = {} => Phase(t) = "idle"
    BY FirstIsRun DEF RunsOf, Active, Phase
  <2> QED
    BY <2>1, <2>2 DEF Written, ByItsRun, ByReject, Ends
<1>2. Discipline /\ [Next]_vars =>
        [\A t \in Tasks :
           /\ status[t] \in {"failed", "timed_out"} /\ RunsOf(t) = {} =>
                status'[t] \in {status[t]} \cup (IF t \in rejecting THEN {"cancelled"} ELSE {})
           /\ status[t] = "done" /\ status'[t] # "done" =>
                t \in rejecting \/ RunsOf(t) # {}]_vars
  BY <1>1
<1> QED
  BY <1>2, DisciplineHolds, PTL DEF Spec, EndsAreKept

(* A session whose task was cancelled ends without overwriting the row,     *)
(* unless a provider limit parks it (CancelNotOverwritten): every other end *)
(* of executeTask reads the status before it writes.                        *)
THEOREM CancelsAreKept == Spec => CancelNotOverwritten
<1>1. ASSUME Discipline, [Next]_vars, NEW t \in Tasks,
             status[t] = "cancelled", sessions[t] # NoRun
      PROVE  status'[t] \in {"cancelled", "rate_limited"}
  <2>1. Written(t)
    BY <1>1, WrittenStep
  <2>2. Phase(t) = "live"
    BY <1>1 DEF Discipline, SessionsExact
  <2> QED
    BY <1>1, <2>1, <2>2 DEF Written, ByItsRun, ByReject, Ends
<1>2. Discipline /\ [Next]_vars =>
        [\A t \in Tasks : status[t] = "cancelled" /\ sessions[t] # NoRun =>
           status'[t] \in {"cancelled", "rate_limited"}]_vars
  BY <1>1
<1> QED
  BY <1>2, DisciplineHolds, PTL DEF Spec, CancelNotOverwritten
=============================================================================
