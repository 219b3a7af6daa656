------------------------ MODULE TaskExecutorSlots ------------------------
(* The slots of the AI provider keys are counted exactly, never more than   *)
(* MaxPerKey sessions are started on one key, and every row that claims     *)
(* work has somebody who does it, for every set of tasks and keys.          *)
EXTENDS TaskExecutorSafety, FunctionTheorems

(* A task has a reservation exactly while its run holds a slot, and the     *)
(* counters count reservations.                                             *)
ReservedBy(k) == {t \in Tasks : reservedKey[t] = k}
ReservationsExact ==
  \A t \in Tasks :
    /\ reservedKey[t] = IF HoldsSlot(First(t)) THEN run[First(t)].key ELSE NoKey
    /\ HoldsSlot(First(t)) => run[First(t)].key \in Keys
CountersExact ==
  \A k \in Keys : /\ keySlotUsage[k] = Cardinality(ReservedBy(k))
                  /\ keySlotUsage[k] <= MaxPerKey
SlotsExact == ReservationsExact /\ CountersExact

LEMMA ReservedByIsFinite ==
  ASSUME NEW k
  PROVE  IsFiniteSet(ReservedBy(k)) /\ Cardinality(ReservedBy(k)) \in Nat
BY TasksAssumption, FS_Subset, FS_CardinalityType DEF ReservedBy

-----------------------------------------------------------------------------
(* Most steps neither take nor give back a slot *)

SlotKept(r) ==
  /\ HoldsSlot(r)' <=> HoldsSlot(r)
  /\ HoldsSlot(r) => run'[r].key = run[r].key

LEMMA SlotsStay ==
  ASSUME SlotsExact, UNCHANGED <<keySlotUsage, reservedKey>>,
         \A t \in Tasks : SlotKept(First(t))
  PROVE  SlotsExact'
<1>1. ReservationsExact'
  <2> SUFFICES ASSUME NEW t \in Tasks
               PROVE  /\ reservedKey'[t] = IF HoldsSlot(First(t))' THEN run'[First(t)].key
                                          ELSE NoKey
                      /\ HoldsSlot(First(t))' => run'[First(t)].key \in Keys
    BY DEF ReservationsExact, First
  <2> QED
    BY DEF SlotsExact, ReservationsExact, SlotKept
<1>2. CountersExact'
  BY DEF SlotsExact, CountersExact, ReservedBy
<1> QED
  BY <1>1, <1>2 DEF SlotsExact

(* A run that moves between phases that both hold a slot, or both do not.   *)
LEMMA MoveKeepsSlots ==
  ASSUME Discipline, NEW r \in Runs, NEW s, run' = [run EXCEPT ![r] = s],
         s.phase \in {"start", "prepfail", "prepare", "live", "end"} <=> HoldsSlot(r),
         HoldsSlot(r) => s.key = run[r].key
  PROVE  \A t \in Tasks : SlotKept(First(t))
<1> SUFFICES ASSUME NEW t \in Tasks PROVE SlotKept(First(t))
  OBVIOUS
<1>1. First(t) \in Runs /\ run \in [Runs -> RunState]
  BY FirstIsRun DEF Discipline, TypeOK
<1>2. run'[First(t)] = IF First(t) = r THEN s ELSE run[First(t)]
  BY <1>1
<1>3. HoldsSlot(First(t))' <=>
        run'[First(t)].phase \in {"start", "prepfail", "prepare", "live", "end"}
  BY DEF HoldsSlot, First
<1>4. CASE First(t) = r
  BY <1>2, <1>3, <1>4 DEF SlotKept
<1>5. CASE First(t) # r
  BY <1>2, <1>3, <1>5 DEF SlotKept, HoldsSlot
<1> QED
  BY <1>4, <1>5

(* execute() by itself touches no slot. *)
LEMMA ExecuteKeepsSlots ==
  ASSUME NEW ts, Execute(run, micro, ts)
  PROVE  \A t \in Tasks : SlotKept(First(t))
<1> SUFFICES ASSUME NEW t \in Tasks PROVE SlotKept(First(t))
  OBVIOUS
<1>1. First(t) \in Runs
  BY FirstIsRun
<1>3. \/ run'[First(t)] = run[First(t)]
      \/ /\ run'[First(t)].phase = "select"
         /\ \E i \in DOMAIN ts : First(t) = Fresh(run, ts[i])
  BY <1>1 DEF Execute, IdleRun
<1>4. HoldsSlot(First(t))' <=>
        run'[First(t)].phase \in {"start", "prepfail", "prepare", "live", "end"}
  BY DEF HoldsSlot, First
<1>5. CASE run'[First(t)] = run[First(t)]
  BY <1>4, <1>5 DEF SlotKept, HoldsSlot
<1>6. CASE /\ run'[First(t)].phase = "select"
           /\ \E i \in DOMAIN ts : First(t) = Fresh(run, ts[i])
  <2>1. run[First(t)].phase = "idle"
    BY <1>6 DEF Fresh, First
  <2> QED
    BY <1>4, <1>6, <2>1 DEF SlotKept, HoldsSlot
<1> QED
  BY <1>3, <1>5, <1>6

-----------------------------------------------------------------------------
(* Taking a slot *)
LEMMA Reserve ==
  ASSUME Discipline, SlotsExact, NEW t \in Tasks, NEW k \in Keys,
         reservedKey[t] = NoKey, keySlotUsage[k] < MaxPerKey,
         keySlotUsage' = [keySlotUsage EXCEPT ![k] = @ + 1],
         reservedKey' = [reservedKey EXCEPT ![t] = k]
  PROVE  CountersExact'
<1>1. /\ keySlotUsage \in [Keys -> Nat] /\ reservedKey \in [Tasks -> Keys \cup {NoKey}]
      /\ MaxPerKey \in Nat /\ NoKey \notin Keys
  BY ConstantsAssumption DEF Discipline, TypeOK
<1>2. \A j \in Keys : keySlotUsage[j] = Cardinality(ReservedBy(j)) /\ keySlotUsage[j] <= MaxPerKey
  BY DEF SlotsExact, CountersExact
<1>3. t \notin ReservedBy(k)
  BY <1>1 DEF ReservedBy
<1>4. ReservedBy(k)' = ReservedBy(k) \cup {t}
  BY <1>1 DEF ReservedBy
<1>5. \A j \in Keys \ {k} : ReservedBy(j)' = ReservedBy(j)
  BY <1>1 DEF ReservedBy
<1>6. Cardinality(ReservedBy(k) \cup {t}) = Cardinality(ReservedBy(k)) + 1
  BY <1>3, ReservedByIsFinite, FS_AddElement
<1>7. ASSUME NEW j \in Keys
      PROVE  keySlotUsage'[j] = Cardinality(ReservedBy(j))' /\ keySlotUsage'[j] <= MaxPerKey
  <2>1. CASE j = k
    <3>1. keySlotUsage'[k] = keySlotUsage[k] + 1 /\ keySlotUsage[k] \in Nat
      BY <1>1
    <3>2. keySlotUsage'[k] = Cardinality(ReservedBy(k)) + 1
      BY <1>2, <3>1
    <3>3. keySlotUsage'[k] = Cardinality(ReservedBy(k)')
      BY <1>4, <1>6, <3>2
    <3>4. keySlotUsage'[k] <= MaxPerKey
      BY <1>1, <3>1
    <3> QED
      BY <2>1, <3>3, <3>4
  <2>2. CASE j # k
    <3>1. keySlotUsage'[j] = keySlotUsage[j]
      BY <1>1, <2>2
    <3> QED
      BY <1>2, <1>5, <2>2, <3>1
  <2> QED
    BY <2>1, <2>2
<1> QED
  BY <1>7 DEF CountersExact

(* Giving it back *)
LEMMA GiveBack ==
  ASSUME Discipline, SlotsExact, NEW t \in Tasks, reservedKey[t] \in Keys, Release(t)
  PROVE  CountersExact' /\ reservedKey' = [reservedKey EXCEPT ![t] = NoKey]
<1>k. PICK k \in Keys : k = reservedKey[t]
  OBVIOUS
<1>1. /\ keySlotUsage \in [Keys -> Nat] /\ reservedKey \in [Tasks -> Keys \cup {NoKey}]
      /\ MaxPerKey \in Nat /\ NoKey \notin Keys
  BY ConstantsAssumption DEF Discipline, TypeOK
<1>2. \A j \in Keys : keySlotUsage[j] = Cardinality(ReservedBy(j)) /\ keySlotUsage[j] <= MaxPerKey
  BY DEF SlotsExact, CountersExact
<1>3. /\ reservedKey' = [reservedKey EXCEPT ![t] = NoKey]
      /\ keySlotUsage' = [keySlotUsage EXCEPT ![k] = IF @ <= 1 THEN 0 ELSE @ - 1]
  BY <1>1, <1>k DEF Release
<1>4. t \in ReservedBy(k)
  BY <1>k DEF ReservedBy
<1>5. ReservedBy(k)' = ReservedBy(k) \ {t}
  BY <1>1, <1>3 DEF ReservedBy
<1>6. \A j \in Keys \ {k} : ReservedBy(j)' = ReservedBy(j)
  BY <1>1, <1>3, <1>k DEF ReservedBy
<1>7. Cardinality(ReservedBy(k) \ {t}) = Cardinality(ReservedBy(k)) - 1
  BY <1>4, ReservedByIsFinite, FS_RemoveElement
<1>8. Cardinality(ReservedBy(k) \ {t}) \in Nat
  <2>1. IsFiniteSet(ReservedBy(k) \ {t})
    BY ReservedByIsFinite, FS_RemoveElement
  <2> QED
    BY <2>1, FS_CardinalityType
<1>9. ASSUME NEW j \in Keys
      PROVE  keySlotUsage'[j] = Cardinality(ReservedBy(j))' /\ keySlotUsage'[j] <= MaxPerKey
  <2>1. CASE j = k
    <3>1. /\ keySlotUsage'[k] = IF keySlotUsage[k] <= 1 THEN 0 ELSE keySlotUsage[k] - 1
          /\ keySlotUsage[k] \in Nat
      BY <1>1, <1>3
    <3>2. keySlotUsage[k] - 1 \in Nat /\ keySlotUsage[k] <= MaxPerKey
      BY <1>1, <1>2, <1>7, <1>8
    <3>3. keySlotUsage'[k] = keySlotUsage[k] - 1
      BY <3>1, <3>2
    <3>4. keySlotUsage'[k] = Cardinality(ReservedBy(k)) - 1
      BY <1>1, <1>2, <3>3
    <3> QED
      <4>1. keySlotUsage'[k] = Cardinality(ReservedBy(k)')
        BY <1>5, <1>7, <3>4
      <4>2. keySlotUsage'[k] <= MaxPerKey
        BY <1>1, <3>1, <3>2, <3>3
      <4> QED
        BY <2>1, <4>1, <4>2
  <2>2. CASE j # k
    <3>1. keySlotUsage'[j] = keySlotUsage[j]
      BY <1>1, <1>3, <2>2
    <3> QED
      BY <1>2, <1>6, <2>2, <3>1
  <2> QED
    BY <2>1, <2>2
<1> QED
  BY <1>3, <1>9 DEF CountersExact

-----------------------------------------------------------------------------
LEMMA SlotsSelectKey ==
  ASSUME Discipline, SlotsExact, NEW r \in Runs, SelectKey(r)
  PROVE  SlotsExact'
<1> DEFINE t == Task(r)
<1>1. run[r].phase = "select" /\ ~HoldsSlot(r) /\ run[r] \in RunState
  BY DEF SelectKey, Turn, HoldsSlot, Discipline, TypeOK
<1>2. t \in Tasks /\ r = First(t)
  BY <1>1, Mover
<1>3. /\ reservedKey[t] = NoKey /\ reservedKey \in [Tasks -> Keys \cup {NoKey}]
      /\ run \in [Runs -> RunState]
  BY <1>1, <1>2 DEF SlotsExact, ReservationsExact, Discipline, TypeOK
<1>4. ASSUME NEW k \in Selectable(t, run[r].excl), keySlotUsage[k] < MaxPerKey,
             keySlotUsage' = [keySlotUsage EXCEPT ![k] = @ + 1],
             reservedKey' = [reservedKey EXCEPT ![t] = k],
             run' = [run EXCEPT ![r].phase = "start", ![r].key = k]
      PROVE  SlotsExact'
  <2>1. k \in Keys
    BY <1>2, <1>4 DEF Selectable, Discipline, TypeOK
  <2>2. CountersExact'
    BY <1>2, <1>3, <1>4, <2>1, Reserve
  <2>3. \A x \in Runs : run'[x] = IF x = r THEN [run[r] EXCEPT !.phase = "start", !.key = k]
                                ELSE run[x]
    BY <1>3, <1>4
  <2>4. /\ [run[r] EXCEPT !.phase = "start", !.key = k].phase = "start"
        /\ [run[r] EXCEPT !.phase = "start", !.key = k].key = k
    BY <1>1 DEF RunState
  <2>5. ReservationsExact'
    <3> SUFFICES ASSUME NEW u \in Tasks
                 PROVE  /\ reservedKey'[u] = IF HoldsSlot(First(u))' THEN run'[First(u)].key
                                            ELSE NoKey
                        /\ HoldsSlot(First(u))' => run'[First(u)].key \in Keys
      BY DEF ReservationsExact, First
    <3>1. HoldsSlot(First(u))' <=>
            run'[First(u)].phase \in {"start", "prepfail", "prepare", "live", "end"}
      BY DEF HoldsSlot, First
    <3>2. CASE u = t
      <4>1. run'[First(u)].phase = "start" /\ run'[First(u)].key = k
        BY <1>2, <2>3, <2>4, <3>2
      <4>2. reservedKey'[u] = k
        BY <1>3, <1>4, <3>2
      <4> QED
        BY <2>1, <3>1, <4>1, <4>2
    <3>3. CASE u # t
      <4>1. run'[First(u)] = run[First(u)] /\ reservedKey'[u] = reservedKey[u]
        BY <1>2, <1>3, <1>4, <2>3, <3>3, FirstIsRun DEF First
      <4> QED
        BY <3>1, <4>1 DEF SlotsExact, ReservationsExact, HoldsSlot
    <3> QED
      BY <3>2, <3>3
  <2> QED
    BY <2>2, <2>5 DEF SlotsExact
<1>5. ASSUME UNCHANGED <<keySlotUsage, reservedKey>>, NEW s,
             run' = [run EXCEPT ![r] = s], s.phase \in {"select", "nokey", "enqueue"}
      PROVE  SlotsExact'
  <2>1. \A u \in Tasks : SlotKept(First(u))
    BY <1>1, <1>5, MoveKeepsSlots
  <2> QED
    BY <1>5, <2>1, SlotsStay
<1>6. ASSUME NEW k \in Keys, run' = [run EXCEPT ![r].excl = @ \cup {k}],
             UNCHANGED <<keySlotUsage, reservedKey>>
      PROVE  SlotsExact'
  <2> DEFINE s == [run[r] EXCEPT !.excl = @ \cup {k}]
  <2>1. run' = [run EXCEPT ![r] = s] /\ s.phase = "select"
    BY <1>1, <1>3, <1>6 DEF RunState
  <2> QED
    BY <1>5, <1>6, <2>1
<1>7. ASSUME NEW p \in {"nokey", "enqueue"}, run' = [run EXCEPT ![r].phase = p],
             UNCHANGED <<keySlotUsage, reservedKey>>
      PROVE  SlotsExact'
  <2> DEFINE s == [run[r] EXCEPT !.phase = p]
  <2>1. run' = [run EXCEPT ![r] = s] /\ s.phase = p
    BY <1>1, <1>3, <1>7 DEF RunState
  <2> QED
    BY <1>5, <1>7, <2>1
<1>8. Selectable(t, run[r].excl) \subseteq Keys
  BY <1>2 DEF Selectable, Discipline, TypeOK
<1> QED
  BY <1>4, <1>6, <1>7, <1>8 DEF SelectKey, HasRoom

LEMMA SlotsEndRun ==
  ASSUME Discipline, SlotsExact, NEW r \in Runs, EndRun(r)
  PROVE  SlotsExact'
<1> DEFINE t == Task(r)
           rn == [run EXCEPT ![r] = IdleRun]
<1>1. run[r].phase = "end" /\ Release(t) /\ Execute(rn, Tail(micro), queue)
  BY DEF EndRun, Turn
<1>2. /\ t \in Tasks /\ r = First(t) /\ HoldsSlot(r) /\ queue \in Seq(Tasks)
      /\ run \in [Runs -> RunState] /\ reservedKey \in [Tasks -> Keys \cup {NoKey}]
  BY <1>1, Mover DEF HoldsSlot, Discipline, TypeOK
<1>3. reservedKey[t] \in Keys
  BY <1>2 DEF SlotsExact, ReservationsExact
<1>4. CountersExact' /\ reservedKey' = [reservedKey EXCEPT ![t] = NoKey]
  BY <1>1, <1>2, <1>3, GiveBack
<1>5. \A x \in Runs : rn[x] = IF x = r THEN IdleRun ELSE run[x]
  BY <1>2
<1>6. \A x \in Runs :
        \/ run'[x] = rn[x]
        \/ run'[x].phase = "select" /\ \E i \in DOMAIN queue : x = Fresh(rn, queue[i])
  BY <1>1 DEF Execute, IdleRun
<1> HIDE DEF rn
<1>7. ReservationsExact'
  <2> SUFFICES ASSUME NEW u \in Tasks
               PROVE  /\ reservedKey'[u] = IF HoldsSlot(First(u))' THEN run'[First(u)].key
                                          ELSE NoKey
                      /\ HoldsSlot(First(u))' => run'[First(u)].key \in Keys
    BY DEF ReservationsExact, First
  <2>1. HoldsSlot(First(u))' <=>
          run'[First(u)].phase \in {"start", "prepfail", "prepare", "live", "end"}
    BY DEF HoldsSlot, First
  <2>2. First(u) \in Runs
    BY FirstIsRun
  <2>3. CASE u = t
    <3>1. rn[First(u)].phase = "idle"
      BY <1>2, <1>5, <2>2, <2>3 DEF IdleRun
    <3>2. ~HoldsSlot(First(u))'
      BY <1>6, <2>1, <2>2, <3>1
    <3> QED
      BY <1>2, <1>4, <2>3, <3>2
  <2>4. CASE u # t
    <3>1. First(u) # r /\ rn[First(u)] = run[First(u)] /\ reservedKey'[u] = reservedKey[u]
      BY <1>2, <1>4, <1>5, <2>2, <2>4 DEF First
    <3>2. CASE run'[First(u)] = rn[First(u)]
      BY <2>1, <3>1, <3>2 DEF SlotsExact, ReservationsExact, HoldsSlot
    <3>3. ASSUME run'[First(u)].phase = "select", NEW i \in DOMAIN queue,
                 First(u) = Fresh(rn, queue[i])
          PROVE  ~HoldsSlot(First(u))' /\ ~HoldsSlot(First(u))
      <4>1. rn[First(u)].phase = "idle"
        BY <3>3 DEF Fresh, First
      <4> QED
        BY <2>1, <3>1, <3>3, <4>1 DEF HoldsSlot
    <3> QED
      BY <1>6, <2>2, <3>1, <3>2, <3>3 DEF SlotsExact, ReservationsExact
  <2> QED
    BY <2>3, <2>4
<1> QED
  BY <1>4, <1>7 DEF SlotsExact

LEMMA SlotsRunStep ==
  ASSUME Discipline, SlotsExact, NEW r \in Runs, RunStep(r)
  PROVE  SlotsExact'
<1>1. run[r] \in RunState /\ run \in [Runs -> RunState]
  BY DEF Discipline, TypeOK
<1>2. CASE SelectKey(r)
  BY <1>2, SlotsSelectKey
<1>3. CASE EndRun(r)
  BY <1>3, SlotsEndRun
<1>4. CASE EnqueueTask(r) \/ FailBeforeStart(r)
  <2>1. /\ ~HoldsSlot(r) /\ run' = [run EXCEPT ![r] = IdleRun] /\ IdleRun.phase = "idle"
        /\ UNCHANGED <<keySlotUsage, reservedKey>>
    BY <1>4 DEF EnqueueTask, FailBeforeStart, Turn, HoldsSlot, IdleRun
  <2> QED
    BY <2>1, MoveKeepsSlots, SlotsStay
<1>5. CASE StartRun(r) \/ PrepareFail(r) \/ PrepareOk(r)
  <2>1. PICK p \in {"prepare", "prepfail", "live", "end"} :
          run' = [run EXCEPT ![r] = [run[r] EXCEPT !.phase = p]]
    BY <1>1, <1>5 DEF StartRun, PrepareFail, PrepareOk
  <2> DEFINE s == [run[r] EXCEPT !.phase = p]
  <2>2. HoldsSlot(r) /\ UNCHANGED <<keySlotUsage, reservedKey>>
    BY <1>5 DEF StartRun, PrepareFail, PrepareOk, Turn, HoldsSlot
  <2>3. s.phase = p /\ s.key = run[r].key
    BY <1>1 DEF RunState
  <2> HIDE DEF s
  <2>4. run' = [run EXCEPT ![r] = s]
    BY <2>1 DEF s
  <2> QED
    BY <2>2, <2>3, <2>4, MoveKeepsSlots, SlotsStay
<1> QED
  BY <1>2, <1>3, <1>4, <1>5 DEF RunStep

LEMMA SlotsSessionStep ==
  ASSUME Discipline, SlotsExact, NEW r \in Runs, SessionStep(r)
  PROVE  SlotsExact'
<1>1. run[r] \in RunState /\ run \in [Runs -> RunState]
  BY DEF Discipline, TypeOK
<1>2. run[r].phase = "live" /\ HoldsSlot(r) /\ UNCHANGED <<keySlotUsage, reservedKey>>
  BY DEF SessionStep, SessionSettles, SessionSucceeds, SessionRateLimited, SessionAborts,
         SessionFails, Settle, SessionTimesOut, Ask, HoldsSlot
<1>3. PICK s : /\ run' = [run EXCEPT ![r] = s]
               /\ s.phase \in {"live", "end"} /\ s.key = run[r].key
  <2>1. CASE SessionSettles(r)
    <3>1. run' = [run EXCEPT ![r].phase = "end", ![r].open = {}]
      BY <2>1 DEF SessionSettles, SessionSucceeds, SessionRateLimited, SessionAborts,
                  SessionFails, Settle
    <3> DEFINE s == [run[r] EXCEPT !.phase = "end", !.open = {}]
    <3>2. run' = [run EXCEPT ![r] = s]
      BY <1>1, <3>1
    <3>3. s.phase = "end" /\ s.key = run[r].key
      BY <1>1 DEF RunState
    <3> QED
      BY <3>2, <3>3
  <2>2. CASE SessionTimesOut(r)
    <3> DEFINE s == Aborted(run[r], "timeout")
    <3>1. run' = [run EXCEPT ![r] = s]
      BY <2>2 DEF SessionTimesOut
    <3>2. s.phase = "live" /\ s.key = run[r].key
      BY <1>1, <1>2 DEF Aborted, RunState
    <3> QED
      BY <3>1, <3>2
  <2>3. CASE Ask(r)
    <3>1. PICK n, o : run' = [run EXCEPT ![r] = [run[r] EXCEPT !.asked = n, !.open = o]]
      <4> DEFINE n == run[r].asked + 1
                 o == run[r].open \cup {n}
      <4>1. run' = [run EXCEPT ![r] = [run[r] EXCEPT !.asked = n, !.open = o]]
        BY <1>1, <2>3 DEF Ask
      <4> QED
        BY <4>1
    <3>2. /\ [run[r] EXCEPT !.asked = n, !.open = o].phase = "live"
          /\ [run[r] EXCEPT !.asked = n, !.open = o].key = run[r].key
      BY <1>1, <1>2 DEF RunState
    <3> QED
      BY <3>1, <3>2
  <2> QED
    BY <2>1, <2>2, <2>3 DEF SessionStep
<1> QED
  BY <1>2, <1>3, MoveKeepsSlots, SlotsStay

LEMMA SlotsRequest ==
  ASSUME Discipline, SlotsExact, NEW t \in Tasks, Request(t) \/ TimerFires(t)
  PROVE  SlotsExact'
<1>1. UNCHANGED <<keySlotUsage, reservedKey>>
  BY DEF Request, TimerFires, Create, Rerun, Cancel, Approve, RejectBegin, RejectCommit,
         AnswerHot, AnswerCold, ResumeFromRateLimit, RunDeferred, memVars
<1>2. ASSUME NEW ts, Execute(run, micro, ts) PROVE SlotsExact'
  BY <1>1, <1>2, ExecuteKeepsSlots, SlotsStay
<1>3. ASSUME run' = run PROVE SlotsExact'
  <2>1. \A u \in Tasks : SlotKept(First(u))
    BY <1>3 DEF SlotKept, HoldsSlot, First
  <2> QED
    BY <1>1, <2>1, SlotsStay
<1>4. ASSUME sessions[t] # NoRun, NEW s, run' = [run EXCEPT ![sessions[t]] = s],
             run[sessions[t]] \in RunState =>
               s.phase = run[sessions[t]].phase /\ s.key = run[sessions[t]].key
      PROVE  SlotsExact'
  <2>1. sessions[t] \in Runs /\ run[sessions[t]] \in RunState
    BY <1>4 DEF Discipline, TypeOK
  <2>2. \A u \in Tasks : SlotKept(First(u))
    BY <1>4, <2>1, MoveKeepsSlots DEF HoldsSlot
  <2> QED
    BY <1>1, <2>2, SlotsStay
<1>5. CASE Cancel(t)
  <2>1. CASE sessions[t] = NoRun
    BY <1>3, <1>5, <2>1 DEF Cancel
  <2>2. CASE sessions[t] # NoRun
    <3> DEFINE s == Aborted(run[sessions[t]], "user")
    <3>1. run' = [run EXCEPT ![sessions[t]] = s]
      BY <1>5, <2>2 DEF Cancel
    <3>2. run[sessions[t]] \in RunState =>
            s.phase = run[sessions[t]].phase /\ s.key = run[sessions[t]].key
      BY DEF Aborted, RunState
    <3> QED
      BY <1>4, <2>2, <3>1, <3>2
  <2> QED
    BY <2>1, <2>2
<1>6. ASSUME NEW n \in QuestionNums, AnswerHot(t, n) PROVE SlotsExact'
  <2> DEFINE s == [run[sessions[t]] EXCEPT !.open = @ \ {n}]
  <2>1. sessions[t] # NoRun /\ sessions[t] \in Runs /\ run \in [Runs -> RunState]
    BY <1>6 DEF AnswerHot, Discipline, TypeOK
  <2>2. run' = [run EXCEPT ![sessions[t]] = s]
    BY <1>6, <2>1 DEF AnswerHot
  <2>3. s.phase = run[sessions[t]].phase /\ s.key = run[sessions[t]].key
    BY <2>1 DEF RunState
  <2> QED
    BY <1>4, <2>1, <2>2, <2>3
<1>7. CASE \/ Create(t) \/ (\E u \in Tasks : Rerun(t, u))
           \/ (\E n \in QuestionNums : AnswerCold(t, n)) \/ RunDeferred(t)
  BY <1>2, <1>7 DEF Create, Rerun, AnswerCold, RunDeferred
<1>8. CASE Approve(t) \/ RejectBegin(t) \/ RejectCommit(t)
  BY <1>3, <1>8 DEF Approve, RejectBegin, RejectCommit, memVars
<1>9. CASE ResumeFromRateLimit(t)
  BY <1>2, <1>3, <1>9 DEF ResumeFromRateLimit
<1> QED
  BY <1>5, <1>6, <1>7, <1>8, <1>9 DEF Request, TimerFires

LEMMA SlotsDaemon ==
  ASSUME Discipline, SlotsExact, CancelAll \/ Exit \/ Boot
  PROVE  SlotsExact'
<1>1. CASE CancelAll
  <2>1. \A t \in Tasks : SlotKept(First(t))
    <3> SUFFICES ASSUME NEW t \in Tasks PROVE SlotKept(First(t))
      OBVIOUS
    <3>1. First(t) \in Runs /\ run[First(t)] \in RunState
      BY FirstIsRun DEF Discipline, TypeOK
    <3>2. \/ run'[First(t)] = run[First(t)]
          \/ run'[First(t)] = Aborted(run[First(t)], "shutdown")
      BY <1>1, <3>1 DEF CancelAll
    <3>3. /\ Aborted(run[First(t)], "shutdown").phase = run[First(t)].phase
          /\ Aborted(run[First(t)], "shutdown").key = run[First(t)].key
      BY <3>1 DEF Aborted, RunState
    <3>4. HoldsSlot(First(t))' <=>
            run'[First(t)].phase \in {"start", "prepfail", "prepare", "live", "end"}
      BY DEF HoldsSlot, First
    <3> QED
      BY <3>2, <3>3, <3>4 DEF SlotKept, HoldsSlot
  <2> QED
    BY <1>1, <2>1, SlotsStay DEF CancelAll
<1>2. CASE Exit
  <2>1. /\ run' = [r \in Runs |-> IdleRun] /\ reservedKey' = [t \in Tasks |-> NoKey]
        /\ keySlotUsage' = [k \in Keys |-> 0]
    BY <1>2 DEF Exit
  <2>2. ReservationsExact'
    <3> SUFFICES ASSUME NEW t \in Tasks
                 PROVE  ~HoldsSlot(First(t))' /\ reservedKey'[t] = NoKey
      BY DEF ReservationsExact, First
    <3>1. run'[First(t)].phase = "idle"
      BY <2>1, FirstIsRun DEF IdleRun
    <3> QED
      BY <2>1, <3>1 DEF HoldsSlot, First
  <2>3. CountersExact'
    <3> SUFFICES ASSUME NEW k \in Keys
                 PROVE  /\ keySlotUsage'[k] = Cardinality(ReservedBy(k)')
                        /\ keySlotUsage'[k] <= MaxPerKey
      BY DEF CountersExact
    <3>1. ReservedBy(k)' = {}
      BY <2>1, ConstantsAssumption DEF ReservedBy
    <3> QED
      BY <2>1, <3>1, FS_EmptySet, ConstantsAssumption
  <2> QED
    BY <2>2, <2>3 DEF SlotsExact
<1>3. CASE Boot
  <2>1. PICK ts : Execute(run, micro, ts)
    BY <1>3 DEF Boot
  <2> QED
    BY <1>3, <2>1, ExecuteKeepsSlots, SlotsStay DEF Boot
<1> QED
  BY <1>1, <1>2, <1>3

LEMMA SlotsInit == Init => SlotsExact
<1> SUFFICES ASSUME Init PROVE SlotsExact
  OBVIOUS
<1>1. ReservationsExact
  BY FirstIsRun DEF Init, ReservationsExact, HoldsSlot, IdleRun
<1>2. ASSUME NEW k \in Keys
      PROVE  keySlotUsage[k] = Cardinality(ReservedBy(k)) /\ keySlotUsage[k] <= MaxPerKey
  <2>1. ReservedBy(k) = {} /\ keySlotUsage[k] = 0
    BY ConstantsAssumption DEF ReservedBy, Init
  <2> QED
    BY <2>1, FS_EmptySet, ConstantsAssumption
<1> QED
  BY <1>1, <1>2 DEF SlotsExact, CountersExact

LEMMA SlotsStep == Discipline /\ SlotsExact /\ [Next]_vars => SlotsExact'
<1> SUFFICES ASSUME Discipline, SlotsExact, [Next]_vars PROVE SlotsExact'
  OBVIOUS
<1>1. CASE UNCHANGED vars
  <2>1. UNCHANGED <<run, keySlotUsage, reservedKey>>
    BY <1>1 DEF vars, memVars
  <2>2. \A t \in Tasks : SlotKept(First(t))
    BY <2>1 DEF SlotKept, HoldsSlot, First
  <2> QED
    BY <2>1, <2>2, SlotsStay
<1>2. CASE Next
  BY <1>2, SlotsRunStep, SlotsSessionStep, SlotsRequest, SlotsDaemon DEF Next
<1> QED
  BY <1>1, <1>2

(* The tasks that reserved a key and the runs that hold a slot of it are as *)
(* many.                                                                    *)
HoldersOf(k) == {r \in Runs : HoldsSlot(r) /\ run[r].key = k}
LEMMA HoldersAreReservations ==
  ASSUME Discipline, SlotsExact, NEW k \in Keys
  PROVE  Cardinality(HoldersOf(k)) = keySlotUsage[k]
<1> DEFINE f == [t \in ReservedBy(k) |-> First(t)]
<1>1. NoKey \notin Keys
  BY ConstantsAssumption
<1>2. \A t \in Tasks : t \in ReservedBy(k) <=> First(t) \in HoldersOf(k)
  BY <1>1, FirstIsRun DEF SlotsExact, ReservationsExact, ReservedBy, HoldersOf
<1>3. \A r \in HoldersOf(k) : Task(r) \in Tasks /\ r = First(Task(r))
  BY ActiveIsFirst DEF HoldersOf, HoldsSlot, Discipline
<1>4. ReservedBy(k) \subseteq Tasks
  BY DEF ReservedBy
<1>5. f \in [ReservedBy(k) -> HoldersOf(k)]
  BY <1>2, <1>4
<1>6. \A r \in HoldersOf(k) : \E t \in ReservedBy(k) : f[t] = r
  BY <1>2, <1>3
<1>7. \A t, u \in ReservedBy(k) : f[t] = f[u] => t = u
  BY DEF First
<1>8. f \in Bijection(ReservedBy(k), HoldersOf(k))
  BY <1>5, <1>6, <1>7, Fun_IsBij
<1>9. ExistsBijection(ReservedBy(k), HoldersOf(k))
  BY <1>8, Fun_ExistsBij
<1>10. Cardinality(HoldersOf(k)) = Cardinality(ReservedBy(k))
  BY <1>9, ReservedByIsFinite, FS_Bijection
<1> QED
  BY <1>10 DEF SlotsExact, CountersExact

LEMMA SlotsHold == Spec => [](Discipline /\ SlotsExact)
BY DisciplineInit, DisciplineStep, SlotsInit, SlotsStep, PTL DEF Spec

(* Every counter of the key pool equals the number of runs that hold a slot *)
(* of the key: reserve and release are paired on every path of execute().   *)
THEOREM SlotsAreAccounted == Spec => []SlotAccounting
<1>1. Discipline /\ SlotsExact => SlotAccounting
  BY HoldersAreReservations DEF SlotAccounting, HoldersOf
<1> QED
  BY <1>1, SlotsHold, PTL

(* At most MaxPerKey sessions run on one AI provider key.                   *)
THEOREM KeysAreNotOverloaded == Spec => []KeyCapacity
<1>1. Discipline /\ SlotsExact => KeyCapacity
  <2> SUFFICES ASSUME Discipline, SlotsExact, NEW k \in Keys
               PROVE  Cardinality(HoldersOf(k)) <= MaxPerKey
    BY DEF KeyCapacity, HoldersOf
  <2> QED
    BY HoldersAreReservations DEF SlotsExact, CountersExact
<1> QED
  BY <1>1, SlotsHold, PTL

-----------------------------------------------------------------------------
(* Whose work a row is.  RowsAreOwned is not inductive: a run that is about *)
(* to end must have written its row already, and only a daemon that stops   *)
(* lets a session end without a word.                                       *)

Abort(t) == run[First(t)].abort
Working == {"prepfail", "prepare", "live"}
RowOwned(t) ==
  /\ status[t] = "rate_limited" => t \in resumeAt
  /\ Abort(t) = "shutdown" => daemon # "up" /\ Phase(t) # "idle"
  /\ daemon = "up" =>
       /\ status[t] = "running" => Phase(t) \in Working
       /\ status[t] = "queued" => t \in Parked \/ Phase(t) # "idle"
       /\ status[t] = "rate_limited" => t \in timers
Owned == \A t \in Tasks : RowOwned(t)

(* A task whose row the step does not touch: its run stays in its phase,    *)
(* starts, or leaves the queue for a run.                                   *)
LEMMA StaysOwned ==
  ASSUME NEW t \in Tasks, RowOwned(t), status'[t] = status[t],
         t \in resumeAt => t \in resumeAt', t \in timers => t \in timers',
         Abort(t)' \in {Abort(t), "none"}, daemon' = daemon,
         t \in Parked => t \in Parked' \/ Phase(t)' # "idle",
         Phase(t)' = Phase(t) \/ Phase(t) = "idle"
  PROVE  RowOwned(t)'
<1>1. "idle" \notin Working
  BY DEF Working
<1> QED
  BY <1>1 DEF RowOwned, Working

(* A step that changes nothing of this. *)
LEMMA NothingOwned ==
  ASSUME Owned, UNCHANGED <<run, status, resumeAt, timers, queue, deferred, daemon>>
  PROVE  Owned'
<1>1. ASSUME NEW u \in Tasks PROVE RowOwned(u)'
  <2>1. /\ Parked' = Parked /\ Phase(u)' = Phase(u) /\ Abort(u)' = Abort(u)
        /\ RowOwned(u) /\ status'[u] = status[u]
    BY DEF Owned, Abort, Phase, First, Parked
  <2> QED
    BY <2>1, StaysOwned
<1> QED
  BY <1>1 DEF Owned

(* execute() on the tasks ts: each of them has a run, and every other run   *)
(* is as it was.                                                            *)
LEMMA ExecuteOwns ==
  ASSUME NEW rn \in [Runs -> RunState], NEW mq, NEW ts, Execute(rn, mq, ts)
  PROVE  \A u \in Tasks :
           /\ Phase(u)' = rn[First(u)].phase \/ rn[First(u)].phase = "idle"
           /\ Abort(u)' \in {rn[First(u)].abort, "none"}
           /\ u \in ToSet(ts) => Phase(u)' # "idle"
<1> SUFFICES ASSUME NEW u \in Tasks
             PROVE  /\ Phase(u)' = rn[First(u)].phase \/ rn[First(u)].phase = "idle"
                    /\ Abort(u)' \in {rn[First(u)].abort, "none"}
                    /\ u \in ToSet(ts) => Phase(u)' # "idle"
  OBVIOUS
<1> DEFINE S == [IdleRun EXCEPT !.phase = "select"]
<1>1. First(u) \in Runs
  BY FirstIsRun
<1>2. run'[First(u)] = IF \E i \in DOMAIN ts : First(u) = Fresh(rn, ts[i])
                       THEN S ELSE rn[First(u)]
  BY <1>1 DEF Execute
<1>3. S.phase = "select" /\ S.abort = "none"
  BY DEF IdleRun
<1> HIDE DEF S
<1>4. Phase(u)' = run'[First(u)].phase /\ Abort(u)' = run'[First(u)].abort
  BY DEF Phase, Abort, First
<1>5. ASSUME NEW i \in DOMAIN ts, First(u) = Fresh(rn, ts[i])
      PROVE  rn[First(u)].phase = "idle"
  BY <1>5 DEF Fresh, First
<1>6. ASSUME u \in ToSet(ts), rn[First(u)].phase = "idle"
      PROVE  \E i \in DOMAIN ts : First(u) = Fresh(rn, ts[i])
  BY <1>6 DEF Fresh, First, ToSet
<1> QED
  BY <1>2, <1>3, <1>4, <1>5, <1>6

(* One run changes, and at most the row of its task with it. *)
OthersKept(t) ==
  \A u \in Tasks \ {t} : /\ status'[u] = status[u]
                         /\ u \in resumeAt => u \in resumeAt'
                         /\ u \in timers => u \in timers'
                         /\ u \in Parked => u \in Parked'
LEMMA RunMovesOwned ==
  ASSUME Discipline, Owned, NEW t \in Tasks, NEW s, run' = [run EXCEPT ![First(t)] = s],
         OthersKept(t), daemon' = daemon,
         s.abort = "shutdown" => daemon # "up" /\ s.phase # "idle",
         status'[t] = "rate_limited" => t \in resumeAt' /\ (daemon = "up" => t \in timers'),
         daemon = "up" =>
           /\ status'[t] = "running" => s.phase \in Working
           /\ status'[t] = "queued" => t \in Parked' \/ s.phase # "idle"
  PROVE  Owned'
<1>1. \A u \in Tasks : /\ run'[First(u)] = IF u = t THEN s ELSE run[First(u)]
                       /\ Phase(u)' = IF u = t THEN s.phase ELSE Phase(u)
  BY OneMoves DEF Discipline
<1>2. \A u \in Tasks : Abort(u)' = run'[First(u)].abort
  BY DEF Abort, First
<1>3. ASSUME NEW u \in Tasks \ {t} PROVE RowOwned(u)'
  <2>1. Abort(u)' = Abort(u) /\ Phase(u)' = Phase(u) /\ RowOwned(u)
    BY <1>1, <1>2, <1>3 DEF Abort, Owned
  <2> QED
    BY <1>3, <2>1, StaysOwned DEF OthersKept
<1>4. RowOwned(t)'
  <2>1. Abort(t)' = s.abort /\ Phase(t)' = s.phase
    BY <1>1, <1>2
  <2> QED
    BY <2>1 DEF RowOwned, Working
<1>5. \A u \in Tasks : RowOwned(u)'
  BY <1>3, <1>4
<1> QED
  BY <1>5 DEF Owned

LEMMA OwnedRunStep ==
  ASSUME Discipline, Owned, NEW r \in Runs, RunStep(r)
  PROVE  Owned'
<1> DEFINE t == Task(r)
<1>0. run[r].phase # "idle"
  BY DEF RunStep, SelectKey, EnqueueTask, FailBeforeStart, StartRun, PrepareFail, PrepareOk,
         EndRun, Turn
<1>1. /\ t \in Tasks /\ r = First(t) /\ run[r] \in RunState /\ run \in [Runs -> RunState]
      /\ status \in [Tasks -> Status] /\ queue \in Seq(Tasks)
      /\ status[t] \in StatusIn(run[r].phase) /\ RowOwned(t) /\ t \notin ToSet(queue)
      /\ run[r].phase = Phase(t) /\ run[r].abort = Abort(t)
  BY <1>0, Mover DEF Discipline, TypeOK, Owned, Phase, Abort
<1>2. /\ t \notin Parked
      /\ status[t] = "rate_limited" => t \in resumeAt
      /\ run[r].abort = "shutdown" => daemon # "up"
      /\ daemon = "up" /\ status[t] = "rate_limited" => t \in timers
      /\ daemon = "up" /\ status[t] = "running" => run[r].phase \in Working
  BY <1>0, <1>1, Mover DEF RowOwned
<1>3. CASE SelectKey(r)
  <2>1. run[r].phase = "select" /\ UNCHANGED <<status, resumeAt, timers, queue, deferred, daemon>>
    BY <1>3 DEF SelectKey, Turn, dbVars
  <2>2. PICK s \in RunState : /\ run' = [run EXCEPT ![r] = s] /\ s.abort = run[r].abort
                             /\ s.phase \in {"select", "start", "nokey", "enqueue"}
    <3>1. CASE \E k \in Selectable(t, run[r].excl) :
                 run' = [run EXCEPT ![r].phase = "start", ![r].key = k]
      <4>k. PICK k \in Selectable(t, run[r].excl) :
              run' = [run EXCEPT ![r].phase = "start", ![r].key = k]
        BY <3>1
      <4>0. k \in Keys
        BY <1>1 DEF Selectable, Discipline, TypeOK
      <4> DEFINE s == [run[r] EXCEPT !.phase = "start", !.key = k]
      <4>2. s \in RunState /\ s.abort = run[r].abort /\ s.phase = "start"
        BY <1>1, <4>0 DEF RunState, Phases, MicroPhases
      <4>3. run' = [run EXCEPT ![r] = s]
        BY <1>1, <4>k
      <4> HIDE DEF s
      <4> QED
        BY <4>2, <4>3
    <3>2. CASE \E k \in Selectable(t, run[r].excl) : run' = [run EXCEPT ![r].excl = @ \cup {k}]
      <4>1. PICK k \in Keys : run' = [run EXCEPT ![r] = [run[r] EXCEPT !.excl = @ \cup {k}]]
        BY <1>1, <3>2 DEF Selectable, Discipline, TypeOK
      <4> DEFINE s == [run[r] EXCEPT !.excl = @ \cup {k}]
      <4>2. s \in RunState /\ s.abort = run[r].abort /\ s.phase = "select"
        BY <1>1, <2>1 DEF RunState
      <4> QED
        BY <4>1, <4>2
    <3>3. CASE \E p \in {"nokey", "enqueue"} : run' = [run EXCEPT ![r].phase = p]
      <4>1. PICK p \in {"nokey", "enqueue"} : run' = [run EXCEPT ![r] = [run[r] EXCEPT !.phase = p]]
        BY <1>1, <3>3
      <4> DEFINE s == [run[r] EXCEPT !.phase = p]
      <4>2. s \in RunState /\ s.abort = run[r].abort /\ s.phase = p
        BY <1>1 DEF RunState, Phases, MicroPhases
      <4> QED
        BY <4>1, <4>2
    <3> QED
      BY <1>3, <3>1, <3>2, <3>3 DEF SelectKey
  <2>3. Parked' = Parked /\ s.phase # "idle" /\ status[t] # "running"
    BY <1>1, <2>1, <2>2 DEF Parked, StatusIn
  <2>4. run' = [run EXCEPT ![First(t)] = s] /\ (s.abort = "shutdown" => daemon # "up" /\ s.phase # "idle")
    BY <1>1, <1>2, <2>2
  <2>5. OthersKept(t)
    BY <2>1, <2>3 DEF OthersKept
  <2>6. /\ status'[t] = "rate_limited" => t \in resumeAt' /\ (daemon = "up" => t \in timers')
        /\ daemon' = daemon /\ t \in Tasks
    BY <1>1, <1>2, <2>1
  <2>7. daemon = "up" => /\ status'[t] = "running" => s.phase \in Working
                         /\ status'[t] = "queued" => t \in Parked' \/ s.phase # "idle"
    BY <2>1, <2>3
  <2> QED
    BY <2>4, <2>5, <2>6, <2>7, RunMovesOwned
<1>4. CASE EnqueueTask(r)
  <2>1. /\ run[r].phase = "enqueue" /\ UNCHANGED <<status, resumeAt, timers, deferred, daemon>>
        /\ queue' = Append(queue, t) /\ run' = [run EXCEPT ![r] = IdleRun]
    BY <1>1, <1>4 DEF EnqueueTask, Turn, dbVars
  <2>2. ToSet(queue') = ToSet(queue) \cup {t}
    BY <1>0, <1>1, <2>1, Mover, AppendFacts
  <2>3. t \in Parked' /\ Parked \subseteq Parked' /\ status[t] # "running"
    BY <1>1, <2>1, <2>2 DEF Parked, StatusIn
  <2>4. IdleRun.abort = "none" /\ run' = [run EXCEPT ![First(t)] = IdleRun]
    BY <1>1, <2>1 DEF IdleRun
  <2>5. OthersKept(t)
    BY <2>1, <2>3 DEF OthersKept
  <2>6. /\ status'[t] = "rate_limited" => t \in resumeAt' /\ (daemon = "up" => t \in timers')
        /\ daemon' = daemon /\ t \in Tasks /\ IdleRun.abort # "shutdown"
    BY <1>1, <1>2, <2>1, <2>4
  <2>7. daemon = "up" => /\ status'[t] = "running" => IdleRun.phase \in Working
                         /\ status'[t] = "queued" => t \in Parked' \/ IdleRun.phase # "idle"
    BY <2>1, <2>3
  <2> QED
    BY <2>4, <2>5, <2>6, <2>7, RunMovesOwned
<1>5. CASE FailBeforeStart(r)
  <2>1. /\ run[r].phase = "nokey" /\ UNCHANGED <<resumeAt, timers, queue, deferred, daemon>>
        /\ status' = [status EXCEPT ![t] = "failed"] /\ run' = [run EXCEPT ![r] = IdleRun]
    BY <1>5 DEF FailBeforeStart, Turn
  <2>2. Parked' = Parked /\ status'[t] = "failed" /\ \A u \in Tasks \ {t} : status'[u] = status[u]
    BY <1>1, <2>1 DEF Parked
  <2>3. IdleRun.abort = "none"
    BY DEF IdleRun
  <2> QED
    BY <1>1, <2>1, <2>2, <2>3, RunMovesOwned DEF OthersKept
<1>6. CASE StartRun(r) \/ PrepareFail(r) \/ PrepareOk(r)
  <2>1. PICK p \in Working \cup {"end"} :
          /\ run' = [run EXCEPT ![r] = [run[r] EXCEPT !.phase = p]]
          /\ \/ status' = [status EXCEPT ![t] = "failed"]
             \/ status' = [status EXCEPT ![t] = "running"] /\ p \in Working
             \/ status' = status /\ p = "live" /\ run[r].phase = "prepare"
    BY <1>1, <1>6 DEF StartRun, PrepareFail, PrepareOk, Turn, Working
  <2>2. UNCHANGED <<resumeAt, timers, queue, deferred, daemon>>
    BY <1>6 DEF StartRun, PrepareFail, PrepareOk
  <2> DEFINE s == [run[r] EXCEPT !.phase = p]
  <2>3. s.phase = p /\ s.abort = run[r].abort /\ p # "idle"
    BY <1>1 DEF RunState, Working
  <2> HIDE DEF s
  <2>4. run' = [run EXCEPT ![First(t)] = s]
    BY <1>1, <2>1 DEF s
  <2>5. /\ Parked' = Parked /\ \A u \in Tasks \ {t} : status'[u] = status[u]
        /\ status'[t] # "rate_limited" /\ status'[t] # "queued"
        /\ status'[t] = "running" => p \in Working
    BY <1>1, <2>1, <2>2 DEF Parked, StatusIn, Working
  <2> QED
    BY <1>1, <1>2, <2>2, <2>3, <2>4, <2>5, RunMovesOwned DEF OthersKept
<1>7. CASE EndRun(r)
  <2> DEFINE rn == [run EXCEPT ![r] = IdleRun]
  <2>1. /\ run[r].phase = "end" /\ Execute(rn, Tail(micro), queue) /\ queue' = <<>>
        /\ UNCHANGED <<status, resumeAt, timers, deferred, daemon>>
    BY <1>7 DEF EndRun, Turn, dbVars
  <2>2. /\ rn \in [Runs -> RunState] /\ rn[r] = IdleRun
        /\ \A u \in Tasks \ {t} : rn[First(u)] = run[First(u)]
    BY <1>1, IdleRunType, FirstIsRun DEF First
  <2> HIDE DEF rn
  <2>3. \A u \in Tasks :
           /\ Phase(u)' = rn[First(u)].phase \/ rn[First(u)].phase = "idle"
           /\ Abort(u)' \in {rn[First(u)].abort, "none"}
           /\ u \in ToSet(queue) => Phase(u)' # "idle"
    BY <2>1, <2>2, ExecuteOwns
  <2>4. ASSUME NEW u \in Tasks \ {t} PROVE RowOwned(u)'
    <3>1. /\ u \in Parked => u \in Parked' \/ Phase(u)' # "idle"
          /\ Phase(u)' = Phase(u) \/ Phase(u) = "idle"
          /\ Abort(u)' \in {Abort(u), "none"}
      BY <2>1, <2>2, <2>3 DEF Parked, Phase, Abort
    <3> QED
      BY <2>1, <3>1, StaysOwned DEF Owned
  <2>5. RowOwned(t)'
    <3>1. Abort(t)' = "none"
      BY <1>1, <2>2, <2>3 DEF IdleRun
    <3>2. status[t] # "queued" /\ (daemon = "up" => status[t] # "running")
      BY <1>1, <1>2, <2>1 DEF StatusIn, Working
    <3> QED
      BY <1>2, <2>1, <3>1, <3>2 DEF RowOwned
  <2>6. \A u \in Tasks : RowOwned(u)'
    BY <2>4, <2>5
  <2> QED
    BY <2>6 DEF Owned
<1> QED
  BY <1>3, <1>4, <1>5, <1>6, <1>7 DEF RunStep

LEMMA OwnedSessionStep ==
  ASSUME Discipline, Owned, NEW r \in Runs, SessionStep(r)
  PROVE  Owned'
<1> DEFINE t == Task(r)
<1>0. run[r].phase = "live" /\ UNCHANGED <<queue, daemon>>
  BY DEF SessionStep, SessionSettles, SessionSucceeds, SessionRateLimited, SessionAborts,
         SessionFails, Settle, SessionTimesOut, Ask
<1>1. /\ t \in Tasks /\ r = First(t) /\ run[r] \in RunState /\ run \in [Runs -> RunState]
      /\ status \in [Tasks -> Status]
      /\ status[t] \in {"running", "waiting_for_input", "cancelled", "done"} /\ RowOwned(t)
      /\ run[r].abort = "shutdown" => daemon # "up"
  BY <1>0, Mover DEF Discipline, TypeOK, Owned, RowOwned, Abort, StatusIn
<1>2. CASE SessionSettles(r)
  <2> DEFINE s == [run[r] EXCEPT !.phase = "end", !.open = {}]
  <2>1. run' = [run EXCEPT ![r] = s]
    BY <1>1, <1>2 DEF SessionSettles, SessionSucceeds, SessionRateLimited, SessionAborts,
                      SessionFails, Settle
  <2>2. s.phase = "end" /\ s.abort = run[r].abort
    BY <1>1 DEF RunState
  <2> HIDE DEF s
  <2>3. ASSUME NEW u \in Tasks, status[u] = "absent", deferred' = deferred \cup {u},
               status' = [status EXCEPT ![t] = IF @ = "cancelled" THEN @ ELSE "failed",
                                        ![u] = "queued"],
               UNCHANGED <<resumeAt, timers>>
        PROVE  Owned'
    <3>2. u # t /\ u \in Parked' /\ Parked \subseteq Parked'
      BY <1>0, <1>1, <2>3 DEF Parked
    <3>3. /\ status'[t] \in {"cancelled", "failed"} /\ status'[u] = "queued"
          /\ \A v \in Tasks \ {t, u} : status'[v] = status[v]
      BY <1>1, <2>3, <3>2
    <3>4. \A v \in Tasks : /\ run'[First(v)] = IF v = t THEN s ELSE run[First(v)]
                           /\ Phase(v)' = IF v = t THEN s.phase ELSE Phase(v)
      BY <1>1, <2>1, OneMoves DEF Discipline
    <3>5. \A v \in Tasks : Abort(v)' = IF v = t THEN run[r].abort ELSE Abort(v)
      <4>1. \A v \in Tasks : Abort(v)' = run'[First(v)].abort
        BY DEF Abort, First
      <4> QED
        BY <2>2, <3>4, <4>1 DEF Abort
    <3>6. \A v \in Tasks \ {t, u} : RowOwned(v)'
      BY <1>0, <2>3, <3>2, <3>3, <3>4, <3>5, StaysOwned DEF Owned
    <3>7. RowOwned(t)'
      BY <1>0, <1>1, <2>2, <3>3, <3>4, <3>5 DEF RowOwned
    <3>8. RowOwned(u)'
      BY <1>0, <2>3, <3>2, <3>3, <3>4, <3>5 DEF RowOwned, Owned
    <3>9. \A v \in Tasks : RowOwned(v)'
      BY <3>6, <3>7, <3>8
    <3> QED
      BY <3>9 DEF Owned
  <2> DEFINE Outcomes == {"done", "pending_approval", "failed", "timed_out", "cancelled"}
             Final(v) == status' = [status EXCEPT ![t] = IF @ = "cancelled" THEN @ ELSE v]
  <2>4. ASSUME deferred' = deferred,
               \/ /\ \/ \E v \in Outcomes : Final(v)
                     \/ status' = status /\ (run[r].abort = "shutdown" \/ daemon = "stopping")
                  /\ UNCHANGED <<resumeAt, timers>>
               \/ /\ status' = [status EXCEPT ![t] = "rate_limited"]
                  /\ resumeAt' = resumeAt \cup {t} /\ timers' = timers \cup {t}
        PROVE  Owned'
    <3>1. /\ Parked' = Parked /\ \A u \in Tasks \ {t} : status'[u] = status[u]
          /\ status'[t] = "rate_limited" => t \in resumeAt' /\ t \in timers'
          /\ resumeAt \subseteq resumeAt' /\ timers \subseteq timers'
          /\ daemon = "up" => status'[t] \notin {"queued", "running"}
      BY <1>0, <1>1, <2>4 DEF Parked
    <3>2. run' = [run EXCEPT ![First(t)] = s] /\ (s.abort = "shutdown" => daemon # "up" /\ s.phase # "idle")
      BY <1>1, <2>1, <2>2
    <3> QED
      BY <1>0, <1>1, <2>2, <3>1, <3>2, RunMovesOwned DEF OthersKept
  <2>5. CASE SessionSucceeds(r)
    BY <2>4, <2>5 DEF SessionSucceeds
  <2>6. CASE SessionRateLimited(r)
    BY <2>4, <2>6 DEF SessionRateLimited
  <2>7. CASE SessionAborts(r)
    BY <2>4, <2>7 DEF SessionAborts, finalizeError, LeavesRowForBoot
  <2>8. CASE SessionFails(r)
    BY <2>3, <2>4, <2>8 DEF SessionFails, finalizeError
  <2> QED
    BY <1>2, <2>5, <2>6, <2>7, <2>8 DEF SessionSettles
<1>3. CASE SessionTimesOut(r) \/ Ask(r)
  <2>1. PICK s : /\ run' = [run EXCEPT ![r] = s]
                 /\ s.phase = "live" /\ s.abort \in {run[r].abort, "timeout"}
    <3>1. CASE SessionTimesOut(r)
      <4> DEFINE s == Aborted(run[r], "timeout")
      <4>1. run' = [run EXCEPT ![r] = s]
        BY <3>1 DEF SessionTimesOut
      <4>2. s.phase = "live" /\ s.abort \in {run[r].abort, "timeout"}
        BY <1>0, <1>1 DEF Aborted, RunState
      <4> QED
        BY <4>1, <4>2
    <3>2. CASE Ask(r)
      <4> DEFINE n == run[r].asked + 1
                 s == [run[r] EXCEPT !.asked = n, !.open = @ \cup {n}]
      <4>1. run' = [run EXCEPT ![r] = s]
        BY <1>1, <3>2 DEF Ask
      <4>2. s.phase = "live" /\ s.abort = run[r].abort
        BY <1>0, <1>1 DEF RunState
      <4> QED
        BY <4>1, <4>2
    <3> QED
      BY <1>3, <3>1, <3>2
  <2>2. /\ UNCHANGED <<resumeAt, timers, deferred>>
        /\ \/ status' = status
           \/ status' = [status EXCEPT ![t] = "waiting_for_input"]
    BY <1>1, <1>3 DEF SessionTimesOut, Ask, dbVars
  <2>3. /\ Parked' = Parked /\ \A u \in Tasks \ {t} : status'[u] = status[u]
        /\ status'[t] \notin {"rate_limited", "queued"}
    BY <1>0, <1>1, <2>2 DEF Parked
  <2>4. s.phase \in Working /\ (s.abort = "shutdown" => daemon # "up" /\ s.phase # "idle")
    BY <1>1, <2>1 DEF Working
  <2> QED
    BY <1>0, <1>1, <2>1, <2>2, <2>3, <2>4, RunMovesOwned DEF OthersKept
<1> QED
  BY <1>2, <1>3 DEF SessionStep

(* execute() on t alone, whose row then says queued or cancelled. *)
LEMMA StartOwned ==
  ASSUME Discipline, Owned, NEW t \in Tasks, Execute(run, micro, <<t>>), OthersKept(t),
         status'[t] \in {"queued", "cancelled"}, daemon' = daemon
  PROVE  Owned'
<1>1. \A u \in Tasks :
           /\ Phase(u)' = Phase(u) \/ Phase(u) = "idle"
           /\ Abort(u)' \in {Abort(u), "none"}
           /\ u \in ToSet(<<t>>) => Phase(u)' # "idle"
  <2>1. run \in [Runs -> RunState]
    BY DEF Discipline, TypeOK
  <2> QED
    BY <2>1, ExecuteOwns DEF Phase, Abort
<1>2. t \in ToSet(<<t>>)
  BY SingletonFacts
<1>3. ASSUME NEW u \in Tasks \ {t} PROVE RowOwned(u)'
  BY <1>1, <1>3, StaysOwned DEF OthersKept, Owned
<1>4. RowOwned(t)'
  <2>1. Phase(t)' # "idle" /\ Abort(t)' \in {Abort(t), "none"} /\ RowOwned(t)
    BY <1>1, <1>2 DEF Owned
  <2> QED
    BY <2>1 DEF RowOwned
<1>5. \A u \in Tasks : RowOwned(u)'
  BY <1>3, <1>4
<1> QED
  BY <1>5 DEF Owned

LEMMA OwnedRequest ==
  ASSUME Discipline, Owned, NEW t \in Tasks, Request(t) \/ TimerFires(t)
  PROVE  Owned'
<1>1. /\ status \in [Tasks -> Status] /\ RowOwned(t) /\ queue \in Seq(Tasks)
      /\ daemon' = daemon /\ run \in [Runs -> RunState]
  BY DEF Discipline, TypeOK, Owned, Request, TimerFires, Create, Rerun, Cancel, Approve,
         RejectBegin, RejectCommit, AnswerHot, AnswerCold, ResumeFromRateLimit, RunDeferred,
         memVars
<1>2. CASE Create(t) \/ \E n \in QuestionNums : AnswerCold(t, n)
  <2>1. /\ Execute(run, micro, <<t>>) /\ status' = [status EXCEPT ![t] = "queued"]
        /\ UNCHANGED <<resumeAt, timers, queue, deferred>>
    BY <1>2 DEF Create, AnswerCold
  <2>2. OthersKept(t) /\ status'[t] = "queued"
    BY <1>1, <2>1 DEF OthersKept, Parked
  <2> QED
    BY <1>1, <2>1, <2>2, StartOwned
<1>3. ASSUME NEW u \in Tasks, Rerun(t, u) PROVE Owned'
  <2>1. /\ Execute(run, micro, <<u>>) /\ status' = [status EXCEPT ![u] = "queued"]
        /\ UNCHANGED <<resumeAt, timers, queue, deferred>>
    BY <1>3 DEF Rerun
  <2>2. OthersKept(u) /\ status'[u] = "queued"
    BY <1>1, <2>1 DEF OthersKept, Parked
  <2> QED
    BY <1>1, <2>1, <2>2, StartOwned
<1>4. CASE RunDeferred(t)
  <2>1. /\ Execute(run, micro, <<t>>) /\ t \in deferred /\ deferred' = deferred \ {t}
        /\ UNCHANGED <<status, resumeAt, timers, queue>>
    BY <1>4 DEF RunDeferred, dbVars
  <2>2. status[t] \in {"queued", "cancelled"}
    BY <2>1 DEF Parked, Discipline, QueueDiscipline
  <2>3. OthersKept(t) /\ status'[t] \in {"queued", "cancelled"}
    BY <2>1, <2>2 DEF OthersKept, Parked
  <2> QED
    BY <1>1, <2>1, <2>3, StartOwned
<1>5. CASE ResumeFromRateLimit(t)
  <2>1. CASE status[t] = "rate_limited"
    <3>1. /\ Execute(run, micro, <<t>>) /\ status' = [status EXCEPT ![t] = "queued"]
          /\ resumeAt' = resumeAt \ {t} /\ timers' = timers \ {t}
          /\ UNCHANGED <<queue, deferred>>
      BY <1>5, <2>1 DEF ResumeFromRateLimit
    <3>2. OthersKept(t) /\ status'[t] = "queued"
      BY <1>1, <3>1 DEF OthersKept, Parked
    <3> QED
      BY <1>1, <3>1, <3>2, StartOwned
  <2>2. CASE status[t] # "rate_limited"
    <3>1. timers' = timers \ {t} /\ UNCHANGED <<status, resumeAt, run, queue, deferred, daemon>>
      BY <1>5, <2>2 DEF ResumeFromRateLimit
    <3>2. ASSUME NEW u \in Tasks PROVE RowOwned(u)'
      <4>1. /\ Parked' = Parked /\ Phase(u)' = Phase(u) /\ Abort(u)' = Abort(u)
            /\ RowOwned(u) /\ status'[u] = status[u]
        BY <3>1 DEF Owned, Abort, Phase, First, Parked
      <4> QED
        BY <2>2, <3>1, <4>1 DEF RowOwned
    <3> QED
      BY <3>2 DEF Owned
  <2> QED
    BY <2>1, <2>2
<1>6. ASSUME NEW s, run' = [run EXCEPT ![First(t)] = s], OthersKept(t),
             s.abort = "shutdown" => Abort(t) = "shutdown", s.phase = Phase(t),
             \/ status'[t] \in {"done", "cancelled", "waiting_for_input"}
             \/ status'[t] = "running" /\ s.phase = "live"
      PROVE  Owned'
  <2>1. s.abort = "shutdown" => daemon # "up" /\ s.phase # "idle"
    BY <1>1, <1>6 DEF RowOwned
  <2>2. /\ status'[t] # "rate_limited" /\ status'[t] # "queued"
        /\ status'[t] = "running" => s.phase \in Working
    BY <1>6 DEF Working
  <2> QED
    BY <1>1, <1>6, <2>1, <2>2, RunMovesOwned
<1>7. ASSUME sessions[t] # NoRun
      PROVE  /\ sessions[t] = First(t) /\ Phase(t) = "live" /\ First(t) \in Runs
             /\ status[t] \in {"running", "waiting_for_input", "cancelled", "done"}
             /\ run[First(t)] \in RunState
  <2>1. sessions[t] = First(t) /\ Phase(t) = "live" /\ First(t) \in Runs
    BY <1>7, FirstIsRun DEF Discipline, SessionsExact
  <2> QED
    BY <1>1, <2>1 DEF Discipline, PhaseStatus, StatusIn
<1>8. CASE Cancel(t)
  <2>1. /\ queue' = Dequeued(queue, t) /\ timers' = timers \ {t} /\ resumeAt' = resumeAt \ {t}
        /\ status' = [status EXCEPT ![t] = "cancelled"] /\ deferred' = deferred
        /\ run' = IF sessions[t] = NoRun THEN run
                  ELSE [run EXCEPT ![sessions[t]] = Aborted(@, "user")]
    BY <1>8 DEF Cancel
  <2>2. ToSet(queue') = ToSet(queue) \ {t}
    BY <1>1, <2>1, DequeuedFacts DEF Discipline, QueueDiscipline
  <2>3. OthersKept(t) /\ status'[t] = "cancelled"
    BY <1>1, <2>1, <2>2 DEF OthersKept, Parked
  <2>4. CASE sessions[t] = NoRun
    BY <1>6, <2>1, <2>3, <2>4, SameRun DEF Discipline, Abort
  <2>5. CASE sessions[t] # NoRun
    <3> DEFINE s == Aborted(run[First(t)], "user")
    <3>1. run' = [run EXCEPT ![First(t)] = s]
      BY <1>7, <2>1, <2>5
    <3>2. s.phase = Phase(t) /\ (s.abort = "shutdown" => Abort(t) = "shutdown")
      BY <1>7, <2>5 DEF Aborted, RunState, Phase, Abort
    <3> QED
      BY <1>6, <2>3, <3>1, <3>2
  <2> QED
    BY <2>4, <2>5
<1>9. ASSUME NEW n \in QuestionNums, AnswerHot(t, n) PROVE Owned'
  <2> DEFINE s == [run[First(t)] EXCEPT !.open = @ \ {n}]
  <2>1. sessions[t] # NoRun /\ UNCHANGED <<resumeAt, timers, queue, deferred>>
    BY <1>9 DEF AnswerHot
  <2>2. run' = [run EXCEPT ![First(t)] = s]
    BY <1>1, <1>7, <1>9, <2>1 DEF AnswerHot
  <2>3. s.phase = "live" /\ s.phase = Phase(t) /\ s.abort = Abort(t)
    BY <1>7, <2>1 DEF RunState, Phase, Abort
  <2>4. /\ status' = [status EXCEPT ![t] = status'[t]]
        /\ status'[t] \in {"running", "waiting_for_input", "cancelled", "done"}
    BY <1>1, <1>7, <1>9, <2>1 DEF AnswerHot
  <2>5. OthersKept(t)
    BY <1>1, <2>1, <2>4 DEF OthersKept, Parked
  <2> QED
    BY <1>6, <2>2, <2>3, <2>4, <2>5
<1>10. CASE Approve(t) \/ RejectBegin(t) \/ RejectCommit(t)
  <2>1. /\ UNCHANGED <<run, resumeAt, timers, queue, deferred, daemon>>
        /\ \/ status' = status
           \/ \E v \in {"done", "cancelled"} : status' = [status EXCEPT ![t] = v]
    BY <1>10 DEF Approve, RejectBegin, RejectCommit, memVars
  <2>2. CASE status' = status
    BY <2>1, <2>2, NothingOwned
  <2>3. CASE status' # status
    <3>1. OthersKept(t) /\ status'[t] \in {"done", "cancelled"}
      BY <1>1, <2>1, <2>3 DEF OthersKept, Parked
    <3> QED
      BY <1>6, <2>1, <3>1, SameRun DEF Discipline, Abort
  <2> QED
    BY <2>2, <2>3
<1> QED
  BY <1>2, <1>3, <1>4, <1>5, <1>8, <1>9, <1>10 DEF Request, TimerFires

(* Every row that is requeued at boot is among those handed to execute().   *)
LEMMA OrderingsAreComplete ==
  ASSUME NEW S, S \subseteq Tasks, NEW q \in SetToSeqs(S)
  PROVE  ToSet(q) = S
<1> DEFINE D == 1..Cardinality(S)
<1>1. IsFiniteSet(S) /\ Cardinality(S) \in Nat
  BY TasksAssumption, FS_Subset, FS_CardinalityType
<1>2. q \in [D -> S] /\ \A i, j \in D : q[i] = q[j] => i = j
  BY DEF SetToSeqs
<1>3. q \in Injection(D, S)
  BY <1>2, Fun_IsInj
<1>4. IsFiniteSet(D) /\ Cardinality(D) = Cardinality(S)
  BY <1>1, FS_Interval
<1>5. q \in Surjection(D, S)
  BY <1>1, <1>3, <1>4, FS_Injection
<1> HIDE DEF D
<1>6. \A x \in S : \E i \in D : q[i] = x
  BY <1>5, Fun_SurjectionProperties
<1> QED
  BY <1>2, <1>6 DEF ToSet

LEMMA OwnedDaemon ==
  ASSUME Discipline, Owned, CancelAll \/ Exit \/ Boot
  PROVE  Owned'
<1>1. CASE CancelAll
  <2>1. /\ UNCHANGED <<status, resumeAt>> /\ daemon' = "stopping"
        /\ run' = [r \in Runs |-> IF sessions[Task(r)] = r
                                  THEN Aborted(run[r], "shutdown") ELSE run[r]]
    BY <1>1 DEF CancelAll, dbVars
  <2>2. ASSUME NEW t \in Tasks PROVE RowOwned(t)'
    <3>1. /\ First(t) \in Runs /\ Task(First(t)) = t /\ run[First(t)] \in RunState
          /\ RowOwned(t) /\ First(t) # NoRun
      BY FirstIsRun, ConstantsAssumption DEF Discipline, TypeOK, Owned, Runs
    <3>2. Abort(t)' = run'[First(t)].abort /\ Phase(t)' = run'[First(t)].phase
      BY DEF Abort, Phase, First
    <3>3. CASE sessions[t] = First(t)
      <4>1. Phase(t) = "live"
        BY <3>1, <3>3 DEF Discipline, SessionsExact
      <4>2. Aborted(run[First(t)], "shutdown").phase = "live"
        BY <3>1, <4>1 DEF Aborted, RunState, Phase
      <4> QED
        BY <2>1, <3>1, <3>2, <3>3, <4>2 DEF RowOwned
    <3>4. CASE sessions[t] # First(t)
      BY <2>1, <3>1, <3>2, <3>4 DEF RowOwned, Abort, Phase
    <3> QED
      BY <3>3, <3>4
  <2> QED
    BY <2>2 DEF Owned
<1>2. CASE Exit
  <2>1. /\ UNCHANGED <<status, resumeAt>> /\ daemon' = "down"
        /\ run' = [r \in Runs |-> IdleRun]
    BY <1>2 DEF Exit, dbVars
  <2>2. ASSUME NEW t \in Tasks PROVE RowOwned(t)'
    <3>1. Abort(t)' = run'[First(t)].abort /\ First(t) \in Runs
      BY FirstIsRun DEF Abort, First
    <3>2. Abort(t)' = "none"
      BY <2>1, <3>1 DEF IdleRun
    <3> QED
      BY <2>1, <3>2 DEF RowOwned, Owned
  <2> QED
    BY <2>2 DEF Owned
<1>3. CASE Boot
  <2>1. PICK ts \in SetToSeqs(Stale) : Execute(run, micro, ts)
    BY <1>3 DEF Boot
  <2>2. /\ status' = [t \in Tasks |-> IF t \in Stale THEN "queued" ELSE status[t]]
        /\ timers' = {t \in Tasks : status[t] = "rate_limited" /\ t \in resumeAt}
        /\ resumeAt' = resumeAt /\ daemon = "down"
    BY <1>3 DEF Boot
  <2>3. ToSet(ts) = Stale
    BY <2>1, OrderingsAreComplete DEF Stale
  <2>4. \A t \in Tasks : /\ Abort(t)' \in {Abort(t), "none"}
                         /\ t \in Stale => Phase(t)' # "idle"
    <3>1. run \in [Runs -> RunState]
      BY DEF Discipline, TypeOK
    <3> QED
      BY <2>1, <2>3, <3>1, ExecuteOwns DEF Abort
  <2>5. ASSUME NEW t \in Tasks PROVE RowOwned(t)'
    <3>1. RowOwned(t) /\ Phase(t) = "idle"
      BY <2>2 DEF Owned, Discipline, DownIsEmpty
    <3>2. Abort(t)' # "shutdown"
      BY <2>4, <3>1 DEF RowOwned
    <3>3. /\ status'[t] # "running" /\ (status'[t] = "queued" => Phase(t)' # "idle")
          /\ status'[t] = "rate_limited" => t \in resumeAt' /\ t \in timers'
      BY <2>2, <2>4, <3>1 DEF Stale, RowOwned
    <3> QED
      BY <3>2, <3>3 DEF RowOwned
  <2> QED
    BY <2>5 DEF Owned
<1> QED
  BY <1>1, <1>2, <1>3

LEMMA OwnedInit == Init => Owned
<1> SUFFICES ASSUME Init, NEW t \in Tasks PROVE RowOwned(t)
  BY DEF Owned
<1>1. Abort(t) = "none" /\ status[t] = "absent"
  BY FirstIsRun DEF Init, Abort, IdleRun
<1> QED
  BY <1>1 DEF RowOwned

LEMMA OwnedStep == Discipline /\ Owned /\ [Next]_vars => Owned'
<1> SUFFICES ASSUME Discipline, Owned, [Next]_vars PROVE Owned'
  OBVIOUS
<1>1. CASE UNCHANGED vars
  BY <1>1, NothingOwned DEF vars, dbVars, memVars
<1>2. CASE Next
  BY <1>2, OwnedRunStep, OwnedSessionStep, OwnedRequest, OwnedDaemon DEF Next
<1> QED
  BY <1>1, <1>2

(* The status column never claims work nobody does: in a running daemon     *)
(* every running, queued or rate-limited row has a run, a place in a queue  *)
(* or an armed timer (RowsAreOwned), also after the boot that resets stale  *)
(* rows and hands them to execute() again.                                  *)
THEOREM RowsHaveOwners == Spec => []RowsAreOwned
<1>1. Discipline /\ Owned => RowsAreOwned
  <2> SUFFICES ASSUME Discipline, Owned, NEW t \in Tasks
               PROVE  /\ status[t] = "rate_limited" => t \in resumeAt
                      /\ daemon = "up" =>
                           /\ status[t] = "running" => \E r \in RunsOf(t) : HoldsSlot(r)
                           /\ status[t] = "queued" => \/ t \in ToSet(queue) \cup deferred
                                                      \/ RunsOf(t) # {}
                           /\ status[t] = "rate_limited" => t \in timers
    BY DEF RowsAreOwned
  <2>1. Phase(t) # "idle" => First(t) \in RunsOf(t)
    BY FirstIsRun DEF Phase, RunsOf, Active
  <2>2. Phase(t) \in Working => First(t) \in RunsOf(t) /\ HoldsSlot(First(t))
    BY <2>1 DEF Phase, Working, HoldsSlot
  <2> QED
    BY <2>1, <2>2 DEF Owned, RowOwned, Parked
<1>2. Spec => [](Discipline /\ Owned)
  BY DisciplineInit, DisciplineStep, OwnedInit, OwnedStep, PTL DEF Spec
<1> QED
  BY <1>1, <1>2, PTL
=============================================================================
