-------------------------- MODULE MissionsProofs --------------------------
(***************************************************************************)
(* Proofs about Missions: its types, one call of the model at a time, the  *)
(* bound of the spend, and the order of an approval's writes, for every    *)
(* set of budgets and of requests and every largest cost of a call.        *)
(***************************************************************************)
EXTENDS Missions, FiniteSetTheorems, TLAPS

(* The entry in queues and the call in flight belong together; after the   *)
(* shutdown the queues are gone before the call, after the death both are. *)
SingleCall == \A m, n \in calls : m = n
QueueInv ==
  /\ SingleCall
  /\ open => daemon = "up" /\ calls # {}
  /\ daemon = "up" /\ calls # {} => open
  /\ daemon = "down" => calls = {}
  /\ pending # 0 => open

(* A call in flight was let in below its budget, and not charged yet.      *)
SpendInv == OverspendsOnce /\ (calls # {} => spent < granted)

IInv == TypeOK /\ QueueInv /\ SpendInv /\ EntitiesAreRecorded

-----------------------------------------------------------------------------
(* The end of an evaluation leaves the queue in its ranges.                *)
LEMMA FinishRanges ==
  ASSUME Ranges, NEW n \in News, finish(n), UNCHANGED budget
  PROVE  /\ pending' \in 0..MaxNews /\ heard' \in 0..MaxNews
         /\ calls' \subseteq News /\ granted' \in Budgets
<1> USE DEF Ranges, News
<1>1. CASE open /\ pending # 0
  <2>1. /\ pending \in News /\ pending' = 0
        /\ Evaluates(pending, calls \ {n}, status', budget, spent')
    BY <1>1, BoundsAssumption DEF finish
  <2>2. /\ heard' = pending /\ granted' \in {granted, budget}
        /\ calls' \subseteq (calls \ {n}) \cup {pending}
    BY <2>1 DEF Evaluates
  <2> QED
    BY <2>1, <2>2, BoundsAssumption
<1>2. CASE ~(open /\ pending # 0)
  BY <1>2 DEF finish
<1> QED
  BY <1>1, <1>2

(* Every action keeps the numbers, sets and names in their ranges.         *)
LEMMA RangeStep ==
  ASSUME Ranges, [Next]_vars
  PROVE  Ranges'
<1> USE BudgetsAssumption, BoundsAssumption DEF Ranges, News, Statuses, Kinds,
        row, queue, review
<1>1. ASSUME TaskObserved
       PROVE  Ranges'
  <2>1. news' \in News /\ news' \in 0..MaxNews
    BY <1>1 DEF TaskObserved
  <2>2. pending' \in 0..MaxNews /\ accepted' \in 0..MaxNews
    BY <1>1, <2>1 DEF TaskObserved, enqueue, Evaluates
  <2>3. calls' \subseteq News /\ heard' \in 0..MaxNews /\ granted' \in Budgets
    BY <1>1, <2>1 DEF TaskObserved, enqueue, Evaluates
  <2> QED
    BY <1>1, <2>1, <2>2, <2>3 DEF TaskObserved
<1>2. ASSUME Tick
       PROVE  Ranges'
  BY <1>2 DEF Tick
<1>3. ASSUME NEW n \in News, ReplyFails(n)
       PROVE  Ranges'
  <2>1. finish(n)
    BY <1>3 DEF ReplyFails
  <2> QED
    BY <1>3, <2>1, FinishRanges DEF ReplyFails
<1>4. ASSUME NEW n \in News, NEW c \in 0..MaxCost, NEW k \in Kinds, Reply(n, c, k)
       PROVE  Ranges'
  <2>1. finish(n) /\ spent' \in Nat /\ status' \in Statuses
    BY <1>4 DEF Reply
  <2> QED
    BY <1>4, <2>1, FinishRanges DEF Reply
<1>5. ASSUME NEW st \in Statuses, NEW b \in Budgets, Patch(st, b)
       PROVE  Ranges'
  BY <1>5 DEF Patch
<1>6. ASSUME NEW r \in Requests, ApproveBegins(r)
       PROVE  Ranges'
  BY <1>6 DEF ApproveBegins
<1>7. ASSUME NEW r \in Requests, ApproveWrites(r)
       PROVE  Ranges'
  BY <1>7 DEF ApproveWrites, Materialised
<1>8. ASSUME NEW r \in Requests, CrashInApproval(r)
       PROVE  Ranges'
  BY <1>8 DEF CrashInApproval, Dead, Materialised
<1>9. ASSUME Shutdown
       PROVE  Ranges'
  BY <1>9 DEF Shutdown
<1>10. ASSUME Crash
       PROVE  Ranges'
  BY <1>10 DEF Crash, Dead
<1>11. ASSUME Boot
       PROVE  Ranges'
  BY <1>11 DEF Boot
<1>12. ASSUME UNCHANGED vars
       PROVE  Ranges'
  BY <1>12 DEF vars
<1> QED
  BY <1>1, <1>2, <1>3, <1>4, <1>5, <1>6, <1>7, <1>8, <1>9, <1>10, <1>11, <1>12 DEF Next

(* Every action keeps the flags Boolean.                                   *)
LEMMA FlagStep ==
  ASSUME TypeOK, [Next]_vars
  PROVE  Flags'
<1> USE BudgetsAssumption, BoundsAssumption DEF TypeOK, Flags, row, queue,
        review
<1>1. ASSUME TaskObserved
       PROVE  Flags'
  BY <1>1 DEF TaskObserved, enqueue, Evaluates, Allowed
<1>2. ASSUME Tick
       PROVE  Flags'
  BY <1>2 DEF Tick
<1>3. ASSUME NEW n \in News, ReplyFails(n)
       PROVE  Flags'
  BY <1>3 DEF ReplyFails, finish, Evaluates, Allowed
<1>4. ASSUME NEW n \in News, NEW c \in 0..MaxCost, NEW k \in Kinds, Reply(n, c, k)
       PROVE  Flags'
  BY <1>4 DEF Reply, finish, Evaluates, Allowed
<1>5. ASSUME NEW st \in Statuses, NEW b \in Budgets, Patch(st, b)
       PROVE  Flags'
  BY <1>5 DEF Patch
<1>6. ASSUME NEW r \in Requests, ApproveBegins(r)
       PROVE  Flags'
  BY <1>6 DEF ApproveBegins
<1>7. ASSUME NEW r \in Requests, ApproveWrites(r)
       PROVE  Flags'
  BY <1>7 DEF ApproveWrites, Materialised
<1>8. ASSUME NEW r \in Requests, CrashInApproval(r)
       PROVE  Flags'
  BY <1>8 DEF CrashInApproval, Dead, Materialised
<1>9. ASSUME Shutdown
       PROVE  Flags'
  BY <1>9 DEF Shutdown
<1>10. ASSUME Crash
       PROVE  Flags'
  BY <1>10 DEF Crash, Dead
<1>11. ASSUME Boot
       PROVE  Flags'
  BY <1>11 DEF Boot
<1>12. ASSUME UNCHANGED vars
       PROVE  Flags'
  BY <1>12 DEF vars
<1> QED
  BY <1>1, <1>2, <1>3, <1>4, <1>5, <1>6, <1>7, <1>8, <1>9, <1>10, <1>11, <1>12 DEF Next

(* A call starts when the one before it has ended, from a new trigger or   *)
(* from the one that waits.                                                *)
LEMMA QueueStep ==
  ASSUME Ranges, QueueInv, [Next]_vars
  PROVE  QueueInv'
<1> USE BudgetsAssumption, BoundsAssumption DEF Ranges, News, QueueInv,
        SingleCall, row, queue, review
<1>1. ASSUME TaskObserved
       PROVE  QueueInv'
  BY <1>1 DEF TaskObserved, enqueue, Evaluates, Allowed
<1>2. ASSUME Tick
       PROVE  QueueInv'
  BY <1>2 DEF Tick
<1>3. ASSUME NEW n \in News, ReplyFails(n)
       PROVE  QueueInv'
  BY <1>3 DEF ReplyFails, finish, Evaluates, Allowed
<1>4. ASSUME NEW n \in News, NEW c \in 0..MaxCost, NEW k \in Kinds, Reply(n, c, k)
       PROVE  QueueInv'
  BY <1>4 DEF Reply, finish, Evaluates, Allowed
<1>5. ASSUME NEW st \in Statuses, NEW b \in Budgets, Patch(st, b)
       PROVE  QueueInv'
  BY <1>5 DEF Patch
<1>6. ASSUME NEW r \in Requests, ApproveBegins(r)
       PROVE  QueueInv'
  BY <1>6 DEF ApproveBegins
<1>7. ASSUME NEW r \in Requests, ApproveWrites(r)
       PROVE  QueueInv'
  BY <1>7 DEF ApproveWrites, Materialised
<1>8. ASSUME NEW r \in Requests, CrashInApproval(r)
       PROVE  QueueInv'
  BY <1>8 DEF CrashInApproval, Dead, Materialised
<1>9. ASSUME Shutdown
       PROVE  QueueInv'
  BY <1>9 DEF Shutdown
<1>10. ASSUME Crash
       PROVE  QueueInv'
  BY <1>10 DEF Crash, Dead
<1>11. ASSUME Boot
       PROVE  QueueInv'
  BY <1>11 DEF Boot
<1>12. ASSUME UNCHANGED vars
       PROVE  QueueInv'
  BY <1>12 DEF vars
<1> QED
  BY <1>1, <1>2, <1>3, <1>4, <1>5, <1>6, <1>7, <1>8, <1>9, <1>10, <1>11, <1>12 DEF Next

(* The spend grows by the end of a call only, and that call was let in     *)
(* below the budget it has in granted.                                     *)
LEMMA SpendStep ==
  ASSUME Ranges, QueueInv, SpendInv, [Next]_vars
  PROVE  SpendInv'
<1> USE BudgetsAssumption, BoundsAssumption DEF Ranges, News, QueueInv,
        SingleCall, SpendInv, OverspendsOnce, row, queue, review
<1>1. ASSUME TaskObserved
       PROVE  SpendInv'
  BY <1>1 DEF TaskObserved, enqueue, Evaluates, Allowed
<1>2. ASSUME Tick
       PROVE  SpendInv'
  BY <1>2 DEF Tick
<1>3. ASSUME NEW n \in News, ReplyFails(n)
       PROVE  SpendInv'
  BY <1>3 DEF ReplyFails, finish, Evaluates, Allowed
<1>4. ASSUME NEW n \in News, NEW c \in 0..MaxCost, NEW k \in Kinds, Reply(n, c, k)
       PROVE  SpendInv'
  <2>1. spent < granted /\ calls \ {n} = {} /\ spent' = spent + c
    BY <1>4 DEF Reply
  <2>2. spent \in Nat /\ granted \in Nat /\ c \in Nat /\ c <= MaxCost
    OBVIOUS
  <2>3. spent' < granted + MaxCost
    BY <2>1, <2>2
  <2>4. CASE open /\ pending # 0 /\ Allowed(status', budget, spent')
    <3>1. granted' = budget /\ spent' < granted'
      BY <1>4, <2>4 DEF Reply, finish, Evaluates, Allowed
    <3> QED
      BY <2>1, <2>2, <3>1
  <2>5. CASE ~(open /\ pending # 0 /\ Allowed(status', budget, spent'))
    <3>1. granted' = granted /\ calls' = {}
      BY <1>4, <2>1, <2>5 DEF Reply, finish, Evaluates
    <3> QED
      BY <2>3, <3>1
  <2> QED
    BY <2>4, <2>5
<1>5. ASSUME NEW st \in Statuses, NEW b \in Budgets, Patch(st, b)
       PROVE  SpendInv'
  BY <1>5 DEF Patch
<1>6. ASSUME NEW r \in Requests, ApproveBegins(r)
       PROVE  SpendInv'
  BY <1>6 DEF ApproveBegins
<1>7. ASSUME NEW r \in Requests, ApproveWrites(r)
       PROVE  SpendInv'
  BY <1>7 DEF ApproveWrites, Materialised
<1>8. ASSUME NEW r \in Requests, CrashInApproval(r)
       PROVE  SpendInv'
  BY <1>8 DEF CrashInApproval, Dead, Materialised
<1>9. ASSUME Shutdown
       PROVE  SpendInv'
  BY <1>9 DEF Shutdown
<1>10. ASSUME Crash
       PROVE  SpendInv'
  BY <1>10 DEF Crash, Dead
<1>11. ASSUME Boot
       PROVE  SpendInv'
  BY <1>11 DEF Boot
<1>12. ASSUME UNCHANGED vars
       PROVE  SpendInv'
  BY <1>12 DEF vars
<1> QED
  BY <1>1, <1>2, <1>3, <1>4, <1>5, <1>6, <1>7, <1>8, <1>9, <1>10, <1>11, <1>12 DEF Next

(* Whichever of its writes an approval gets to, the event is the first of  *)
(* them and the confirmation the last.                                     *)
LEMMA ApprovalStep ==
  ASSUME Ranges, EntitiesAreRecorded, [Next]_vars
  PROVE  EntitiesAreRecorded'
<1> USE BudgetsAssumption, BoundsAssumption DEF Ranges, EntitiesAreRecorded,
        row, queue, review
<1>1. ASSUME TaskObserved
       PROVE  EntitiesAreRecorded'
  BY <1>1 DEF TaskObserved, enqueue, Evaluates, Allowed
<1>2. ASSUME Tick
       PROVE  EntitiesAreRecorded'
  BY <1>2 DEF Tick
<1>3. ASSUME NEW n \in News, ReplyFails(n)
       PROVE  EntitiesAreRecorded'
  BY <1>3 DEF ReplyFails, finish, Evaluates, Allowed
<1>4. ASSUME NEW n \in News, NEW c \in 0..MaxCost, NEW k \in Kinds, Reply(n, c, k)
       PROVE  EntitiesAreRecorded'
  BY <1>4 DEF Reply, finish, Evaluates, Allowed
<1>5. ASSUME NEW st \in Statuses, NEW b \in Budgets, Patch(st, b)
       PROVE  EntitiesAreRecorded'
  BY <1>5 DEF Patch
<1>6. ASSUME NEW r \in Requests, ApproveBegins(r)
       PROVE  EntitiesAreRecorded'
  BY <1>6 DEF ApproveBegins
<1>7. ASSUME NEW r \in Requests, ApproveWrites(r)
       PROVE  EntitiesAreRecorded'
  BY <1>7 DEF ApproveWrites, Materialised
<1>8. ASSUME NEW r \in Requests, CrashInApproval(r)
       PROVE  EntitiesAreRecorded'
  BY <1>8 DEF CrashInApproval, Dead, Materialised
<1>9. ASSUME Shutdown
       PROVE  EntitiesAreRecorded'
  BY <1>9 DEF Shutdown
<1>10. ASSUME Crash
       PROVE  EntitiesAreRecorded'
  BY <1>10 DEF Crash, Dead
<1>11. ASSUME Boot
       PROVE  EntitiesAreRecorded'
  BY <1>11 DEF Boot
<1>12. ASSUME UNCHANGED vars
       PROVE  EntitiesAreRecorded'
  BY <1>12 DEF vars
<1> QED
  BY <1>1, <1>2, <1>3, <1>4, <1>5, <1>6, <1>7, <1>8, <1>9, <1>10, <1>11, <1>12 DEF Next

-----------------------------------------------------------------------------
(* The invariant holds at the boot, and every step keeps it.               *)
LEMMA IInvInit == Init => IInv
<1> USE BudgetsAssumption, BoundsAssumption DEF Init
<1>1. Init => Ranges
  BY DEF Ranges, News, Statuses
<1>2. Init => Flags
  BY DEF Flags
<1>3. Init => QueueInv
  BY DEF QueueInv, SingleCall
<1>4. Init => SpendInv
  BY DEF SpendInv, OverspendsOnce
<1>5. Init => EntitiesAreRecorded
  BY DEF EntitiesAreRecorded
<1> QED
  BY <1>1, <1>2, <1>3, <1>4, <1>5 DEF IInv, TypeOK

(* IInv is inductive, so every reachable state satisfies it: the queue of  *)
(* the event subscriber, the budget enforcer and the review keep together. *)
THEOREM Invariant == Spec => []IInv
<1>1. IInv /\ [Next]_vars => IInv'
  BY RangeStep, FlagStep, QueueStep, SpendStep, ApprovalStep DEF IInv, TypeOK
<1> QED
  BY IInvInit, <1>1, PTL DEF Spec

(* The mission's row, queue, timeline and requests keep their types        *)
(* (TypeOK) across bursts of events, pauses and boots.                     *)
THEOREM TypeCorrect == Spec => []TypeOK
<1>1. IInv => TypeOK
  BY DEF IInv
<1> QED
  BY Invariant, <1>1, PTL

(* The event subscriber runs one call of the model per mission (OneCall),  *)
(* and its entry in queues is there exactly while the call is.             *)
THEOREM OneCallAtATime == Spec => []OneCall
<1>1. ASSUME SingleCall
      PROVE  Cardinality(calls) <= 1
  <2>1. CASE calls = {}
    BY <2>1, FS_EmptySet
  <2>2. CASE calls # {}
    <3>1. PICK n : n \in calls
      BY <2>2
    <3>2. calls = {n}
      BY <1>1, <3>1 DEF SingleCall
    <3> QED
      BY <3>2, FS_Singleton
  <2> QED
    BY <2>1, <2>2
<1>2. IInv => OneCall
  BY <1>1 DEF IInv, QueueInv, OneCall
<1> QED
  BY Invariant, <1>2, PTL

(* BudgetEnforcer is passed by one call at most (OverspendsOnce): whatever *)
(* a PATCH does to the budget meanwhile, the spend stays within one call's *)
(* cost of the budget that the last call was let in on.                    *)
THEOREM SpendIsBounded == Spec => []OverspendsOnce
<1>1. IInv => OverspendsOnce
  BY DEF IInv, SpendInv
<1> QED
  BY Invariant, <1>1, PTL

(* The approval of a proposal is recorded before its plan entity exists    *)
(* and confirmed after (EntitiesAreRecorded), wherever the daemon dies.    *)
THEOREM ApprovalsAreRecorded == Spec => []EntitiesAreRecorded
<1>1. IInv => EntitiesAreRecorded
  BY DEF IInv
<1> QED
  BY Invariant, <1>1, PTL

=============================================================================
