----------------------------- MODULE Missions -----------------------------
(***************************************************************************)
(* The supervision of one mission (services/missions): the queue that      *)
(* turns ends of tasks into evaluations (event-subscriber.ts), the budget  *)
(* around the call of the model (guarded-evaluate.ts, budget-enforcer.ts,  *)
(* supervisor.ts), the heartbeat (heartbeat.ts), the operator's PATCH and  *)
(* the review of a proposal (routes/missions.ts), and the daemon's end and *)
(* boot (server-entry.ts).  Missions share nothing, so one is enough; the  *)
(* review follows one of its proposals.                                    *)
(*                                                                         *)
(* External: the model, which answers or fails at any time.  Left out:     *)
(* which mission a task belongs to, prompts and texts, warnings; the depth *)
(* guard, which only counts triggers of a kind nobody sends; dismissals,   *)
(* which are approvals without an entity.                                  *)
(***************************************************************************)
EXTENDS Integers, FiniteSets

CONSTANTS
  Budgets,   \* the budgets an operator may set
  MaxCost,   \* the largest cost of a call
  MaxNews,   \* bound: observed ends of tasks
  Requests   \* POST .../approve of the proposal

ASSUME BudgetsAssumption == Budgets # {} /\ Budgets \subseteq Nat \ {0}
ASSUME BoundsAssumption == MaxCost \in Nat /\ MaxNews \in Nat

VARIABLES
  daemon,
  status, budget, spent,     \* the missions row
  open, pending,             \* the mission's entry in queues; 0: none
  calls,                     \* observed ends a call of the model is about
  news, accepted, heard,     \* history: the last end observed, accepted, evaluated
  granted,                   \* history: the budget the last call was let in on
  beat,                      \* a heartbeat handle exists
  proposed,                  \* the timeline has the proposal
  request,                   \* the reviews: how far each has got
  approved, unconfirmed,     \* remediation_approved events; still pending: true
  entities                   \* plan entities made, by the approval

row == <<status, budget, spent>>
queue == <<open, pending, calls, accepted, heard, granted>>
review == <<proposed, request, approved, unconfirmed, entities>>
vars == <<daemon, row, queue, news, beat, review>>

News == 1..MaxNews
(* drafting and failed are treated like aborted.                           *)
Statuses == {"active", "paused", "completed", "aborted"}
Kinds == {"proposal", "objective_met", "no_action"}

Ranges ==
  /\ daemon \in {"up", "draining", "down"}
  /\ status \in Statuses /\ budget \in Budgets /\ spent \in Nat
  /\ pending \in 0..MaxNews /\ calls \subseteq News /\ granted \in Budgets
  /\ news \in 0..MaxNews /\ accepted \in 0..MaxNews /\ heard \in 0..MaxNews
  /\ request \in [Requests -> {"idle", "approving", "done"}]
  /\ unconfirmed \subseteq approved /\ approved \subseteq Requests
  /\ entities \subseteq Requests
Flags == open \in BOOLEAN /\ beat \in BOOLEAN /\ proposed \in BOOLEAN
TypeOK == Ranges /\ Flags

(* The boot found an active mission.                                       *)
Init ==
  /\ daemon = "up" /\ status = "active" /\ budget \in Budgets /\ spent = 0
  /\ open = FALSE /\ pending = 0 /\ calls = {}
  /\ news = 0 /\ accepted = 0 /\ heard = 0 /\ granted = budget /\ beat = TRUE
  /\ proposed = FALSE /\ request = [r \in Requests |-> "idle"]
  /\ approved = {} /\ unconfirmed = {} /\ entities = {}

-----------------------------------------------------------------------------
(* guardedEvaluate and the queue.                                          *)

(* BudgetEnforcer.check, on the row as the current step leaves it.         *)
Allowed(st, b, sp) == st # "paused" /\ sp < b

(* The turn of the trigger n: a denied one ends at once, without an event. *)
Evaluates(n, rest, st, b, sp) ==
  /\ heard' = n
  /\ IF Allowed(st, b, sp)
     THEN open' = TRUE /\ calls' = rest \cup {n} /\ granted' = b
     ELSE open' = FALSE /\ calls' = rest /\ UNCHANGED granted

(* Mutant: nothing is running for enqueue().                               *)
enqueueAlways(n) ==
  Evaluates(n, calls, status, budget, spent) /\ UNCHANGED pending
(* Mutant: the first trigger that waits stays.                             *)
enqueueFirstWins(n) ==
  IF open THEN /\ pending' = IF pending = 0 THEN n ELSE pending
               /\ UNCHANGED <<open, calls, heard, granted>>
          ELSE Evaluates(n, calls, status, budget, spent) /\ UNCHANGED pending
enqueue(n) ==
  IF open THEN pending' = n /\ UNCHANGED <<open, calls, heard, granted>>
          ELSE Evaluates(n, calls, status, budget, spent) /\ UNCHANGED pending

(* A task of the mission ends, or the stalled detector says so.            *)
TaskObserved ==
  /\ daemon = "up" /\ news < MaxNews /\ news' = news + 1
  /\ IF status = "active" THEN accepted' = news' /\ enqueue(news')
                          ELSE UNCHANGED queue
  /\ UNCHANGED <<daemon, row, beat, review>>

(* Mutant: what waits is evaluated without another check.                  *)
finishUnchecked(n) ==
  IF open /\ pending # 0
  THEN /\ pending' = 0 /\ heard' = pending /\ open' = TRUE
       /\ calls' = (calls \ {n}) \cup {pending} /\ UNCHANGED granted
  ELSE open' = FALSE /\ calls' = calls \ {n} /\ UNCHANGED <<pending, heard, granted>>
(* runOne: the finally of the evaluation of n, once the row is written.    *)
finish(n) ==
  IF open /\ pending # 0
  THEN pending' = 0 /\ Evaluates(pending, calls \ {n}, status', budget, spent')
  ELSE open' = FALSE /\ calls' = calls \ {n} /\ UNCHANGED <<pending, heard, granted>>

(* The model answers: charge, event, status, next trigger, in one turn.    *)
Reply(n, cost, kind) ==
  /\ daemon # "down" /\ n \in calls
  /\ spent' = spent + cost
  /\ status' = IF spent' >= budget THEN "paused"
               ELSE IF kind = "objective_met" /\ status = "active" THEN "completed"
               ELSE status
  /\ proposed' = (proposed \/ kind = "proposal")
  /\ finish(n)
  /\ UNCHANGED <<daemon, budget, news, accepted, beat,
                 request, approved, unconfirmed, entities>>

(* The call throws: nothing is charged, nothing written.                   *)
ReplyFails(n) ==
  /\ daemon # "down" /\ n \in calls
  /\ UNCHANGED row /\ finish(n)
  /\ UNCHANGED <<daemon, news, accepted, beat, review>>

-----------------------------------------------------------------------------
(* The heartbeat and the operator.                                         *)

(* A tick of an active mission costs nothing; any other removes the handle *)
Tick ==
  /\ daemon = "up" /\ beat /\ status # "active"
  /\ beat' = FALSE
  /\ UNCHANGED <<daemon, row, queue, news, review>>

Patch(st, b) ==
  /\ daemon # "down" /\ <<st, b>> # <<status, budget>>
  /\ status' = st /\ budget' = b
  /\ UNCHANGED <<daemon, spent, queue, news, beat, review>>

-----------------------------------------------------------------------------
(* The review of the proposal.                                             *)

(* The decision is looked up, then the body of the request awaited.        *)
ApproveBegins(r) ==
  /\ daemon # "down" /\ proposed /\ request[r] = "idle" /\ approved = {}
  /\ request' = [request EXCEPT ![r] = "approving"]
  /\ UNCHANGED <<daemon, row, queue, news, beat, proposed, approved, unconfirmed, entities>>

(* Mutant: the entity is made before the event is written.                 *)
MaterialisedFirst(r, n) ==
  /\ entities' = IF n >= 1 THEN entities \cup {r} ELSE entities
  /\ approved' = IF n >= 2 THEN approved \cup {r} ELSE approved
  /\ unconfirmed' = IF n = 2 THEN unconfirmed \cup {r} ELSE unconfirmed
(* The first n of three writes: pending event, entity, final event.        *)
Materialised(r, n) ==
  /\ approved' = IF n >= 1 THEN approved \cup {r} ELSE approved
  /\ entities' = IF n >= 2 THEN entities \cup {r} ELSE entities
  /\ unconfirmed' = IF n \in {1, 2} THEN unconfirmed \cup {r} ELSE unconfirmed

(* All three, or the first if the entity cannot be made.                   *)
ApproveWrites(r) ==
  /\ daemon # "down" /\ request[r] = "approving"
  /\ \E n \in {1, 3} : Materialised(r, n)
  /\ request' = [request EXCEPT ![r] = "done"]
  /\ UNCHANGED <<daemon, row, queue, news, beat, proposed>>

-----------------------------------------------------------------------------
(* The daemon.                                                             *)

(* SIGTERM: heartbeats and queues are gone, calls in flight go on.         *)
Shutdown ==
  /\ daemon = "up" /\ daemon' = "draining"
  /\ beat' = FALSE /\ open' = FALSE /\ pending' = 0
  /\ accepted' = heard
  /\ UNCHANGED <<row, calls, news, heard, granted, review>>

Dead ==
  /\ daemon # "down" /\ daemon' = "down"
  /\ beat' = FALSE /\ open' = FALSE /\ pending' = 0 /\ calls' = {}
  /\ request' = [r \in Requests |-> IF request[r] = "idle" THEN "idle" ELSE "done"]
  /\ accepted' = heard
  /\ UNCHANGED <<row, news, heard, granted, proposed>>

Crash == Dead /\ UNCHANGED <<approved, unconfirmed, entities>>
(* The daemon dies between two of the writes of an approval.               *)
CrashInApproval(r) ==
  Dead /\ request[r] = "approving" /\ \E n \in {1, 2} : Materialised(r, n)

Boot ==
  /\ daemon = "down" /\ daemon' = "up"
  /\ beat' = (status = "active")
  /\ UNCHANGED <<row, queue, news, review>>

-----------------------------------------------------------------------------
Next ==
  \/ TaskObserved \/ Tick
  \/ \E n \in News : \/ ReplyFails(n)
                     \/ \E c \in 0..MaxCost, k \in Kinds : Reply(n, c, k)
  \/ \E st \in Statuses, b \in Budgets : Patch(st, b)
  \/ \E r \in Requests : ApproveBegins(r) \/ ApproveWrites(r) \/ CrashInApproval(r)
  \/ Shutdown \/ Crash \/ Boot

Ends(n) == ReplyFails(n) \/ \E c \in 0..MaxCost, k \in Kinds : Reply(n, c, k)
(* The model answers or fails in the end.                                  *)
Fairness == WF_vars(\E n \in News : Ends(n))

Spec == Init /\ [][Next]_vars /\ Fairness

-----------------------------------------------------------------------------
(* The queue runs the calls of a mission one by one, across bursts, denied *)
(* triggers, failures and pauses: its entry is in the map exactly while    *)
(* one is in flight, so none is started beside it and none is stuck.       *)
OneCall ==
  /\ Cardinality(calls) <= 1
  /\ daemon = "up" => (open <=> calls # {})

(* However the operator pauses, resumes and changes the budget meanwhile,  *)
(* the spend exceeds the budget a call was let in on by that call at most. *)
OverspendsOnce == spent < granted + MaxCost \/ spent = 0

(* An approval has its event before its entity, a confirmed one its entity *)
(* too, also if the daemon dies in between: a retry finds the decision.    *)
EntitiesAreRecorded == entities \subseteq approved /\ approved \ unconfirmed \subseteq entities

(* Liveness: coalescing loses no news, what the queue has accepted last is *)
(* evaluated or denied in the end, or a later one is.                      *)
NewsIsHeard == \A n \in News : accepted >= n ~> heard >= n \/ daemon # "up"

=============================================================================
