---------------------------- MODULE TaskExecutor ----------------------------
(***************************************************************************)
(* The task executor of the Flockctl daemon: src/services/task-executor/*, *)
(* its key pool, the rate-limit scheduler, the task routes that drive it,  *)
(* and the part of server-entry.ts that stops and boots it.                *)
(*                                                                         *)
(* A task is a row of SQLite (durable).  An attempt to run it is a chain   *)
(* of promise continuations started by execute(); the model calls such a   *)
(* chain a RUN and identifies it by <<task, attempt>>.  Nothing in         *)
(* execute() stops a second run of a task that already has one, so two     *)
(* attempt numbers are kept per task: SingleRun says the second one is     *)
(* never in use together with the first.                                   *)
(*                                                                         *)
(* Scheduling is Node's.  Continuations wait in the FIFO `micro` (the      *)
(* promise job queue) and are run to exhaustion before any HTTP request,   *)
(* timer or session event is served; those "macro" actions carry the guard *)
(* Serving.  A step of a run is the code between two awaits, so what the   *)
(* model interleaves is what the event loop interleaves.                   *)
(***************************************************************************)
EXTENDS Naturals, FiniteSets, SequencesExt

CONSTANTS
  Tasks,          \* ids of rows of the table tasks
  Keys,           \* ids of rows of the table ai_provider_keys
  NoKey, NoRun,   \* "undefined" / "no entry in the map"
  MaxPerKey,      \* KeyPool.maxConcurrentPerKey
  MaxRetries,     \* tasks.max_retries (the same for all rows)
  MaxQuestions,   \* bound on the questions one session asks
  FastFail        \* may a run fail (budget, prompt) before its first real I/O?

ASSUME ConstantsAssumption ==
  /\ NoKey \notin Keys
  /\ NoRun \notin Tasks \X {1, 2}
  /\ MaxPerKey \in Nat \ {0}
  /\ MaxRetries \in Nat
  /\ MaxQuestions \in Nat
  /\ FastFail \in BOOLEAN

ASSUME TasksAssumption == IsFiniteSet(Tasks)

VARIABLES
  \* ---- durable: the SQLite database
  status,         \* tasks.status; "absent" when there is no row
  resumeAt,       \* rows whose tasks.resume_at is not NULL
  retryCount,     \* tasks.retry_count
  assignedKey,    \* tasks.assigned_key_id
  question,       \* agent_questions.status of request_id q-t<task>-<n>
  \* ---- memory of the daemon process
  run,            \* the live execute() chains
  micro,          \* the promise job queue: runs whose continuation is due
  sessions,       \* TaskExecutor.sessions
  queue,          \* TaskExecutor.queue
  keySlotUsage,   \* KeyPool.keySlotUsage
  reservedKey,    \* KeyPool.reservedKeyByTask
  timers,         \* RateLimitScheduler.timers, the entries of kind "task"
  deferred,       \* retries handed to setTimeout(fn, 0)
  rejecting,      \* reject handlers awaiting `git checkout`
  daemon          \* "up", "stopping" (cancelAll ran, draining) or "down"

dbVars  == <<status, resumeAt, retryCount, assignedKey, question>>
memVars == <<run, micro, sessions, queue, keySlotUsage, reservedKey,
             timers, deferred, rejecting, daemon>>
vars    == <<dbVars, memVars>>

-----------------------------------------------------------------------------
(* States and transitions *)

Status == {"absent", "queued", "running", "waiting_for_input",
           "pending_approval", "rate_limited", "done", "failed",
           "cancelled", "timed_out"}

(* Mutant: the cancel route also takes failed rows. *)
TransitionsCancelFailed ==
  [s \in Status |->
     CASE s = "queued"            -> {"running", "cancelled"}
       [] s = "running"           -> {"done", "failed", "cancelled",
                                      "timed_out", "pending_approval",
                                      "waiting_for_input", "rate_limited"}
       [] s = "waiting_for_input" -> {"running", "queued", "cancelled",
                                      "timed_out"}
       [] s = "pending_approval"  -> {"done", "cancelled"}
       [] s = "rate_limited"      -> {"queued", "cancelled"}
       [] s = "failed"            -> {"queued", "cancelled"}
       [] s \in {"cancelled", "timed_out"} -> {"queued"}
       [] OTHER                   -> {}]
TASK_STATUS_TRANSITIONS ==
  [s \in Status |->
     CASE s = "queued"            -> {"running", "cancelled"}
       [] s = "running"           -> {"done", "failed", "cancelled",
                                      "timed_out", "pending_approval",
                                      "waiting_for_input", "rate_limited"}
       [] s = "waiting_for_input" -> {"running", "queued", "cancelled",
                                      "timed_out"}
       [] s = "pending_approval"  -> {"done", "cancelled"}
       [] s = "rate_limited"      -> {"queued", "cancelled"}
       [] s \in {"failed", "cancelled", "timed_out"} -> {"queued"}
       [] OTHER                   -> {}]

validateTaskTransition(current, next) ==
  next \in TASK_STATUS_TRANSITIONS[current]

Runs == Tasks \X {1, 2}
Task(r) == r[1]
QuestionNums == 1..MaxQuestions

(* Where a run stands.  "select", "enqueue", "nokey", "start", "prepfail"   *)
(* and "end" are continuations waiting in micro; "prepare" awaits           *)
(* buildTaskRunContext and "live" awaits session.run().                     *)
MicroPhases == {"select", "enqueue", "nokey", "start", "prepfail", "end"}
Phases == MicroPhases \cup {"idle", "prepare", "live"}
AbortReasons == {"none", "user", "timeout", "shutdown"}

(* key: the KeySelection handed to _run; excl: saturatedKeyIds; abort, asked *)
(* and open: _abortReason, questionCounter and the questions in the         *)
(* pendingInteractive map of the run's AgentSession.                        *)
RunState == [phase : Phases, key : Keys \cup {NoKey}, excl : SUBSET Keys,
             abort : AbortReasons, asked : 0..MaxQuestions,
             open : SUBSET QuestionNums]
IdleRun == [phase |-> "idle", key |-> NoKey, excl |-> {}, abort |-> "none",
            asked |-> 0, open |-> {}]

Active(r) == run[r].phase # "idle"
(* The run owns a slot of its key's budget. *)
HoldsSlot(r) == run[r].phase \in {"start", "prepfail", "prepare", "live", "end"}

(* The event loop serves requests, timers and session events only when the  *)
(* promise job queue is empty.                                              *)
Serving == daemon # "down" /\ micro = <<>>

Init ==
  /\ status = [t \in Tasks |-> "absent"]
  /\ resumeAt = {}
  /\ retryCount = [t \in Tasks |-> 0]
  /\ assignedKey = [t \in Tasks |-> NoKey]
  /\ question = [t \in Tasks |-> [n \in QuestionNums |-> "none"]]
  /\ run = [r \in Runs |-> IdleRun]
  /\ micro = <<>>
  /\ sessions = [t \in Tasks |-> NoRun]
  /\ queue = <<>>
  /\ keySlotUsage = [k \in Keys |-> 0]
  /\ reservedKey = [t \in Tasks |-> NoKey]
  /\ timers = {}
  /\ deferred = {}
  /\ rejecting = {}
  /\ daemon = "up"

-----------------------------------------------------------------------------
(* execute(taskId): calling it only gets as far as the first await; the     *)
(* chain goes on as a continuation at the end of the promise job queue.     *)

Fresh(rn, t) == IF rn[<<t, 1>>].phase = "idle" THEN <<t, 1>> ELSE <<t, 2>>

(* Call execute() on each task of the sequence ts, in order, when the runs  *)
(* are rn and the promise job queue is mq.                                  *)
Execute(rn, mq, ts) ==
  /\ run' = [r \in Runs |-> IF \E i \in DOMAIN ts : r = Fresh(rn, ts[i])
                            THEN [IdleRun EXCEPT !.phase = "select"]
                            ELSE rn[r]]
  /\ micro' = mq \o [i \in DOMAIN ts |-> Fresh(rn, ts[i])]

Turn(r, phase) ==
  /\ daemon # "down"
  /\ micro # <<>> /\ Head(micro) = r
  /\ run[r].phase = phase

(* selectKeyForTask: an assigned key is the only candidate; otherwise any   *)
(* key the operator left active may come first by priority, or none may be. *)
Selectable(t, excl) ==
  (IF assignedKey[t] # NoKey THEN {assignedKey[t]} ELSE Keys) \ excl
MayFindNoKey(t, excl) == assignedKey[t] \in {NoKey} \cup excl

(* Mutant: one session too many per key. *)
HasRoomOffByOne(k) == keySlotUsage[k] <= MaxPerKey
HasRoom(k) == keySlotUsage[k] < MaxPerKey

(* One turn of the loop in KeyPool.reserveForTask: the check of the key's   *)
(* usage and the reservation happen in the same continuation.               *)
SelectKey(r) ==
  /\ Turn(r, "select")
  /\ \/ \E k \in Selectable(Task(r), run[r].excl) :
          \/ /\ HasRoom(k)
             /\ keySlotUsage' = [keySlotUsage EXCEPT ![k] = @ + 1]
             /\ reservedKey' = [reservedKey EXCEPT ![Task(r)] = k]
             /\ run' = [run EXCEPT ![r].phase = "start", ![r].key = k]
          \/ /\ ~HasRoom(k)
             /\ run' = [run EXCEPT ![r].excl = @ \cup {k}]
             /\ UNCHANGED <<keySlotUsage, reservedKey>>
     \/ /\ MayFindNoKey(Task(r), run[r].excl)
        /\ run' = [run EXCEPT ![r].phase =
                     IF run[r].excl = {} THEN "nokey" ELSE "enqueue"]
        /\ UNCHANGED <<keySlotUsage, reservedKey>>
  /\ micro' = Append(Tail(micro), r)
  /\ UNCHANGED <<dbVars, sessions, queue, timers, deferred, rejecting, daemon>>

(* Every candidate key is saturated: wait in the queue. *)
EnqueueTask(r) ==
  /\ Turn(r, "enqueue")
  /\ queue' = IF Task(r) \in ToSet(queue) THEN queue ELSE Append(queue, Task(r))
  /\ run' = [run EXCEPT ![r] = IdleRun]
  /\ micro' = Tail(micro)
  /\ UNCHANGED <<dbVars, sessions, keySlotUsage, reservedKey, timers,
                 deferred, rejecting, daemon>>

(* No key can serve the task at all. *)
FailBeforeStart(r) ==
  /\ Turn(r, "nokey")
  /\ status' = [status EXCEPT ![Task(r)] = "failed"]
  /\ run' = [run EXCEPT ![r] = IdleRun]
  /\ micro' = Tail(micro)
  /\ UNCHANGED <<resumeAt, retryCount, assignedKey, question, sessions, queue,
                 keySlotUsage, reservedKey, timers, deferred, rejecting, daemon>>

(* The synchronous head of _run: mark the row running, check the budget,    *)
(* then call buildTaskRunContext.  An exceeded budget returns at once; an   *)
(* unresolvable prompt of a task without project rejects within the same    *)
(* drain of the promise job queue; otherwise git I/O is awaited.            *)
StartRun(r) ==
  /\ Turn(r, "start")
  /\ \/ /\ run' = [run EXCEPT ![r].phase = "prepare"]
        /\ status' = [status EXCEPT ![Task(r)] = "running"]
        /\ micro' = Tail(micro)
     \/ /\ FastFail
        /\ run' = [run EXCEPT ![r].phase = "end"]
        /\ status' = [status EXCEPT ![Task(r)] = "failed"]
        /\ micro' = Append(Tail(micro), r)
     \/ /\ FastFail
        /\ run' = [run EXCEPT ![r].phase = "prepfail"]
        /\ status' = [status EXCEPT ![Task(r)] = "running"]
        /\ micro' = Append(Tail(micro), r)
  /\ UNCHANGED <<resumeAt, retryCount, assignedKey, question, sessions, queue,
                 keySlotUsage, reservedKey, timers, deferred, rejecting, daemon>>

(* buildTaskRunContext rejected: the row is failed, whatever it says now.   *)
PrepareFail(r) ==
  /\ \/ Turn(r, "prepfail") /\ micro' = Append(Tail(micro), r)
     \/ Serving /\ run[r].phase = "prepare" /\ micro' = <<r>>
  /\ status' = [status EXCEPT ![Task(r)] = "failed"]
  /\ run' = [run EXCEPT ![r].phase = "end"]
  /\ UNCHANGED <<resumeAt, retryCount, assignedKey, question, sessions, queue,
                 keySlotUsage, reservedKey, timers, deferred, rejecting, daemon>>

(* The context is ready: pin the key, create and register the AgentSession  *)
(* and await session.run().                                                 *)
PrepareOk(r) ==
  /\ Serving
  /\ run[r].phase = "prepare"
  /\ assignedKey' = [assignedKey EXCEPT ![Task(r)] = run[r].key]
  /\ sessions' = [sessions EXCEPT ![Task(r)] = r]
  /\ run' = [run EXCEPT ![r].phase = "live"]
  /\ UNCHANGED <<status, resumeAt, retryCount, question, micro, queue,
                 keySlotUsage, reservedKey, timers, deferred, rejecting, daemon>>

(* The finally block of execute(): release the task's slot, then dispatch   *)
(* every queued task once.                                                  *)
(* Mutant: the slot of the pinned key is given back, not the reserved one. *)
ReleasePinned(t) ==
  /\ reservedKey' = [reservedKey EXCEPT ![t] = NoKey]
  /\ keySlotUsage' = [k \in Keys |-> IF assignedKey[t] = k /\ keySlotUsage[k] > 0
                                     THEN keySlotUsage[k] - 1 ELSE keySlotUsage[k]]
Release(t) ==
  IF reservedKey[t] = NoKey
  THEN UNCHANGED <<keySlotUsage, reservedKey>>
  ELSE /\ reservedKey' = [reservedKey EXCEPT ![t] = NoKey]
       /\ keySlotUsage' = [keySlotUsage EXCEPT ![reservedKey[t]] =
                             IF @ <= 1 THEN 0 ELSE @ - 1]

(* Mutant: the slot is released and the queue is not flushed. *)
EndRunWithoutFlush(r) ==
  /\ Turn(r, "end")
  /\ Release(Task(r))
  /\ run' = [run EXCEPT ![r] = IdleRun]
  /\ micro' = Tail(micro)
  /\ UNCHANGED <<dbVars, sessions, queue, timers, deferred, rejecting, daemon>>
EndRun(r) ==
  /\ Turn(r, "end")
  /\ Release(Task(r))
  /\ queue' = <<>>
  /\ Execute([run EXCEPT ![r] = IdleRun], Tail(micro), queue)
  /\ UNCHANGED <<dbVars, sessions, timers, deferred, rejecting, daemon>>

-----------------------------------------------------------------------------
(* The life of a session.  Each way session.run() settles runs the rest of  *)
(* _run, ending with sessions.delete(taskId), in one continuation.          *)

(* Mutant: the session stays in the sessions map. *)
SettleKeepsSession(r) ==
  /\ Serving
  /\ run[r].phase = "live"
  /\ run' = [run EXCEPT ![r].phase = "end", ![r].open = {}]
  /\ micro' = <<r>>
  /\ UNCHANGED sessions
Settle(r) ==
  /\ Serving
  /\ run[r].phase = "live"
  /\ sessions' = [sessions EXCEPT ![Task(r)] = NoRun]
  /\ run' = [run EXCEPT ![r].phase = "end", ![r].open = {}]
  /\ micro' = <<r>>

(* finalizeSuccess; requiresApproval is the choice of the final status. *)
SessionSucceeds(r) ==
  /\ Settle(r)
  /\ run[r].open = {}
  /\ \E final \in {"done", "pending_approval"} :
       status' = [status EXCEPT ![Task(r)] =
                    IF @ = "cancelled" THEN @ ELSE final]
  /\ UNCHANGED <<resumeAt, retryCount, assignedKey, question, queue,
                 keySlotUsage, reservedKey, timers, deferred, rejecting, daemon>>

(* A provider limit: parkRateLimited writes both columns and arms the timer. *)
(* Mutant: parked without a timer. *)
SessionRateLimitedNoTimer(r) ==
  /\ Settle(r)
  /\ status' = [status EXCEPT ![Task(r)] = "rate_limited"]
  /\ resumeAt' = resumeAt \cup {Task(r)}
  /\ UNCHANGED <<retryCount, assignedKey, question, queue, keySlotUsage,
                 reservedKey, timers, deferred, rejecting, daemon>>
SessionRateLimited(r) ==
  /\ Settle(r)
  /\ status' = [status EXCEPT ![Task(r)] = "rate_limited"]
  /\ resumeAt' = resumeAt \cup {Task(r)}
  /\ timers' = timers \cup {Task(r)}
  /\ UNCHANGED <<retryCount, assignedKey, question, queue, keySlotUsage,
                 reservedKey, deferred, rejecting, daemon>>

(* The abort signal surfaces.  classifyRunError maps the reason; a shutdown *)
(* leaves the row alone for resetStaleTasks.                                *)
LeavesRowForBoot(r) ==
  \/ run[r].abort = "shutdown"
  \/ daemon = "stopping" /\ run[r].abort = "user"
(* Mutant: finalizeError without its look at the row. *)
finalizeErrorBlindly(t, final) == status' = [status EXCEPT ![t] = final]
finalizeError(t, final) ==
  status' = [status EXCEPT ![t] = IF @ = "cancelled" THEN @ ELSE final]
SessionAborts(r) ==
  /\ Settle(r)
  /\ run[r].abort # "none"
  /\ IF LeavesRowForBoot(r)
     THEN UNCHANGED status
     ELSE finalizeError(Task(r), IF run[r].abort = "timeout" THEN "timed_out"
                                 ELSE "cancelled")
  /\ UNCHANGED <<resumeAt, retryCount, assignedKey, question, queue,
                 keySlotUsage, reservedKey, timers, deferred, rejecting, daemon>>

(* Any other error: finalizeError, then scheduleRetry clones the row while  *)
(* retries are left (and the model has an unused id) and the clone's        *)
(* execute() is handed to setTimeout(fn, 0).                                *)
(* Mutant: one retry too many. *)
RetryableOffByOne(t) == retryCount[t] <= MaxRetries
Retryable(t) == retryCount[t] < MaxRetries
SessionFails(r) ==
  LET t == Task(r) IN
  /\ Settle(r)
  /\ \/ /\ \/ ~Retryable(t)
           \/ \A u \in Tasks : status[u] # "absent"
        /\ finalizeError(t, "failed")
        /\ UNCHANGED <<retryCount, deferred>>
     \/ /\ Retryable(t)
        /\ \E u \in Tasks :
             /\ status[u] = "absent"
             /\ status' = [status EXCEPT
                             ![t] = IF @ = "cancelled" THEN @ ELSE "failed",
                             ![u] = "queued"]
             /\ retryCount' = [retryCount EXCEPT ![u] = retryCount[t] + 1]
             /\ deferred' = deferred \cup {u}
  /\ UNCHANGED <<resumeAt, assignedKey, question, queue, keySlotUsage,
                 reservedKey, timers, rejecting, daemon>>

(* AgentSession.abort: the first reason wins and every pending question is  *)
(* dropped from pendingInteractive.                                         *)
Aborted(s, reason) ==
  [s EXCEPT !.abort = IF @ = "none" THEN reason ELSE @, !.open = {}]

(* The session's own timeout timer. *)
SessionTimesOut(r) ==
  /\ Serving
  /\ run[r].phase = "live" /\ run[r].abort = "none"
  /\ run' = [run EXCEPT ![r] = Aborted(@, "timeout")]
  /\ UNCHANGED <<dbVars, micro, sessions, queue, keySlotUsage, reservedKey,
                 timers, deferred, rejecting, daemon>>

(* awaitUserAnswer emits question_request: request ids are numbered per     *)
(* session, the row is inserted unless that id exists already (the UNIQUE   *)
(* violation is swallowed), and the task waits if it was running.           *)
Ask(r) ==
  LET t == Task(r)
      n == run[r].asked + 1
  IN /\ Serving
     /\ run[r].phase = "live" /\ run[r].abort = "none"
     /\ run[r].asked < MaxQuestions
     /\ run' = [run EXCEPT ![r].asked = n, ![r].open = @ \cup {n}]
     /\ question' = [question EXCEPT ![t][n] = IF @ = "none" THEN "pending"
                                               ELSE @]
     /\ status' = [status EXCEPT ![t] =
                     IF validateTaskTransition(@, "waiting_for_input")
                     THEN "waiting_for_input" ELSE @]
     /\ UNCHANGED <<resumeAt, retryCount, assignedKey, micro, sessions, queue,
                    keySlotUsage, reservedKey, timers, deferred, rejecting,
                    daemon>>

-----------------------------------------------------------------------------
(* HTTP routes *)

(* POST /tasks *)
Create(t) ==
  /\ Serving
  /\ status[t] = "absent"
  /\ status' = [status EXCEPT ![t] = "queued"]
  /\ \E k \in Keys \cup {NoKey} :
       assignedKey' = [assignedKey EXCEPT ![t] = k]
  /\ Execute(run, micro, <<t>>)
  /\ UNCHANGED <<resumeAt, retryCount, question, sessions, queue,
                 keySlotUsage, reservedKey, timers, deferred, rejecting, daemon>>

(* POST /tasks/:id/rerun copies the row and runs the copy. *)
Rerun(t, u) ==
  /\ Serving
  /\ status[t] # "absent" /\ status[u] = "absent"
  /\ status' = [status EXCEPT ![u] = "queued"]
  /\ Execute(run, micro, <<u>>)
  /\ UNCHANGED <<resumeAt, retryCount, assignedKey, question, sessions, queue,
                 keySlotUsage, reservedKey, timers, deferred, rejecting, daemon>>

(* POST /tasks/:id/cancel: leave the queue, disarm the timer, abort the     *)
(* session if there is one, write the row.                                  *)
Dequeued(q, t) ==
  IF t \in ToSet(q)
  THEN RemoveAt(q, CHOOSE i \in DOMAIN q : q[i] = t)
  ELSE q
Cancel(t) ==
  /\ Serving
  /\ validateTaskTransition(status[t], "cancelled")
  /\ queue' = Dequeued(queue, t)
  /\ timers' = timers \ {t}
  /\ run' = IF sessions[t] = NoRun THEN run
            ELSE [run EXCEPT ![sessions[t]] = Aborted(@, "user")]
  /\ status' = [status EXCEPT ![t] = "cancelled"]
  /\ resumeAt' = resumeAt \ {t}
  /\ UNCHANGED <<retryCount, assignedKey, question, micro, sessions,
                 keySlotUsage, reservedKey, deferred, rejecting, daemon>>

(* POST /tasks/:id/approve *)
Approve(t) ==
  /\ Serving
  /\ validateTaskTransition(status[t], "done")
  /\ status' = [status EXCEPT ![t] = "done"]
  /\ UNCHANGED <<resumeAt, retryCount, assignedKey, question, memVars>>

(* POST /tasks/:id/reject: validate, await the rollback (when the row has a *)
(* commit and a working dir), then write the row without looking again.     *)
RejectBegin(t) ==
  /\ Serving
  /\ t \notin rejecting
  /\ validateTaskTransition(status[t], "cancelled")
  /\ \/ /\ rejecting' = rejecting \cup {t}
        /\ UNCHANGED status
     \/ /\ status' = [status EXCEPT ![t] = "cancelled"]
        /\ UNCHANGED rejecting
  /\ UNCHANGED <<resumeAt, retryCount, assignedKey, question, run, micro,
                 sessions, queue, keySlotUsage, reservedKey, timers, deferred,
                 daemon>>
RejectCommit(t) ==
  /\ Serving
  /\ t \in rejecting
  /\ rejecting' = rejecting \ {t}
  /\ status' = [status EXCEPT ![t] = "cancelled"]
  /\ UNCHANGED <<resumeAt, retryCount, assignedKey, question, run, micro,
                 sessions, queue, keySlotUsage, reservedKey, timers, deferred,
                 daemon>>

(* POST /tasks/:id/question/:requestId, the session still in memory: hand   *)
(* it the answer, then write the row and flip the task back to running.     *)
AnswerHot(t, n) ==
  /\ Serving
  /\ question[t][n] = "pending"
  /\ sessions[t] # NoRun
  /\ n \in run[sessions[t]].open
  /\ run' = [run EXCEPT ![sessions[t]].open = @ \ {n}]
  /\ question' = [question EXCEPT ![t][n] = "answered"]
  /\ status' = [status EXCEPT ![t] = IF validateTaskTransition(@, "running")
                                     THEN "running" ELSE @]
  /\ UNCHANGED <<resumeAt, retryCount, assignedKey, micro, sessions, queue,
                 keySlotUsage, reservedKey, timers, deferred, rejecting, daemon>>

(* The same route after a restart: persist the answer, requeue, execute.    *)
(* Mutant: the cold path taken while the session is in memory. *)
AnswerColdAlways(t, n) ==
  /\ Serving
  /\ question[t][n] = "pending"
  /\ status[t] = "waiting_for_input"
  /\ question' = [question EXCEPT ![t][n] = "answered"]
  /\ status' = [status EXCEPT ![t] = "queued"]
  /\ Execute(run, micro, <<t>>)
  /\ UNCHANGED <<resumeAt, retryCount, assignedKey, sessions, queue,
                 keySlotUsage, reservedKey, timers, deferred, rejecting, daemon>>
AnswerCold(t, n) ==
  /\ Serving
  /\ question[t][n] = "pending"
  /\ sessions[t] = NoRun
  /\ status[t] = "waiting_for_input"
  /\ question' = [question EXCEPT ![t][n] = "answered"]
  /\ status' = [status EXCEPT ![t] = "queued"]
  /\ Execute(run, micro, <<t>>)
  /\ UNCHANGED <<resumeAt, retryCount, assignedKey, sessions, queue,
                 keySlotUsage, reservedKey, timers, deferred, rejecting, daemon>>

-----------------------------------------------------------------------------
(* Timers, shutdown, crash and boot *)

(* RateLimitScheduler.fire -> resumeFromRateLimit: a row that is no longer  *)
(* rate_limited is left alone.                                              *)
ResumeFromRateLimit(t) ==
  /\ Serving
  /\ t \in timers
  /\ timers' = timers \ {t}
  /\ IF status[t] = "rate_limited"
     THEN /\ status' = [status EXCEPT ![t] = "queued"]
          /\ resumeAt' = resumeAt \ {t}
          /\ Execute(run, micro, <<t>>)
     ELSE UNCHANGED <<status, resumeAt, run, micro>>
  /\ UNCHANGED <<retryCount, assignedKey, question, sessions, queue,
                 keySlotUsage, reservedKey, deferred, rejecting, daemon>>

(* The setTimeout(0) callback of an automatic retry. *)
RunDeferred(t) ==
  /\ Serving
  /\ t \in deferred
  /\ deferred' = deferred \ {t}
  /\ Execute(run, micro, <<t>>)
  /\ UNCHANGED <<dbVars, sessions, queue, keySlotUsage, reservedKey, timers,
                 rejecting, daemon>>

(* shutdown() -> cancelAll(): abort the registered sessions, drop the queue *)
(* and the timers.  HTTP stays up until the chats have drained.             *)
CancelAll ==
  /\ Serving
  /\ daemon = "up"
  /\ daemon' = "stopping"
  /\ run' = [r \in Runs |-> IF sessions[Task(r)] = r
                            THEN Aborted(run[r], "shutdown") ELSE run[r]]
  /\ queue' = <<>>
  /\ timers' = {}
  /\ UNCHANGED <<dbVars, micro, sessions, keySlotUsage, reservedKey, deferred,
                 rejecting>>

(* process.exit at the end of a shutdown, or a crash at any point. *)
Exit ==
  /\ daemon # "down"
  /\ daemon' = "down"
  /\ run' = [r \in Runs |-> IdleRun]
  /\ micro' = <<>>
  /\ sessions' = [t \in Tasks |-> NoRun]
  /\ queue' = <<>>
  /\ keySlotUsage' = [k \in Keys |-> 0]
  /\ reservedKey' = [t \in Tasks |-> NoKey]
  /\ timers' = {} /\ deferred' = {} /\ rejecting' = {}
  /\ UNCHANGED dbVars

(* Boot: resetStaleTasks, recoverFromDatabase, then execute() on every      *)
(* requeued row (in row order: any order of the ids).                       *)
(* Mutant: only running rows are taken up again. *)
StaleRunning == {t \in Tasks : status[t] = "running"}
Stale == {t \in Tasks : status[t] \in {"running", "queued"}}
Boot ==
  /\ daemon = "down"
  /\ daemon' = "up"
  /\ status' = [t \in Tasks |-> IF t \in Stale THEN "queued" ELSE status[t]]
  /\ timers' = {t \in Tasks : status[t] = "rate_limited" /\ t \in resumeAt}
  /\ \E requeued \in SetToSeqs(Stale) : Execute(run, micro, requeued)
  /\ UNCHANGED <<resumeAt, retryCount, assignedKey, question, sessions, queue,
                 keySlotUsage, reservedKey, deferred, rejecting>>

-----------------------------------------------------------------------------
RunStep(r) ==
  \/ SelectKey(r) \/ EnqueueTask(r) \/ FailBeforeStart(r) \/ StartRun(r)
  \/ PrepareFail(r) \/ PrepareOk(r) \/ EndRun(r)
SessionSettles(r) ==
  \/ SessionSucceeds(r) \/ SessionRateLimited(r)
  \/ SessionAborts(r) \/ SessionFails(r)
SessionStep(r) == SessionSettles(r) \/ SessionTimesOut(r) \/ Ask(r)
Request(t) ==
  \/ Create(t) \/ (\E u \in Tasks : Rerun(t, u)) \/ Cancel(t) \/ Approve(t)
  \/ RejectBegin(t) \/ RejectCommit(t)
  \/ \E n \in QuestionNums : AnswerHot(t, n) \/ AnswerCold(t, n)
TimerFires(t) == ResumeFromRateLimit(t) \/ RunDeferred(t)

Next ==
  \/ \E r \in Runs : RunStep(r) \/ SessionStep(r)
  \/ \E t \in Tasks : Request(t) \/ TimerFires(t)
  \/ CancelAll \/ Exit \/ Boot

(* The event loop keeps turning, and a callback that is due (a git command  *)
(* that ended, a provider call that settled, a timer) is served however     *)
(* often promise jobs come first: strong fairness, because Serving is false *)
(* while micro drains.  A session blocked on a question need not settle;    *)
(* nothing is assumed of users, crashes or restarts.                        *)
Attempts(t) == {t} \X {1, 2}
SettlesUnblocked(r) == SessionSettles(r) /\ run[r].open = {}
RunProceeds(t) == \E r \in Attempts(t) : RunStep(r) \/ SettlesUnblocked(r)
Fairness ==
  \A t \in Tasks : SF_vars(RunProceeds(t)) /\ SF_vars(TimerFires(t))

Spec == Init /\ [][Next]_vars
FairSpec == Spec /\ Fairness
-----------------------------------------------------------------------------
(* Properties *)

TypeOK ==
  /\ status \in [Tasks -> Status]
  /\ resumeAt \subseteq Tasks
  /\ retryCount \in [Tasks -> 0..MaxRetries]
  /\ assignedKey \in [Tasks -> Keys \cup {NoKey}]
  /\ question \in [Tasks -> [QuestionNums -> {"none", "pending", "answered"}]]
  /\ run \in [Runs -> RunState]
  /\ micro \in Seq(Runs)
  /\ sessions \in [Tasks -> Runs \cup {NoRun}]
  /\ queue \in Seq(Tasks)
  /\ keySlotUsage \in [Keys -> Nat]
  /\ reservedKey \in [Tasks -> Keys \cup {NoKey}]
  /\ timers \subseteq Tasks /\ deferred \subseteq Tasks
  /\ rejecting \subseteq Tasks
  /\ daemon \in {"up", "stopping", "down"}

(* Although execute() has no guard against it, no sequence of requests,     *)
(* timers, restarts and queue flushes makes two runs of one task alive at   *)
(* once, and a task that is being run is not also waiting in the queue.     *)
SingleRun ==
  \A t \in Tasks :
    /\ ~(Active(<<t, 1>>) /\ Active(<<t, 2>>))
    /\ t \in ToSet(queue) => ~Active(<<t, 1>>) /\ ~Active(<<t, 2>>)

(* The counter of every key equals the number of runs that hold a slot of   *)
(* it: no slot is leaked by a failure, a cancel, a park or a flush, and     *)
(* none is released twice.                                                  *)
SlotAccounting ==
  \A k \in Keys :
    keySlotUsage[k] = Cardinality({r \in Runs : HoldsSlot(r) /\ run[r].key = k})

(* At most MaxPerKey sessions are started per AI provider key.              *)
KeyCapacity ==
  \A k \in Keys :
    Cardinality({r \in Runs : HoldsSlot(r) /\ run[r].key = k}) <= MaxPerKey

RunsOf(t) == {r \in Runs : Task(r) = t /\ Active(r)}

(* The status column never claims work nobody does: in a running daemon a   *)
(* running row has a run that started, a queued row is in the queue, in a   *)
(* retry timer or on its way to a key, and a rate-limited row has its       *)
(* wake-up armed and, for the next boot, its resume_at written.             *)
RowsAreOwned ==
  /\ \A t \in Tasks : status[t] = "rate_limited" => t \in resumeAt
  /\ daemon = "up" =>
       \A t \in Tasks :
         /\ status[t] = "running" => \E r \in RunsOf(t) : HoldsSlot(r)
         /\ status[t] = "queued" => \/ t \in ToSet(queue) \cup deferred
                                    \/ RunsOf(t) # {}
         /\ status[t] = "rate_limited" => t \in timers

(* A registered session belongs to a run that is awaiting it: cancel and    *)
(* answer, which go through the sessions map, never reach a dead session,   *)
(* and no live session is out of their reach.                               *)
SessionsReachable ==
  \A t \in Tasks :
    /\ sessions[t] # NoRun => Task(sessions[t]) = t /\ run[sessions[t]].phase = "live"
    /\ \A r \in RunsOf(t) : run[r].phase = "live" => sessions[t] = r

(* What a step may do to a row that has reached an end.  A failed or timed  *)
(* out task stays so (a retry or a rerun is a new row); a done task can     *)
(* only be changed by the end of the session it was approved under, or by a *)
(* reject that was already under way.                                       *)
EndsAreKept ==
  [][\A t \in Tasks :
       /\ status[t] \in {"failed", "timed_out"} /\ RunsOf(t) = {} =>
            status'[t] \in {status[t]} \cup (IF t \in rejecting THEN {"cancelled"} ELSE {})
       /\ status[t] = "done" /\ status'[t] # "done" =>
            t \in rejecting \/ RunsOf(t) # {}]_vars

(* A task cancelled through the cancel route while its session is live is   *)
(* never reported as finished, failed or timed out by that session.         *)
CancelNotOverwritten ==
  [][\A t \in Tasks :
       status[t] = "cancelled" /\ sessions[t] # NoRun =>
         status'[t] \in {"cancelled", "rate_limited"}]_vars
BlockedOnUser == \E r \in Runs : run[r].open # {}

(* A queued task leaves the queue unless the daemon stops or some session   *)
(* sits on an unanswered question (and so keeps its slot).                  *)
QueuedProgresses ==
  \A t \in Tasks :
    status[t] = "queued" ~>
      status[t] # "queued" \/ BlockedOnUser \/ daemon # "up"

(* A task parked by a provider limit is resumed, cancelled or rejected      *)
(* unless the daemon stops first.                                           *)
ParkedResumes ==
  \A t \in Tasks :
    status[t] = "rate_limited" ~> status[t] # "rate_limited" \/ daemon # "up"
-----------------------------------------------------------------------------
(* What the repository says and the code does not keep.                     *)

(* executor-finalize.ts: the cancel endpoint's state is not stomped on.     *)
(* The table of transitions lets a cancelled row go back to queued only.    *)
CancelIsFinal ==
  [][\A t \in Tasks : status[t] = "cancelled" =>
       status'[t] \in {"cancelled", "queued"}]_vars
=============================================================================
