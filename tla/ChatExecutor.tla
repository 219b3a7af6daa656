--------------------------- MODULE ChatExecutor ---------------------------
(***************************************************************************)
(* The turns of one chat: ChatExecutor (services/chat-executor.ts), the    *)
(* two message endpoints (routes/chats/messages.ts), the parking and the   *)
(* replay of a rate-limited turn (services/chat-rate-limit.ts) with its    *)
(* timer (services/agents/rate-limit-scheduler.ts), the questions and the  *)
(* approval of the chat, and the daemon's shutdown, death and boot         *)
(* (server-entry.ts).  Chats share nothing here, so one is enough.         *)
(*                                                                         *)
(* The server accepts a message at any time: two turns may overlap, and a  *)
(* turn of the user may overlap the replay of a parked one.  The provider  *)
(* is external: a run succeeds, fails or hits a limit.  Texts, usage, the  *)
(* SSE and WebSocket frames and permission requests are left out.          *)
(***************************************************************************)
EXTENDS FiniteSets

CONSTANTS
  Sends,            \* turns a client starts, an id is free again at its end
  Wakes,            \* turns resumeChatAfterRateLimit starts
  NoTurn,
  RequiresApproval  \* the requires_approval flag of the chat

ASSUME TurnsAssumption == Sends \cap Wakes = {} /\ NoTurn \notin Sends \cup Wakes
ASSUME ApprovalAssumption == RequiresApproval \in BOOLEAN

Turns == Sends \cup Wakes

VARIABLES
  daemon,     \* the process
  status,     \* column of the chat row
  approval,   \* column approval_status: pending, or null or decided
  questions,  \* pending agent_questions rows, by the turn that asked
  timer,      \* an armed wake-up in the scheduler
  inflight,   \* the chat is in inflightWakeups
  claimed,    \* the chat is in pendingSessions
  session,    \* the turn whose session is in the sessions map
  pc,         \* how far each turn has got
  aborted,    \* turns whose session was aborted
  asking,     \* turns that await the answer to a question
  alone,      \* history: the turn that no other turn has overlapped
  stopped     \* history: Stop came after the last park

rows == <<status, approval, questions>>
scheduler == <<timer, inflight>>
memory == <<claimed, session, pc, aborted, asking, alone>>
vars == <<daemon, rows, scheduler, memory, stopped>>

Statuses == {"idle", "running", "rate_limited"}
Outcomes == {"ok", "failed", "limited"}
(* "off": no such turn.  "woken": the scheduler has called the handler,    *)
(* which has not read the row.  "setup": before register().  "posted" and  *)
(* "running": the session runs, for POST /messages and for the others.     *)
(* An outcome: the run has settled, the stream handler has not gone on.    *)
(* "saved": it has, and writes its last frames.                            *)
Steps == {"off", "woken", "setup", "posted", "running", "saved"} \cup Outcomes

Runs(t) == pc[t] \in {"posted", "running"}
InProgress(t) == pc[t] \notin {"off", "woken"}
isRunning == session # NoTurn \/ claimed
(* The question of a turn that is gone, its row still pending.             *)
Left == NoTurn

TypeOK ==
  /\ daemon \in {"up", "draining", "down"}
  /\ status \in Statuses
  /\ approval \in {"open", "pending"}
  /\ questions \subseteq Turns \cup {Left}
  /\ timer \in BOOLEAN /\ inflight \in BOOLEAN /\ claimed \in BOOLEAN
  /\ session \in Turns \cup {NoTurn}
  /\ pc \in [Turns -> Steps]
  /\ aborted \subseteq Turns /\ asking \subseteq Turns /\ alone \subseteq Turns
  /\ stopped \in BOOLEAN

(* A new chat in a fresh daemon.                                           *)
Init ==
  /\ daemon = "up" /\ status = "idle" /\ approval = "open" /\ questions = {}
  /\ timer = FALSE /\ inflight = FALSE /\ claimed = FALSE /\ session = NoTurn
  /\ pc = [t \in Turns |-> "off"]
  /\ aborted = {} /\ asking = {} /\ alone = {} /\ stopped = FALSE

-----------------------------------------------------------------------------
(* The methods of the executor.                                            *)

(* Mutant: the handler claims nothing.                                     *)
claimNothing == claimed' = claimed
claim == claimed' = (claimed \/ session = NoTurn)

(* A replay leaves a claim it never made.                                  *)
register(t) == claimed' = FALSE /\ session' = t

markPendingApprovalIfRequired ==
  approval' = IF RequiresApproval THEN "pending" ELSE approval

(* The turn is in progress from now on, with or without company.           *)
Begins(t, p) ==
  /\ pc' = [pc EXCEPT ![t] = p]
  /\ alone' = IF \E u \in Turns \ {t} : InProgress(u) THEN {} ELSE {t}

(* unregister(), whoever's session and claim it finds; a question that is  *)
(* still open keeps its row.                                               *)
unregister(t) ==
  /\ session' = NoTurn /\ claimed' = FALSE
  /\ pc' = [pc EXCEPT ![t] = "off"]
  /\ aborted' = aborted \ {t} /\ asking' = asking \ {t} /\ alone' = alone \ {t}
  /\ questions' = IF t \in questions THEN (questions \ {t}) \cup {Left} ELSE questions

parkChatForRateLimit ==
  status' = "rate_limited" /\ timer' = TRUE /\ stopped' = FALSE

-----------------------------------------------------------------------------
(* POST /chats/:id/messages/stream                                         *)

(* Up to the first frame, which is awaited.                                *)
StreamSend(t) ==
  /\ daemon # "down" /\ t \in Sends /\ pc[t] = "off"
  /\ claim /\ Begins(t, "setup")
  /\ UNCHANGED <<daemon, rows, scheduler, session, aborted, asking, stopped>>

(* An invalid effort or thinking_enabled is found after the claim: 422.    *)
StreamRejected ==
  /\ daemon # "down" /\ ~isRunning
  /\ claim
  /\ UNCHANGED <<daemon, rows, scheduler, session, pc, aborted, asking, alone, stopped>>

StreamRegisters(t) ==
  /\ t \in Sends /\ pc[t] = "setup"
  /\ register(t)
  /\ pc' = [pc EXCEPT ![t] = "running"]
  /\ UNCHANGED <<daemon, rows, scheduler, aborted, asking, alone, stopped>>

(* A run that awaits an answer only ends when its process dies.            *)
MaySettle(t, o) == Runs(t) /\ (t \in asking => o = "failed")

StreamSettles(t, o) ==
  /\ t \in Sends /\ pc[t] = "running" /\ MaySettle(t, o)
  /\ pc' = [pc EXCEPT ![t] = o]
  /\ UNCHANGED <<daemon, rows, scheduler, claimed, session, aborted, asking, alone, stopped>>

(* The handler goes on when its frames are written: it parks the chat, or  *)
(* saves the answer and, after a success, asks for approval.               *)
StreamParks(t) ==
  /\ pc[t] = "limited" /\ parkChatForRateLimit
  /\ pc' = [pc EXCEPT ![t] = "saved"]
  /\ UNCHANGED <<daemon, approval, questions, inflight,
                 claimed, session, aborted, asking, alone>>

StreamSaves(t) ==
  /\ pc[t] \in {"ok", "failed"}
  /\ pc' = [pc EXCEPT ![t] = "saved"]
  /\ IF pc[t] = "ok" THEN markPendingApprovalIfRequired ELSE approval' = approval
  /\ UNCHANGED <<daemon, status, questions, scheduler,
                 claimed, session, aborted, asking, alone, stopped>>

StreamEnds(t) ==
  /\ pc[t] = "saved"
  /\ unregister(t)
  /\ UNCHANGED <<daemon, status, approval, scheduler, stopped>>

-----------------------------------------------------------------------------
(* POST /chats/:id/messages: claim and register in one go, and so the end. *)

PostSend(t) ==
  /\ daemon # "down" /\ t \in Sends /\ pc[t] = "off"
  /\ register(t) /\ Begins(t, "posted")
  /\ UNCHANGED <<daemon, rows, scheduler, aborted, asking, stopped>>

PostEnds(t) ==
  /\ pc[t] = "posted" /\ \E o \in {"ok", "failed"} : MaySettle(t, o)
  /\ markPendingApprovalIfRequired
  /\ unregister(t)
  /\ UNCHANGED <<daemon, status, scheduler, stopped>>

PostParks(t) ==
  /\ pc[t] = "posted" /\ MaySettle(t, "limited")
  /\ parkChatForRateLimit
  /\ unregister(t)
  /\ UNCHANGED <<daemon, approval, inflight>>

-----------------------------------------------------------------------------
(* Questions, Stop and approval.                                           *)

(* An aborted session answers its own questions.                           *)
Asks(t) ==
  /\ Runs(t) /\ t \notin aborted \cup asking
  /\ asking' = asking \cup {t} /\ questions' = questions \cup {t}
  /\ UNCHANGED <<daemon, status, approval, scheduler,
                 claimed, session, pc, aborted, alone, stopped>>

answerQuestion(t) ==
  /\ t \in questions /\ session = t /\ t \in asking
  /\ asking' = asking \ {t} /\ questions' = questions \ {t}
  /\ UNCHANGED <<daemon, status, approval, scheduler,
                 claimed, session, pc, aborted, alone, stopped>>

(* The session in the map is aborted, and its open question answered.      *)
Aborts ==
  /\ aborted' = aborted \cup ({session} \ {NoTurn})
  /\ asking' = asking \ {session}

(* Mutant: Stop clears the question and forgets the session.               *)
cancelRows ==
  /\ daemon # "down"
  /\ timer' = FALSE /\ questions' = {} /\ stopped' = TRUE
  /\ UNCHANGED <<daemon, status, approval, inflight, memory>>
(* POST /chats/:id/cancel; the row stays parked.                           *)
cancel ==
  /\ daemon # "down"
  /\ timer' = FALSE /\ questions' = {} /\ stopped' = TRUE
  /\ Aborts
  /\ UNCHANGED <<daemon, status, approval, inflight, claimed, session, pc, alone>>

(* POST /chats/:id/approve and /reject                                     *)
Review ==
  /\ daemon # "down" /\ approval = "pending"
  /\ approval' = "open"
  /\ UNCHANGED <<daemon, status, questions, scheduler, memory, stopped>>

-----------------------------------------------------------------------------
(* The wake-up of a parked chat.                                           *)

(* Mutant: a wake-up does not look for another one in flight.              *)
FiresTwice(t) ==
  /\ timer /\ daemon # "down"
  /\ timer' = FALSE
  /\ t \in Wakes /\ pc[t] = "off" /\ pc' = [pc EXCEPT ![t] = "woken"] /\ inflight' = TRUE
  /\ UNCHANGED <<daemon, rows, claimed, session, aborted, asking, alone, stopped>>
(* The timer is due; the wake-up is dropped while another is in flight.    *)
TimerFires(t) ==
  /\ timer /\ daemon # "down"
  /\ timer' = FALSE
  /\ t \in Wakes /\ pc[t] = "off"
  /\ IF inflight THEN UNCHANGED <<pc, inflight>>
                 ELSE pc' = [pc EXCEPT ![t] = "woken"] /\ inflight' = TRUE
  /\ UNCHANGED <<daemon, rows, claimed, session, aborted, asking, alone, stopped>>

(* The row is no longer parked: nothing to replay.                         *)
WakeReturns(t) ==
  /\ pc[t] = "woken" /\ status # "rate_limited"
  /\ pc' = [pc EXCEPT ![t] = "off"] /\ inflight' = FALSE
  /\ UNCHANGED <<daemon, rows, timer, claimed, session, aborted, asking, alone, stopped>>

(* The replay makes no claim before its dynamic import.                    *)
WakeReplays(t) ==
  /\ pc[t] = "woken" /\ status = "rate_limited"
  /\ status' = "running" /\ Begins(t, "setup")
  /\ UNCHANGED <<daemon, approval, questions, scheduler,
                 claimed, session, aborted, asking, stopped>>

WakeRegisters(t) ==
  /\ t \in Wakes /\ pc[t] = "setup"
  /\ register(t)
  /\ pc' = [pc EXCEPT ![t] = "running"]
  /\ UNCHANGED <<daemon, rows, scheduler, aborted, asking, alone, stopped>>

(* Mutant: the key stays in inflightWakeups.                               *)
WakeEndsInFlight(t, o) ==
  /\ t \in Wakes /\ pc[t] = "running" /\ o # "limited" /\ MaySettle(t, o)
  /\ status' = "idle" /\ unregister(t)
  /\ UNCHANGED <<daemon, approval, scheduler, stopped>>
WakeEnds(t, o) ==
  /\ t \in Wakes /\ pc[t] = "running" /\ o # "limited" /\ MaySettle(t, o)
  /\ status' = "idle" /\ inflight' = FALSE /\ unregister(t)
  /\ UNCHANGED <<daemon, approval, timer, stopped>>

WakeParks(t) ==
  /\ t \in Wakes /\ pc[t] = "running" /\ MaySettle(t, "limited")
  /\ parkChatForRateLimit /\ inflight' = FALSE /\ unregister(t)
  /\ UNCHANGED <<daemon, approval>>

-----------------------------------------------------------------------------
(* The daemon.                                                             *)

(* SIGTERM: cancelAll() of the executor and of the scheduler.              *)
Shutdown ==
  /\ daemon = "up" /\ daemon' = "draining"
  /\ timer' = FALSE /\ Aborts
  /\ UNCHANGED <<rows, inflight, claimed, session, pc, alone, stopped>>

Dead ==
  /\ daemon' = "down" /\ timer' = FALSE /\ inflight' = FALSE
  /\ claimed' = FALSE /\ session' = NoTurn
  /\ pc' = [t \in Turns |-> "off"] /\ aborted' = {} /\ asking' = {} /\ alone' = {}
  /\ questions' = IF questions = {} THEN {} ELSE {Left}
  /\ UNCHANGED <<status, approval, stopped>>

(* waitForIdle() has found no session and no claim.                        *)
Drained == daemon = "draining" /\ ~isRunning /\ Dead
(* A crash, or the 15 s of waitForIdle() are over.                         *)
Crash == daemon # "down" /\ Dead

(* Mutant: no sweep of the chats that a dead daemon left running.          *)
BootUnswept ==
  /\ daemon = "down" /\ daemon' = "up"
  /\ questions' = {} /\ timer' = (status = "rate_limited") /\ stopped' = FALSE
  /\ UNCHANGED <<status, approval, inflight, memory>>
(* Mutant: parked chats are not armed again.                               *)
BootUnarmed ==
  /\ daemon = "down" /\ daemon' = "up"
  /\ questions' = {} /\ stopped' = FALSE
  /\ status' = IF status = "running" THEN "idle" ELSE status
  /\ UNCHANGED <<approval, timer, inflight, memory>>
(* The two sweeps, then recoverFromDatabase().                             *)
Boot ==
  /\ daemon = "down" /\ daemon' = "up"
  /\ questions' = {}
  /\ status' = IF status = "running" THEN "idle" ELSE status
  /\ timer' = (status = "rate_limited") /\ stopped' = FALSE
  /\ UNCHANGED <<approval, inflight, memory>>

-----------------------------------------------------------------------------
Stream(t) == StreamParks(t) \/ StreamSaves(t) \/ StreamEnds(t)
Post(t) == PostSend(t) \/ PostEnds(t) \/ PostParks(t)
Wake(t) == WakeReturns(t) \/ WakeReplays(t) \/ WakeRegisters(t) \/ WakeParks(t)

Next ==
  \/ \E t \in Turns : \/ StreamSend(t) \/ StreamRegisters(t) \/ Stream(t) \/ Post(t)
                      \/ Asks(t) \/ answerQuestion(t)
                      \/ TimerFires(t) \/ Wake(t)
                      \/ \E o \in Outcomes : StreamSettles(t, o) \/ WakeEnds(t, o)
  \/ StreamRejected \/ cancel \/ Review
  \/ Shutdown \/ Drained \/ Crash \/ Boot

(* The event loop runs due timers and resolved promises; a run that waits  *)
(* for nobody ends.  No user acts, and no daemon boots, by necessity.      *)
Fairness ==
  /\ WF_vars(\E t \in Turns : TimerFires(t))
  /\ \A t \in Wakes : WF_vars(Wake(t) \/ \E o \in Outcomes : WakeEnds(t, o))

Spec == Init /\ [][Next]_vars /\ Fairness

-----------------------------------------------------------------------------
(* Safety.                                                                 *)

(* A parked chat has an armed wake-up or a wake-up in flight until the     *)
(* user presses Stop: neither a dropped wake-up, nor a replay that fails   *)
(* or is limited again, nor a boot leaves it parked for good.              *)
ParkedIsWoken ==
  daemon = "up" /\ status = "rate_limited" /\ ~stopped =>
    timer \/ \E t \in Wakes : pc[t] # "off"

(* A row says "running" only while a replay is in progress: no chat is     *)
(* busy for good, whatever overlaps the replay or kills it.                *)
BusyMeansReplaying ==
  daemon # "down" /\ status = "running" => \E t \in Wakes : InProgress(t)

(* A chat is replayed once at a time, also when a turn of the user parks   *)
(* it again under a replay.                                                *)
OneReplay == \A t, u \in Wakes : InProgress(t) /\ InProgress(u) => t = u

(* A turn that no other overlaps is seen by isRunning(), by Stop and by    *)
(* the drain of shutdown until its answer is saved, apart from the import  *)
(* that a replay awaits.                                                   *)
TurnsAreSeen ==
  \A t \in alone : InProgress(t) =>
    \/ session = t
    \/ pc[t] = "setup" /\ (claimed \/ t \in Wakes)

(* Nobody waits in vain: when such a turn awaits an answer, its question   *)
(* is pending in the database and the answer finds the session.            *)
AskingIsAnswerable == \A t \in alone \cap asking : t \in questions /\ session = t

(* The turns, timers and sessions above keep the promise of ChatLife.      *)
Life == INSTANCE ChatLife WITH
  row <- status,
  waking <- timer \/ \E t \in Wakes : pc[t] = "woken",
  replaying <- \E t \in Wakes : InProgress(t)
ImplementsChatLife == Life!Spec

(* Liveness: a parked chat goes on, unless Stop, the daemon's end or a     *)
(* question of the replay keeps it.                                        *)
ParkedResumes ==
  status = "rate_limited" ~>
    status # "rate_limited" \/ stopped \/ daemon # "up" \/ Wakes \cap asking # {}

-----------------------------------------------------------------------------
(* What routes/chats/messages.ts:857-858 says: the resume path asks for    *)
(* the approval of a turn once its replay has landed.                      *)
ReplaysAreReviewed ==
  [][\A t \in Wakes : WakeEnds(t, "ok") /\ RequiresApproval => approval' = "pending"]_vars

=============================================================================
