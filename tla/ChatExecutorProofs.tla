------------------------ MODULE ChatExecutorProofs ------------------------
(***************************************************************************)
(* Proofs about ChatExecutor: its type invariant, the safety invariants of *)
(* the turns of a chat, and that they implement ChatLife, for every set of *)
(* turns and of wake-ups.                                                  *)
(***************************************************************************)
EXTENDS ChatExecutor, TLAPS

(* Each kind of turn goes through its own steps.                           *)
PcKinds ==
  /\ \A t \in Sends : pc[t] # "woken"
  /\ \A t \in Wakes : pc[t] \in {"off", "woken", "setup", "running"}

(* inflightWakeups stands for the one wake-up that there may be.           *)
WakesSingle == \A t, u \in Wakes : pc[t] # "off" /\ pc[u] # "off" => t = u
InflightExact == inflight <=> \E t \in Wakes : pc[t] # "off"

(* Nothing of a dead daemon's memory is left.                              *)
DownIsEmpty ==
  daemon = "down" =>
    /\ ~timer /\ session = NoTurn /\ asking = {} /\ alone = {}
    /\ \A t \in Turns : pc[t] = "off"

(* The part that refinement and the replays need.                          *)
WakeInv == TypeOK /\ PcKinds /\ WakesSingle /\ InflightExact /\ DownIsEmpty

(* The part about sessions.                                                *)
SessionLive == session # NoTurn => pc[session] \notin {"off", "woken", "setup"}
AloneMeans ==
  \A t \in alone : InProgress(t) /\ \A u \in Turns : InProgress(u) => u = t
AskingPast == \A t \in asking : pc[t] \notin {"off", "woken", "setup"}
SessionInv == SessionLive /\ AloneMeans /\ TurnsAreSeen /\ AskingPast /\ AskingIsAnswerable

IInv == WakeInv /\ ParkedIsWoken /\ BusyMeansReplaying /\ SessionInv

-----------------------------------------------------------------------------
(* Every action keeps the types.                                           *)
LEMMA TypeStep ==
  ASSUME TypeOK, [Next]_vars
  PROVE  TypeOK'
<1> USE TurnsAssumption, ApprovalAssumption DEF TypeOK, Turns, Steps,
        Outcomes, Statuses, rows, scheduler, memory
<1>1. ASSUME NEW t \in Turns, StreamSend(t)
       PROVE  TypeOK'
  BY <1>1 DEF StreamSend, claim, Begins
<1>2. ASSUME NEW t \in Turns, StreamRegisters(t)
       PROVE  TypeOK'
  BY <1>2 DEF StreamRegisters, register
<1>3. ASSUME NEW t \in Turns, StreamParks(t)
       PROVE  TypeOK'
  BY <1>3 DEF StreamParks, parkChatForRateLimit
<1>4. ASSUME NEW t \in Turns, StreamSaves(t)
       PROVE  TypeOK'
  BY <1>4 DEF StreamSaves, markPendingApprovalIfRequired
<1>5. ASSUME NEW t \in Turns, StreamEnds(t)
       PROVE  TypeOK'
  BY <1>5 DEF StreamEnds, unregister, Left
<1>6. ASSUME NEW t \in Turns, PostSend(t)
       PROVE  TypeOK'
  BY <1>6 DEF PostSend, register, Begins
<1>7. ASSUME NEW t \in Turns, PostEnds(t)
       PROVE  TypeOK'
  BY <1>7 DEF PostEnds, markPendingApprovalIfRequired, unregister, Left,
       MaySettle, Runs
<1>8. ASSUME NEW t \in Turns, PostParks(t)
       PROVE  TypeOK'
  BY <1>8 DEF PostParks, parkChatForRateLimit, unregister, Left, MaySettle,
       Runs
<1>9. ASSUME NEW t \in Turns, Asks(t)
       PROVE  TypeOK'
  BY <1>9 DEF Asks, Runs
<1>10. ASSUME NEW t \in Turns, answerQuestion(t)
       PROVE  TypeOK'
  BY <1>10 DEF answerQuestion
<1>11. ASSUME NEW t \in Turns, TimerFires(t)
       PROVE  TypeOK'
  BY <1>11 DEF TimerFires
<1>12. ASSUME NEW t \in Turns, WakeReturns(t)
       PROVE  TypeOK'
  BY <1>12 DEF WakeReturns
<1>13. ASSUME NEW t \in Turns, WakeReplays(t)
       PROVE  TypeOK'
  BY <1>13 DEF WakeReplays, Begins
<1>14. ASSUME NEW t \in Turns, WakeRegisters(t)
       PROVE  TypeOK'
  BY <1>14 DEF WakeRegisters, register
<1>15. ASSUME NEW t \in Turns, WakeParks(t)
       PROVE  TypeOK'
  BY <1>15 DEF WakeParks, parkChatForRateLimit, unregister, Left, MaySettle,
       Runs
<1>16. ASSUME NEW t \in Turns, NEW o \in Outcomes, StreamSettles(t, o)
       PROVE  TypeOK'
  BY <1>16 DEF StreamSettles, MaySettle, Runs
<1>17. ASSUME NEW t \in Turns, NEW o \in Outcomes, WakeEnds(t, o)
       PROVE  TypeOK'
  BY <1>17 DEF WakeEnds, unregister, Left, MaySettle, Runs
<1>18. ASSUME StreamRejected
       PROVE  TypeOK'
  BY <1>18 DEF StreamRejected, claim, isRunning
<1>19. ASSUME cancel
       PROVE  TypeOK'
  BY <1>19 DEF cancel, Aborts
<1>20. ASSUME Review
       PROVE  TypeOK'
  BY <1>20 DEF Review
<1>21. ASSUME Shutdown
       PROVE  TypeOK'
  BY <1>21 DEF Shutdown, Aborts
<1>22. ASSUME Drained \/ Crash
       PROVE  TypeOK'
  BY <1>22 DEF Drained, Crash, Dead
<1>23. ASSUME Boot
       PROVE  TypeOK'
  BY <1>23 DEF Boot
<1>24. ASSUME UNCHANGED vars
       PROVE  TypeOK'
  BY <1>24 DEF vars
<1> QED
  BY <1>1, <1>2, <1>3, <1>4, <1>5, <1>6, <1>7, <1>8, <1>9, <1>10, <1>11,
     <1>12, <1>13, <1>14, <1>15, <1>16, <1>17, <1>18, <1>19, <1>20, <1>21,
     <1>22, <1>23, <1>24
     DEF Next, Stream, Post, Wake

(* Every action keeps a turn to the steps of its kind, and the memory of a *)
(* dead daemon empty.                                                      *)
LEMMA KindStep ==
  ASSUME TypeOK, PcKinds, DownIsEmpty, [Next]_vars
  PROVE  PcKinds' /\ DownIsEmpty'
<1> USE TurnsAssumption, ApprovalAssumption DEF TypeOK, Turns, Steps,
        Outcomes, PcKinds, DownIsEmpty, rows, scheduler, memory
<1>1. ASSUME NEW t \in Turns, StreamSend(t)
       PROVE  PcKinds' /\ DownIsEmpty'
  BY <1>1 DEF StreamSend, claim, Begins
<1>2. ASSUME NEW t \in Turns, StreamRegisters(t)
       PROVE  PcKinds' /\ DownIsEmpty'
  BY <1>2 DEF StreamRegisters, register
<1>3. ASSUME NEW t \in Turns, StreamParks(t)
       PROVE  PcKinds' /\ DownIsEmpty'
  BY <1>3 DEF StreamParks, parkChatForRateLimit
<1>4. ASSUME NEW t \in Turns, StreamSaves(t)
       PROVE  PcKinds' /\ DownIsEmpty'
  BY <1>4 DEF StreamSaves, markPendingApprovalIfRequired
<1>5. ASSUME NEW t \in Turns, StreamEnds(t)
       PROVE  PcKinds' /\ DownIsEmpty'
  BY <1>5 DEF StreamEnds, unregister, Left
<1>6. ASSUME NEW t \in Turns, PostSend(t)
       PROVE  PcKinds' /\ DownIsEmpty'
  BY <1>6 DEF PostSend, register, Begins
<1>7. ASSUME NEW t \in Turns, PostEnds(t)
       PROVE  PcKinds' /\ DownIsEmpty'
  BY <1>7 DEF PostEnds, markPendingApprovalIfRequired, unregister, Left,
       MaySettle, Runs
<1>8. ASSUME NEW t \in Turns, PostParks(t)
       PROVE  PcKinds' /\ DownIsEmpty'
  BY <1>8 DEF PostParks, parkChatForRateLimit, unregister, Left, MaySettle,
       Runs
<1>9. ASSUME NEW t \in Turns, Asks(t)
       PROVE  PcKinds' /\ DownIsEmpty'
  BY <1>9 DEF Asks, Runs
<1>10. ASSUME NEW t \in Turns, answerQuestion(t)
       PROVE  PcKinds' /\ DownIsEmpty'
  BY <1>10 DEF answerQuestion
<1>11. ASSUME NEW t \in Turns, TimerFires(t)
       PROVE  PcKinds' /\ DownIsEmpty'
  BY <1>11 DEF TimerFires
<1>12. ASSUME NEW t \in Turns, WakeReturns(t)
       PROVE  PcKinds' /\ DownIsEmpty'
  BY <1>12 DEF WakeReturns
<1>13. ASSUME NEW t \in Turns, WakeReplays(t)
       PROVE  PcKinds' /\ DownIsEmpty'
  BY <1>13 DEF WakeReplays, Begins
<1>14. ASSUME NEW t \in Turns, WakeRegisters(t)
       PROVE  PcKinds' /\ DownIsEmpty'
  BY <1>14 DEF WakeRegisters, register
<1>15. ASSUME NEW t \in Turns, WakeParks(t)
       PROVE  PcKinds' /\ DownIsEmpty'
  BY <1>15 DEF WakeParks, parkChatForRateLimit, unregister, Left, MaySettle,
       Runs
<1>16. ASSUME NEW t \in Turns, NEW o \in Outcomes, StreamSettles(t, o)
       PROVE  PcKinds' /\ DownIsEmpty'
  BY <1>16 DEF StreamSettles, MaySettle, Runs
<1>17. ASSUME NEW t \in Turns, NEW o \in Outcomes, WakeEnds(t, o)
       PROVE  PcKinds' /\ DownIsEmpty'
  BY <1>17 DEF WakeEnds, unregister, Left, MaySettle, Runs
<1>18. ASSUME StreamRejected
       PROVE  PcKinds' /\ DownIsEmpty'
  BY <1>18 DEF StreamRejected, claim, isRunning
<1>19. ASSUME cancel
       PROVE  PcKinds' /\ DownIsEmpty'
  BY <1>19 DEF cancel, Aborts
<1>20. ASSUME Review
       PROVE  PcKinds' /\ DownIsEmpty'
  BY <1>20 DEF Review
<1>21. ASSUME Shutdown
       PROVE  PcKinds' /\ DownIsEmpty'
  BY <1>21 DEF Shutdown, Aborts
<1>22. ASSUME Drained \/ Crash
       PROVE  PcKinds' /\ DownIsEmpty'
  BY <1>22 DEF Drained, Crash, Dead
<1>23. ASSUME Boot
       PROVE  PcKinds' /\ DownIsEmpty'
  BY <1>23 DEF Boot
<1>24. ASSUME UNCHANGED vars
       PROVE  PcKinds' /\ DownIsEmpty'
  BY <1>24 DEF vars
<1> QED
  BY <1>1, <1>2, <1>3, <1>4, <1>5, <1>6, <1>7, <1>8, <1>9, <1>10, <1>11,
     <1>12, <1>13, <1>14, <1>15, <1>16, <1>17, <1>18, <1>19, <1>20, <1>21,
     <1>22, <1>23, <1>24
     DEF Next, Stream, Post, Wake

(* There is one wake-up at most: inflightWakeups holds the chat exactly    *)
(* while it lasts.                                                         *)
LEMMA WakeStep ==
  ASSUME WakeInv, [Next]_vars
  PROVE  WakesSingle' /\ InflightExact'
<1> USE TurnsAssumption, ApprovalAssumption DEF TypeOK, Turns, Steps,
        Outcomes, WakeInv, WakesSingle, InflightExact, DownIsEmpty, PcKinds,
        rows, scheduler, memory
<1>1. ASSUME NEW t \in Turns, StreamSend(t)
       PROVE  WakesSingle' /\ InflightExact'
  BY <1>1 DEF StreamSend, claim, Begins
<1>2. ASSUME NEW t \in Turns, StreamRegisters(t)
       PROVE  WakesSingle' /\ InflightExact'
  BY <1>2 DEF StreamRegisters, register
<1>3. ASSUME NEW t \in Turns, StreamParks(t)
       PROVE  WakesSingle' /\ InflightExact'
  BY <1>3 DEF StreamParks, parkChatForRateLimit
<1>4. ASSUME NEW t \in Turns, StreamSaves(t)
       PROVE  WakesSingle' /\ InflightExact'
  BY <1>4 DEF StreamSaves, markPendingApprovalIfRequired
<1>5. ASSUME NEW t \in Turns, StreamEnds(t)
       PROVE  WakesSingle' /\ InflightExact'
  BY <1>5 DEF StreamEnds, unregister, Left
<1>6. ASSUME NEW t \in Turns, PostSend(t)
       PROVE  WakesSingle' /\ InflightExact'
  BY <1>6 DEF PostSend, register, Begins
<1>7. ASSUME NEW t \in Turns, PostEnds(t)
       PROVE  WakesSingle' /\ InflightExact'
  BY <1>7 DEF PostEnds, markPendingApprovalIfRequired, unregister, Left,
       MaySettle, Runs
<1>8. ASSUME NEW t \in Turns, PostParks(t)
       PROVE  WakesSingle' /\ InflightExact'
  BY <1>8 DEF PostParks, parkChatForRateLimit, unregister, Left, MaySettle,
       Runs
<1>9. ASSUME NEW t \in Turns, Asks(t)
       PROVE  WakesSingle' /\ InflightExact'
  BY <1>9 DEF Asks, Runs
<1>10. ASSUME NEW t \in Turns, answerQuestion(t)
       PROVE  WakesSingle' /\ InflightExact'
  BY <1>10 DEF answerQuestion
<1>11. ASSUME NEW t \in Turns, TimerFires(t)
       PROVE  WakesSingle' /\ InflightExact'
  BY <1>11 DEF TimerFires
<1>12. ASSUME NEW t \in Turns, WakeReturns(t)
       PROVE  WakesSingle' /\ InflightExact'
  BY <1>12 DEF WakeReturns
<1>13. ASSUME NEW t \in Turns, WakeReplays(t)
       PROVE  WakesSingle' /\ InflightExact'
  BY <1>13 DEF WakeReplays, Begins
<1>14. ASSUME NEW t \in Turns, WakeRegisters(t)
       PROVE  WakesSingle' /\ InflightExact'
  BY <1>14 DEF WakeRegisters, register
<1>15. ASSUME NEW t \in Turns, WakeParks(t)
       PROVE  WakesSingle' /\ InflightExact'
  BY <1>15 DEF WakeParks, parkChatForRateLimit, unregister, Left, MaySettle,
       Runs
<1>16. ASSUME NEW t \in Turns, NEW o \in Outcomes, StreamSettles(t, o)
       PROVE  WakesSingle' /\ InflightExact'
  BY <1>16 DEF StreamSettles, MaySettle, Runs
<1>17. ASSUME NEW t \in Turns, NEW o \in Outcomes, WakeEnds(t, o)
       PROVE  WakesSingle' /\ InflightExact'
  BY <1>17 DEF WakeEnds, unregister, Left, MaySettle, Runs
<1>18. ASSUME StreamRejected
       PROVE  WakesSingle' /\ InflightExact'
  BY <1>18 DEF StreamRejected, claim, isRunning
<1>19. ASSUME cancel
       PROVE  WakesSingle' /\ InflightExact'
  BY <1>19 DEF cancel, Aborts
<1>20. ASSUME Review
       PROVE  WakesSingle' /\ InflightExact'
  BY <1>20 DEF Review
<1>21. ASSUME Shutdown
       PROVE  WakesSingle' /\ InflightExact'
  BY <1>21 DEF Shutdown, Aborts
<1>22. ASSUME Drained \/ Crash
       PROVE  WakesSingle' /\ InflightExact'
  BY <1>22 DEF Drained, Crash, Dead
<1>23. ASSUME Boot
       PROVE  WakesSingle' /\ InflightExact'
  BY <1>23 DEF Boot
<1>24. ASSUME UNCHANGED vars
       PROVE  WakesSingle' /\ InflightExact'
  BY <1>24 DEF vars
<1> QED
  BY <1>1, <1>2, <1>3, <1>4, <1>5, <1>6, <1>7, <1>8, <1>9, <1>10, <1>11,
     <1>12, <1>13, <1>14, <1>15, <1>16, <1>17, <1>18, <1>19, <1>20, <1>21,
     <1>22, <1>23, <1>24
     DEF Next, Stream, Post, Wake

(* A parked chat keeps something that wakes it, and a busy one its replay. *)
LEMMA ParkedStep ==
  ASSUME WakeInv, ParkedIsWoken, BusyMeansReplaying, [Next]_vars
  PROVE  ParkedIsWoken' /\ BusyMeansReplaying'
<1> USE TurnsAssumption, ApprovalAssumption DEF TypeOK, Turns, Steps,
        Outcomes, Statuses, WakeInv, InflightExact, DownIsEmpty, PcKinds,
        ParkedIsWoken, BusyMeansReplaying, InProgress, rows, scheduler, memory
<1>1. ASSUME NEW t \in Turns, StreamSend(t)
       PROVE  ParkedIsWoken' /\ BusyMeansReplaying'
  BY <1>1 DEF StreamSend, claim, Begins
<1>2. ASSUME NEW t \in Turns, StreamRegisters(t)
       PROVE  ParkedIsWoken' /\ BusyMeansReplaying'
  BY <1>2 DEF StreamRegisters, register
<1>3. ASSUME NEW t \in Turns, StreamParks(t)
       PROVE  ParkedIsWoken' /\ BusyMeansReplaying'
  BY <1>3 DEF StreamParks, parkChatForRateLimit
<1>4. ASSUME NEW t \in Turns, StreamSaves(t)
       PROVE  ParkedIsWoken' /\ BusyMeansReplaying'
  BY <1>4 DEF StreamSaves, markPendingApprovalIfRequired
<1>5. ASSUME NEW t \in Turns, StreamEnds(t)
       PROVE  ParkedIsWoken' /\ BusyMeansReplaying'
  BY <1>5 DEF StreamEnds, unregister, Left
<1>6. ASSUME NEW t \in Turns, PostSend(t)
       PROVE  ParkedIsWoken' /\ BusyMeansReplaying'
  BY <1>6 DEF PostSend, register, Begins
<1>7. ASSUME NEW t \in Turns, PostEnds(t)
       PROVE  ParkedIsWoken' /\ BusyMeansReplaying'
  BY <1>7 DEF PostEnds, markPendingApprovalIfRequired, unregister, Left,
       MaySettle, Runs
<1>8. ASSUME NEW t \in Turns, PostParks(t)
       PROVE  ParkedIsWoken' /\ BusyMeansReplaying'
  BY <1>8 DEF PostParks, parkChatForRateLimit, unregister, Left, MaySettle,
       Runs
<1>9. ASSUME NEW t \in Turns, Asks(t)
       PROVE  ParkedIsWoken' /\ BusyMeansReplaying'
  BY <1>9 DEF Asks, Runs
<1>10. ASSUME NEW t \in Turns, answerQuestion(t)
       PROVE  ParkedIsWoken' /\ BusyMeansReplaying'
  BY <1>10 DEF answerQuestion
<1>11. ASSUME NEW t \in Turns, TimerFires(t)
       PROVE  ParkedIsWoken' /\ BusyMeansReplaying'
  BY <1>11 DEF TimerFires
<1>12. ASSUME NEW t \in Turns, WakeReturns(t)
       PROVE  ParkedIsWoken' /\ BusyMeansReplaying'
  BY <1>12 DEF WakeReturns
<1>13. ASSUME NEW t \in Turns, WakeReplays(t)
       PROVE  ParkedIsWoken' /\ BusyMeansReplaying'
  BY <1>13 DEF WakeReplays, Begins
<1>14. ASSUME NEW t \in Turns, WakeRegisters(t)
       PROVE  ParkedIsWoken' /\ BusyMeansReplaying'
  BY <1>14 DEF WakeRegisters, register
<1>15. ASSUME NEW t \in Turns, WakeParks(t)
       PROVE  ParkedIsWoken' /\ BusyMeansReplaying'
  BY <1>15 DEF WakeParks, parkChatForRateLimit, unregister, Left, MaySettle,
       Runs
<1>16. ASSUME NEW t \in Turns, NEW o \in Outcomes, StreamSettles(t, o)
       PROVE  ParkedIsWoken' /\ BusyMeansReplaying'
  BY <1>16 DEF StreamSettles, MaySettle, Runs
<1>17. ASSUME NEW t \in Turns, NEW o \in Outcomes, WakeEnds(t, o)
       PROVE  ParkedIsWoken' /\ BusyMeansReplaying'
  BY <1>17 DEF WakeEnds, unregister, Left, MaySettle, Runs
<1>18. ASSUME StreamRejected
       PROVE  ParkedIsWoken' /\ BusyMeansReplaying'
  BY <1>18 DEF StreamRejected, claim, isRunning
<1>19. ASSUME cancel
       PROVE  ParkedIsWoken' /\ BusyMeansReplaying'
  BY <1>19 DEF cancel, Aborts
<1>20. ASSUME Review
       PROVE  ParkedIsWoken' /\ BusyMeansReplaying'
  BY <1>20 DEF Review
<1>21. ASSUME Shutdown
       PROVE  ParkedIsWoken' /\ BusyMeansReplaying'
  BY <1>21 DEF Shutdown, Aborts
<1>22. ASSUME Drained \/ Crash
       PROVE  ParkedIsWoken' /\ BusyMeansReplaying'
  BY <1>22 DEF Drained, Crash, Dead
<1>23. ASSUME Boot
       PROVE  ParkedIsWoken' /\ BusyMeansReplaying'
  BY <1>23 DEF Boot
<1>24. ASSUME UNCHANGED vars
       PROVE  ParkedIsWoken' /\ BusyMeansReplaying'
  BY <1>24 DEF vars
<1> QED
  BY <1>1, <1>2, <1>3, <1>4, <1>5, <1>6, <1>7, <1>8, <1>9, <1>10, <1>11,
     <1>12, <1>13, <1>14, <1>15, <1>16, <1>17, <1>18, <1>19, <1>20, <1>21,
     <1>22, <1>23, <1>24
     DEF Next, Stream, Post, Wake

(* The session in the map runs, a turn that is alone has no company, and   *)
(* only a turn that runs asks.                                             *)
LEMMA SessionStep ==
  ASSUME WakeInv, SessionLive, AloneMeans, AskingPast, [Next]_vars
  PROVE  SessionLive' /\ AloneMeans' /\ AskingPast'
<1> USE TurnsAssumption, ApprovalAssumption DEF TypeOK, Turns, Steps,
        Outcomes, WakeInv, DownIsEmpty, PcKinds, SessionLive, AloneMeans,
        AskingPast, InProgress, rows, scheduler, memory
<1>1. ASSUME NEW t \in Turns, StreamSend(t)
       PROVE  SessionLive' /\ AloneMeans' /\ AskingPast'
  BY <1>1 DEF StreamSend, claim, Begins
<1>2. ASSUME NEW t \in Turns, StreamRegisters(t)
       PROVE  SessionLive' /\ AloneMeans' /\ AskingPast'
  BY <1>2 DEF StreamRegisters, register
<1>3. ASSUME NEW t \in Turns, StreamParks(t)
       PROVE  SessionLive' /\ AloneMeans' /\ AskingPast'
  BY <1>3 DEF StreamParks, parkChatForRateLimit
<1>4. ASSUME NEW t \in Turns, StreamSaves(t)
       PROVE  SessionLive' /\ AloneMeans' /\ AskingPast'
  BY <1>4 DEF StreamSaves, markPendingApprovalIfRequired
<1>5. ASSUME NEW t \in Turns, StreamEnds(t)
       PROVE  SessionLive' /\ AloneMeans' /\ AskingPast'
  BY <1>5 DEF StreamEnds, unregister, Left
<1>6. ASSUME NEW t \in Turns, PostSend(t)
       PROVE  SessionLive' /\ AloneMeans' /\ AskingPast'
  BY <1>6 DEF PostSend, register, Begins
<1>7. ASSUME NEW t \in Turns, PostEnds(t)
       PROVE  SessionLive' /\ AloneMeans' /\ AskingPast'
  BY <1>7 DEF PostEnds, markPendingApprovalIfRequired, unregister, Left,
       MaySettle, Runs
<1>8. ASSUME NEW t \in Turns, PostParks(t)
       PROVE  SessionLive' /\ AloneMeans' /\ AskingPast'
  BY <1>8 DEF PostParks, parkChatForRateLimit, unregister, Left, MaySettle,
       Runs
<1>9. ASSUME NEW t \in Turns, Asks(t)
       PROVE  SessionLive' /\ AloneMeans' /\ AskingPast'
  BY <1>9 DEF Asks, Runs
<1>10. ASSUME NEW t \in Turns, answerQuestion(t)
       PROVE  SessionLive' /\ AloneMeans' /\ AskingPast'
  BY <1>10 DEF answerQuestion
<1>11. ASSUME NEW t \in Turns, TimerFires(t)
       PROVE  SessionLive' /\ AloneMeans' /\ AskingPast'
  BY <1>11 DEF TimerFires
<1>12. ASSUME NEW t \in Turns, WakeReturns(t)
       PROVE  SessionLive' /\ AloneMeans' /\ AskingPast'
  BY <1>12 DEF WakeReturns
<1>13. ASSUME NEW t \in Turns, WakeReplays(t)
       PROVE  SessionLive' /\ AloneMeans' /\ AskingPast'
  BY <1>13 DEF WakeReplays, Begins
<1>14. ASSUME NEW t \in Turns, WakeRegisters(t)
       PROVE  SessionLive' /\ AloneMeans' /\ AskingPast'
  BY <1>14 DEF WakeRegisters, register
<1>15. ASSUME NEW t \in Turns, WakeParks(t)
       PROVE  SessionLive' /\ AloneMeans' /\ AskingPast'
  BY <1>15 DEF WakeParks, parkChatForRateLimit, unregister, Left, MaySettle,
       Runs
<1>16. ASSUME NEW t \in Turns, NEW o \in Outcomes, StreamSettles(t, o)
       PROVE  SessionLive' /\ AloneMeans' /\ AskingPast'
  BY <1>16 DEF StreamSettles, MaySettle, Runs
<1>17. ASSUME NEW t \in Turns, NEW o \in Outcomes, WakeEnds(t, o)
       PROVE  SessionLive' /\ AloneMeans' /\ AskingPast'
  BY <1>17 DEF WakeEnds, unregister, Left, MaySettle, Runs
<1>18. ASSUME StreamRejected
       PROVE  SessionLive' /\ AloneMeans' /\ AskingPast'
  BY <1>18 DEF StreamRejected, claim, isRunning
<1>19. ASSUME cancel
       PROVE  SessionLive' /\ AloneMeans' /\ AskingPast'
  BY <1>19 DEF cancel, Aborts
<1>20. ASSUME Review
       PROVE  SessionLive' /\ AloneMeans' /\ AskingPast'
  BY <1>20 DEF Review
<1>21. ASSUME Shutdown
       PROVE  SessionLive' /\ AloneMeans' /\ AskingPast'
  BY <1>21 DEF Shutdown, Aborts
<1>22. ASSUME Drained \/ Crash
       PROVE  SessionLive' /\ AloneMeans' /\ AskingPast'
  BY <1>22 DEF Drained, Crash, Dead
<1>23. ASSUME Boot
       PROVE  SessionLive' /\ AloneMeans' /\ AskingPast'
  BY <1>23 DEF Boot
<1>24. ASSUME UNCHANGED vars
       PROVE  SessionLive' /\ AloneMeans' /\ AskingPast'
  BY <1>24 DEF vars
<1> QED
  BY <1>1, <1>2, <1>3, <1>4, <1>5, <1>6, <1>7, <1>8, <1>9, <1>10, <1>11,
     <1>12, <1>13, <1>14, <1>15, <1>16, <1>17, <1>18, <1>19, <1>20, <1>21,
     <1>22, <1>23, <1>24
     DEF Next, Stream, Post, Wake

(* A turn that nothing overlaps stays in sight of Stop and of the drain,   *)
(* and its question can be answered.                                       *)
LEMMA SeenStep ==
  ASSUME WakeInv, SessionInv, [Next]_vars
  PROVE  TurnsAreSeen' /\ AskingIsAnswerable'
<1> USE TurnsAssumption, ApprovalAssumption DEF TypeOK, Turns, Steps,
        Outcomes, WakeInv, DownIsEmpty, PcKinds, SessionInv, SessionLive,
        AloneMeans, AskingPast, TurnsAreSeen, AskingIsAnswerable, InProgress,
        rows, scheduler, memory
<1>1. ASSUME NEW t \in Turns, StreamSend(t)
       PROVE  TurnsAreSeen' /\ AskingIsAnswerable'
  BY <1>1 DEF StreamSend, claim, Begins
<1>2. ASSUME NEW t \in Turns, StreamRegisters(t)
       PROVE  TurnsAreSeen' /\ AskingIsAnswerable'
  BY <1>2 DEF StreamRegisters, register
<1>3. ASSUME NEW t \in Turns, StreamParks(t)
       PROVE  TurnsAreSeen' /\ AskingIsAnswerable'
  BY <1>3 DEF StreamParks, parkChatForRateLimit
<1>4. ASSUME NEW t \in Turns, StreamSaves(t)
       PROVE  TurnsAreSeen' /\ AskingIsAnswerable'
  BY <1>4 DEF StreamSaves, markPendingApprovalIfRequired
<1>5. ASSUME NEW t \in Turns, StreamEnds(t)
       PROVE  TurnsAreSeen' /\ AskingIsAnswerable'
  BY <1>5 DEF StreamEnds, unregister, Left
<1>6. ASSUME NEW t \in Turns, PostSend(t)
       PROVE  TurnsAreSeen' /\ AskingIsAnswerable'
  BY <1>6 DEF PostSend, register, Begins
<1>7. ASSUME NEW t \in Turns, PostEnds(t)
       PROVE  TurnsAreSeen' /\ AskingIsAnswerable'
  BY <1>7 DEF PostEnds, markPendingApprovalIfRequired, unregister, Left,
       MaySettle, Runs
<1>8. ASSUME NEW t \in Turns, PostParks(t)
       PROVE  TurnsAreSeen' /\ AskingIsAnswerable'
  BY <1>8 DEF PostParks, parkChatForRateLimit, unregister, Left, MaySettle,
       Runs
<1>9. ASSUME NEW t \in Turns, Asks(t)
       PROVE  TurnsAreSeen' /\ AskingIsAnswerable'
  BY <1>9 DEF Asks, Runs
<1>10. ASSUME NEW t \in Turns, answerQuestion(t)
       PROVE  TurnsAreSeen' /\ AskingIsAnswerable'
  BY <1>10 DEF answerQuestion
<1>11. ASSUME NEW t \in Turns, TimerFires(t)
       PROVE  TurnsAreSeen' /\ AskingIsAnswerable'
  BY <1>11 DEF TimerFires
<1>12. ASSUME NEW t \in Turns, WakeReturns(t)
       PROVE  TurnsAreSeen' /\ AskingIsAnswerable'
  BY <1>12 DEF WakeReturns
<1>13. ASSUME NEW t \in Turns, WakeReplays(t)
       PROVE  TurnsAreSeen' /\ AskingIsAnswerable'
  BY <1>13 DEF WakeReplays, Begins
<1>14. ASSUME NEW t \in Turns, WakeRegisters(t)
       PROVE  TurnsAreSeen' /\ AskingIsAnswerable'
  BY <1>14 DEF WakeRegisters, register
<1>15. ASSUME NEW t \in Turns, WakeParks(t)
       PROVE  TurnsAreSeen' /\ AskingIsAnswerable'
  BY <1>15 DEF WakeParks, parkChatForRateLimit, unregister, Left, MaySettle,
       Runs
<1>16. ASSUME NEW t \in Turns, NEW o \in Outcomes, StreamSettles(t, o)
       PROVE  TurnsAreSeen' /\ AskingIsAnswerable'
  BY <1>16 DEF StreamSettles, MaySettle, Runs
<1>17. ASSUME NEW t \in Turns, NEW o \in Outcomes, WakeEnds(t, o)
       PROVE  TurnsAreSeen' /\ AskingIsAnswerable'
  BY <1>17 DEF WakeEnds, unregister, Left, MaySettle, Runs
<1>18. ASSUME StreamRejected
       PROVE  TurnsAreSeen' /\ AskingIsAnswerable'
  BY <1>18 DEF StreamRejected, claim, isRunning
<1>19. ASSUME cancel
       PROVE  TurnsAreSeen' /\ AskingIsAnswerable'
  BY <1>19 DEF cancel, Aborts
<1>20. ASSUME Review
       PROVE  TurnsAreSeen' /\ AskingIsAnswerable'
  BY <1>20 DEF Review
<1>21. ASSUME Shutdown
       PROVE  TurnsAreSeen' /\ AskingIsAnswerable'
  BY <1>21 DEF Shutdown, Aborts
<1>22. ASSUME Drained \/ Crash
       PROVE  TurnsAreSeen' /\ AskingIsAnswerable'
  BY <1>22 DEF Drained, Crash, Dead
<1>23. ASSUME Boot
       PROVE  TurnsAreSeen' /\ AskingIsAnswerable'
  BY <1>23 DEF Boot
<1>24. ASSUME UNCHANGED vars
       PROVE  TurnsAreSeen' /\ AskingIsAnswerable'
  BY <1>24 DEF vars
<1> QED
  BY <1>1, <1>2, <1>3, <1>4, <1>5, <1>6, <1>7, <1>8, <1>9, <1>10, <1>11,
     <1>12, <1>13, <1>14, <1>15, <1>16, <1>17, <1>18, <1>19, <1>20, <1>21,
     <1>22, <1>23, <1>24
     DEF Next, Stream, Post, Wake

(* Every action of the chat is a step of ChatLife or changes nothing that  *)
(* ChatLife sees: a park, a replay, its end, a wake-up given up, Stop, and *)
(* the daemon's shutdown, death and boot.                                  *)
LEMMA LifeStep ==
  ASSUME WakeInv, WakeInv', [Next]_vars
  PROVE  [Life!Next]_(Life!vars)
<1> USE TurnsAssumption, ApprovalAssumption DEF TypeOK, Turns, Steps,
        Outcomes, WakeInv, WakesSingle, InflightExact, DownIsEmpty, PcKinds,
        InProgress, Life!Next, Life!vars, rows, scheduler, memory
<1>1. ASSUME NEW t \in Turns, StreamSend(t)
       PROVE  [Life!Next]_(Life!vars)
  BY <1>1 DEF StreamSend, claim, Begins
<1>2. ASSUME NEW t \in Turns, StreamRegisters(t)
       PROVE  [Life!Next]_(Life!vars)
  BY <1>2 DEF StreamRegisters, register
<1>3. ASSUME NEW t \in Turns, StreamParks(t)
       PROVE  [Life!Next]_(Life!vars)
  BY <1>3 DEF StreamParks, parkChatForRateLimit, Life!Park
<1>4. ASSUME NEW t \in Turns, StreamSaves(t)
       PROVE  [Life!Next]_(Life!vars)
  BY <1>4 DEF StreamSaves, markPendingApprovalIfRequired
<1>5. ASSUME NEW t \in Turns, StreamEnds(t)
       PROVE  [Life!Next]_(Life!vars)
  BY <1>5 DEF StreamEnds, unregister, Left
<1>6. ASSUME NEW t \in Turns, PostSend(t)
       PROVE  [Life!Next]_(Life!vars)
  BY <1>6 DEF PostSend, register, Begins
<1>7. ASSUME NEW t \in Turns, PostEnds(t)
       PROVE  [Life!Next]_(Life!vars)
  BY <1>7 DEF PostEnds, markPendingApprovalIfRequired, unregister, Left,
       MaySettle, Runs
<1>8. ASSUME NEW t \in Turns, PostParks(t)
       PROVE  [Life!Next]_(Life!vars)
  BY <1>8 DEF PostParks, parkChatForRateLimit, unregister, Left, MaySettle,
       Runs, Life!Park
<1>9. ASSUME NEW t \in Turns, Asks(t)
       PROVE  [Life!Next]_(Life!vars)
  BY <1>9 DEF Asks, Runs
<1>10. ASSUME NEW t \in Turns, answerQuestion(t)
       PROVE  [Life!Next]_(Life!vars)
  BY <1>10 DEF answerQuestion
<1>11. ASSUME NEW t \in Turns, TimerFires(t)
       PROVE  [Life!Next]_(Life!vars)
  BY <1>11 DEF TimerFires, Life!GiveUp
<1>12. ASSUME NEW t \in Turns, WakeReturns(t)
       PROVE  [Life!Next]_(Life!vars)
  BY <1>12 DEF WakeReturns, Life!GiveUp
<1>13. ASSUME NEW t \in Turns, WakeReplays(t)
       PROVE  [Life!Next]_(Life!vars)
  BY <1>13 DEF WakeReplays, Begins, Life!Replay
<1>14. ASSUME NEW t \in Turns, WakeRegisters(t)
       PROVE  [Life!Next]_(Life!vars)
  BY <1>14 DEF WakeRegisters, register
<1>15. ASSUME NEW t \in Turns, WakeParks(t)
       PROVE  [Life!Next]_(Life!vars)
  BY <1>15 DEF WakeParks, parkChatForRateLimit, unregister, Left, MaySettle,
       Runs, Life!Park
<1>16. ASSUME NEW t \in Turns, NEW o \in Outcomes, StreamSettles(t, o)
       PROVE  [Life!Next]_(Life!vars)
  BY <1>16 DEF StreamSettles, MaySettle, Runs
<1>17. ASSUME NEW t \in Turns, NEW o \in Outcomes, WakeEnds(t, o)
       PROVE  [Life!Next]_(Life!vars)
  BY <1>17 DEF WakeEnds, unregister, Left, MaySettle, Runs, Life!ReplayEnds
<1>18. ASSUME StreamRejected
       PROVE  [Life!Next]_(Life!vars)
  BY <1>18 DEF StreamRejected, claim, isRunning
<1>19. ASSUME cancel
       PROVE  [Life!Next]_(Life!vars)
  BY <1>19 DEF cancel, Aborts, Life!GiveUp, Life!Stop
<1>20. ASSUME Review
       PROVE  [Life!Next]_(Life!vars)
  BY <1>20 DEF Review
<1>21. ASSUME Shutdown
       PROVE  [Life!Next]_(Life!vars)
  BY <1>21 DEF Shutdown, Aborts, Life!Shutdown, Life!GiveUp
<1>22. ASSUME Drained \/ Crash
       PROVE  [Life!Next]_(Life!vars)
  BY <1>22 DEF Drained, Crash, Dead, Life!Dies
<1>23. ASSUME Boot
       PROVE  [Life!Next]_(Life!vars)
  BY <1>23 DEF Boot, Life!Boot
<1>24. ASSUME UNCHANGED vars
       PROVE  [Life!Next]_(Life!vars)
  BY <1>24 DEF vars
<1> QED
  BY <1>1, <1>2, <1>3, <1>4, <1>5, <1>6, <1>7, <1>8, <1>9, <1>10, <1>11,
     <1>12, <1>13, <1>14, <1>15, <1>16, <1>17, <1>18, <1>19, <1>20, <1>21,
     <1>22, <1>23, <1>24
     DEF Next, Stream, Post, Wake

-----------------------------------------------------------------------------
(* The invariant holds in a fresh daemon, and every step keeps it.         *)
LEMMA IInvInit == Init => IInv
  BY TurnsAssumption, ApprovalAssumption
  DEF Init, IInv, WakeInv, TypeOK, Turns, Statuses, Steps, Outcomes, PcKinds, WakesSingle,
      InflightExact, DownIsEmpty, ParkedIsWoken, BusyMeansReplaying, SessionInv,
      SessionLive, AloneMeans, TurnsAreSeen, AskingPast, AskingIsAnswerable, InProgress

LEMMA IInvStep == IInv /\ [Next]_vars => IInv'
<1> SUFFICES ASSUME IInv, [Next]_vars
             PROVE  IInv'
  OBVIOUS
<1>1. TypeOK'
  BY TypeStep DEF IInv, WakeInv
<1>2. PcKinds' /\ DownIsEmpty'
  BY KindStep DEF IInv, WakeInv
<1>3. WakesSingle' /\ InflightExact'
  BY WakeStep DEF IInv
<1>4. ParkedIsWoken' /\ BusyMeansReplaying'
  BY ParkedStep DEF IInv
<1>5. SessionLive' /\ AloneMeans' /\ AskingPast'
  BY SessionStep DEF IInv, SessionInv
<1>6. TurnsAreSeen' /\ AskingIsAnswerable'
  BY SeenStep DEF IInv
<1> QED
  BY <1>1, <1>2, <1>3, <1>4, <1>5, <1>6 DEF IInv, WakeInv, SessionInv

(* IInv is inductive, so every reachable state satisfies it: the turns,    *)
(* the wake-ups and the sessions of a chat fit together.                   *)
THEOREM Invariant == Spec => []IInv
  BY IInvInit, IInvStep, PTL DEF Spec

(* The chat row, its timers, sessions, questions and turns keep their      *)
(* types (TypeOK), whatever overlaps, parks or dies.                       *)
THEOREM TypeCorrect == Spec => []TypeOK
<1>1. IInv => TypeOK
  BY DEF IInv, WakeInv
<1> QED
  BY Invariant, <1>1, PTL

(* A parked chat is woken (ParkedIsWoken): however the timers of the rate- *)
(* limit scheduler, the replays and the boots follow each other, nothing   *)
(* but Stop leaves it without a wake-up.                                   *)
THEOREM NoChatStaysParked == Spec => []ParkedIsWoken
<1>1. IInv => ParkedIsWoken
  BY DEF IInv
<1> QED
  BY Invariant, <1>1, PTL

(* A chat row says running only while a replay runs (BusyMeansReplaying),  *)
(* also after a crash in the middle of one and the sweep of the next boot. *)
THEOREM NoChatStaysBusy == Spec => []BusyMeansReplaying
<1>1. IInv => BusyMeansReplaying
  BY DEF IInv
<1> QED
  BY Invariant, <1>1, PTL

(* resumeChatAfterRateLimit replays a chat once at a time (OneReplay): the *)
(* key in inflightWakeups outlives the wake-up's last await.               *)
THEOREM ReplaysDoNotOverlap == Spec => []OneReplay
<1>1. IInv => OneReplay
  BY DEF IInv, WakeInv, WakesSingle, OneReplay, InProgress
<1> QED
  BY Invariant, <1>1, PTL

(* Stop, isRunning() and the drain see every turn that nothing overlaps    *)
(* (TurnsAreSeen): by its claim first, and by its session from register()  *)
(* on.                                                                     *)
THEOREM LoneTurnsAreSeen == Spec => []TurnsAreSeen
<1>1. IInv => TurnsAreSeen
  BY DEF IInv, SessionInv
<1> QED
  BY Invariant, <1>1, PTL

(* A lone turn that awaits an answer has its question pending and its      *)
(* session in the map (AskingIsAnswerable), so POST answer reaches it.     *)
THEOREM LoneQuestionsAreAnswerable == Spec => []AskingIsAnswerable
<1>1. IInv => AskingIsAnswerable
  BY DEF IInv, SessionInv
<1> QED
  BY Invariant, <1>1, PTL

(* The turns of a chat implement ChatLife (ImplementsChatLife): what the   *)
(* daemon promises of a parked chat holds of the code with all its         *)
(* overlaps.                                                               *)
THEOREM Refinement == Spec => ImplementsChatLife
<1>1. Init => Life!Init
  BY DEF Init, Life!Init, InProgress, Turns
<1>2. IInv /\ IInv' /\ [Next]_vars => [Life!Next]_(Life!vars)
  BY LifeStep DEF IInv
<1> QED
  BY <1>1, <1>2, Invariant, PTL DEF Spec, ImplementsChatLife, Life!Spec

=============================================================================
