-------------------------- MODULE SshTunnelsProofs --------------------------
(***************************************************************************)
(* Proofs about SshTunnels: no reconnect timer outlives stop(), the tunnel *)
(* called ready has a running ssh, stop() reaps its child, and a tunnel    *)
(* started by a route runs with the saved configuration, for every number  *)
(* of starts, stops and configurations.                                    *)
(***************************************************************************)
EXTENDS SshTunnels, TLAPS

(* The start has its handle: it has spawned a child.                       *)
Spawned(k) == call[k].st \notin {"idle", "port", "threw"}

(* A start that has spawned works for an entry, which stays in the map     *)
(* until stop() is called for it.                                          *)
CallsInv ==
  \A k \in Calls :
    /\ Spawned(k) => /\ call[k].ent \in Calls /\ child[k] # "none"
                     /\ canonical = call[k].ent \/ entry[call[k].ent].down
    /\ ~Spawned(k) => entry[k].cur = 0 /\ entry[k].stop = "no"

(* The entry in the map is not stopped; any entry shows a start of its own *)
EntriesInv ==
  /\ canonical # 0 => entry[canonical].cur # 0 /\ ~entry[canonical].down
  /\ \A e \in Calls : entry[e].cur # 0 =>
       Spawned(entry[e].cur) /\ call[entry[e].cur].ent = e

(* How far stop() has got, and what the child has got by then.             *)
StopInv ==
  \A e \in Calls :
    /\ entry[e].down <=> entry[e].stop # "no"
    /\ entry[e].down => entry[e].cur # 0
    /\ entry[e].stop \in {"kill", "done"} => child[entry[e].cur] \in {"dead", "kill"}

IInv ==
  /\ TypeOK /\ CallsInv /\ EntriesInv /\ StopInv
  /\ TimersAreWanted /\ ReadyIsUp

-----------------------------------------------------------------------------
(* Whatever a helper does with the timer, the rest of an entry is kept.     *)
SameButTimer(d, e) ==
  /\ d.cur = e.cur /\ d.conf = e.conf /\ d.down = e.down
  /\ d.stop = e.stop /\ d.then = e.then /\ d.next = e.next

(* scheduleReconnect sets the timer of one entry, unless it is stopped.    *)
LEMMA ScheduleFacts ==
  ASSUME NEW ents \in [Calls -> EntryRecs], NEW own \in 0..MaxCalls
  PROVE  /\ Schedule(ents, own) \in [Calls -> EntryRecs]
         /\ \A e \in Calls :
              /\ SameButTimer(Schedule(ents, own)[e], ents[e])
              /\ Schedule(ents, own)[e].timer =>
                   ents[e].timer \/ (e = own /\ ~ents[e].down)
<1> DEFINE set == [ents EXCEPT ![own].timer = TRUE]
<1>1. Schedule(ents, own) = IF ents[own].down THEN ents ELSE set
  BY DEF Schedule
<1>2. set \in [Calls -> EntryRecs]
  BY DEF EntryRecs
<1>3. ASSUME NEW e \in Calls
      PROVE  /\ SameButTimer(set[e], ents[e])
             /\ set[e].timer => ents[e].timer \/ e = own
  BY DEF EntryRecs, SameButTimer
<1>4. \A e \in Calls : SameButTimer(ents[e], ents[e])
  BY DEF SameButTimer
<1> HIDE DEF set
<1> QED
  BY <1>1, <1>2, <1>3, <1>4

(* So does the wiring at the end of the ready-gate, for the call's entry.  *)
LEMMA WiredFacts ==
  ASSUME NEW ents \in [Calls -> EntryRecs], NEW k \in Calls, NEW st,
         call[k].ent \in 0..MaxCalls
  PROVE  /\ Wired(ents, k, st) \in [Calls -> EntryRecs]
         /\ \A e \in Calls :
              /\ SameButTimer(Wired(ents, k, st)[e], ents[e])
              /\ Wired(ents, k, st)[e].timer =>
                   ents[e].timer \/ (e = call[k].ent /\ ~ents[e].down)
<1>1. \A e \in Calls : SameButTimer(ents[e], ents[e])
  BY DEF SameButTimer
<1> QED
  BY <1>1, ScheduleFacts DEF Wired

(* An exit ends the stop that awaits it, and does nothing else to entries. *)
LEMMA ReapedFacts ==
  ASSUME NEW ents \in [Calls -> EntryRecs], NEW k \in Calls
  PROVE  /\ Reaped(ents, k) \in [Calls -> EntryRecs]
         /\ \A e \in Calls :
              /\ Reaped(ents, k)[e].cur = ents[e].cur
              /\ Reaped(ents, k)[e].down = ents[e].down
              /\ Reaped(ents, k)[e].timer = ents[e].timer
              /\ Reaped(ents, k)[e].stop =
                   IF ents[e].cur = k /\ ents[e].stop \in {"term", "kill"}
                   THEN "done" ELSE ents[e].stop
  BY DEF Reaped, EntryRecs

(* A new status of one call.                                               *)
LEMMA StatusFacts ==
  ASSUME call \in [Calls -> CallRecs], NEW k \in Calls, NEW st \in Statuses
  PROVE  LET new == [call EXCEPT ![k].st = st]
         IN /\ new \in [Calls -> CallRecs]
            /\ new[k].st = st
            /\ \A j \in Calls : new[j].ent = call[j].ent
            /\ \A j \in Calls : j # k => new[j].st = call[j].st
  BY DEF CallRecs

(* A call that has not begun joins the queue for a port.                   *)
LEMMA CalledFacts ==
  ASSUME call \in [Calls -> CallRecs], NEW k \in Calls, NEW by \in Callers,
         NEW e \in 0..MaxCalls, NEW c \in 0..MaxConf
  PROVE  LET new == [call EXCEPT ![k] = Called(k, by, e, c)]
         IN /\ new \in [Calls -> CallRecs]
            /\ new[k].st = "port"
            /\ \A j \in Calls : j # k => new[j] = call[j]
  BY DEF CallRecs, Called, Statuses

(* The reconnect timer of one entry is cleared.                            *)
LEMMA ClearedFacts ==
  ASSUME NEW ents \in [Calls -> EntryRecs], NEW own \in Calls
  PROVE  LET new == [ents EXCEPT ![own].timer = FALSE]
         IN /\ new \in [Calls -> EntryRecs]
            /\ \A e \in Calls : /\ SameButTimer(new[e], ents[e])
                                /\ new[e].timer => ents[e].timer /\ e # own
  BY DEF EntryRecs, SameButTimer

(* The request that awaited stop() goes on.                                *)
LEMMA ThenFacts ==
  ASSUME NEW ents \in [Calls -> EntryRecs], NEW own \in Calls
  PROVE  LET new == [ents EXCEPT ![own].then = "none"]
         IN /\ new \in [Calls -> EntryRecs]
            /\ \A e \in Calls : /\ new[e].cur = ents[e].cur /\ new[e].down = ents[e].down
                                /\ new[e].stop = ents[e].stop
                                /\ new[e].timer = ents[e].timer
  BY DEF EntryRecs

-----------------------------------------------------------------------------
(* A step that spawns nothing, stops nothing and ends no child: it may     *)
(* clear timers, or set that of the entry in the map, signal a child and   *)
(* change what a start answers.                                            *)
Quiet ==
  /\ canonical' = canonical
  /\ \A e \in Calls :
       /\ entry'[e].cur = entry[e].cur /\ entry'[e].down = entry[e].down
       /\ entry'[e].stop = entry[e].stop
       /\ entry'[e].timer => entry[e].timer \/ (canonical = e /\ ~entry[e].down)
  /\ \A k \in Calls :
       /\ Spawned(k)' <=> Spawned(k)
       /\ Spawned(k) => call'[k].ent = call[k].ent
       /\ call'[k].st = "ready" => call[k].st = "ready" \/ Alive(k)
       /\ child'[k] = child[k] \/ (child[k] = "live" /\ child'[k] = "term")

(* Such a step keeps the invariant.                                        *)
LEMMA QuietKeeps ==
  ASSUME IInv, TypeOK', Quiet
  PROVE  IInv'
<1>1. CallsInv'
  BY DEF IInv, Quiet, CallsInv, TypeOK, CallRecs, EntryRecs
<1>2. EntriesInv'
  <2>1. canonical # 0 => canonical \in Calls
    BY DEF IInv, TypeOK, Calls
  <2>2. \A e \in Calls : entry[e].cur # 0 => entry[e].cur \in Calls
    BY DEF IInv, TypeOK, EntryRecs, Calls
  <2> QED
    BY <2>1, <2>2 DEF IInv, Quiet, EntriesInv
<1>3. StopInv'
  <2>1. \A e \in Calls : entry[e].cur # 0 => entry[e].cur \in Calls
    BY DEF IInv, TypeOK, EntryRecs, Calls
  <2> QED
    BY <2>1 DEF IInv, Quiet, StopInv
<1>4. TimersAreWanted'
  BY DEF IInv, Quiet, TimersAreWanted
<1>5. ReadyIsUp'
  <2>1. canonical # 0 => canonical \in Calls /\ entry[canonical].cur \in Calls
    BY DEF IInv, TypeOK, EntryRecs, Calls, EntriesInv
  <2> QED
    BY <2>1 DEF IInv, Quiet, ReadyIsUp, Current, Alive
<1> QED
  BY <1>1, <1>2, <1>3, <1>4, <1>5 DEF IInv

(* What a start that has spawned works for.                                *)
LEMMA OwnEntry ==
  ASSUME IInv, NEW k \in Calls, Spawned(k)
  PROVE  /\ call[k].ent \in Calls
         /\ ~entry[call[k].ent].down => canonical = call[k].ent
  BY DEF IInv, CallsInv

-----------------------------------------------------------------------------
(* The quiet steps.                                                        *)

(* No port, or bad arguments: a timer's start is tried again.              *)
LEMMA SpawnFailsStep ==
  ASSUME IInv, NEW k \in Calls, SpawnFails(k)
  PROVE  IInv'
<1>0. TypeOK
  BY DEF IInv
<1> USE <1>0 DEF TypeOK
<1>1. call[k].st = "port" /\ call[k].ent \in 0..MaxCalls
  BY DEF SpawnFails, HasPort, CallRecs
<1>2. call' = [call EXCEPT ![k].st = "threw"] /\ UNCHANGED <<child, canonical>>
  BY DEF SpawnFails
<1>3. \/ entry' = entry
      \/ entry' = Schedule(entry, call[k].ent) /\ canonical = call[k].ent
  BY DEF SpawnFails
<1>4. TypeOK'
  <2>1. call' \in [Calls -> CallRecs]
    BY <1>2, StatusFacts DEF Statuses
  <2>2. entry' \in [Calls -> EntryRecs]
    BY <1>1, <1>3, ScheduleFacts
  <2>3. saved' \in 0..MaxConf
    BY ConfAssumption DEF SpawnFails, RolledBack
  <2> QED
    BY <1>2, <2>1, <2>2, <2>3
<1>5. Quiet
  <2>1. \A e \in Calls : SameButTimer(entry'[e], entry[e])
                         /\ (entry'[e].timer => entry[e].timer \/ (canonical = e /\ ~entry[e].down))
    BY <1>1, <1>3, ScheduleFacts DEF SameButTimer
  <2>2. \A j \in Calls : call'[j].ent = call[j].ent /\ (j # k => call'[j].st = call[j].st)
    BY <1>2, StatusFacts DEF Statuses
  <2>3. call'[k].st = "threw"
    BY <1>2, StatusFacts DEF Statuses
  <2> QED
    BY <1>1, <1>2, <2>1, <2>2, <2>3 DEF Quiet, SameButTimer, Spawned
<1> QED
  BY <1>4, <1>5, QuietKeeps

(* The ready-gate ends, with an answer or with a transient error.          *)
LEMMA SettleStep ==
  ASSUME IInv, NEW k \in Calls, NEW st \in {"ready", "transient"}, Settle(k, st),
         st = "ready" => Alive(k), UNCHANGED <<child, canonical>>
  PROVE  IInv'
<1>0. TypeOK
  BY DEF IInv
<1> USE <1>0 DEF TypeOK
<1>1. call[k].st = "starting" /\ call' = [call EXCEPT ![k].st = st]
  BY DEF Settle
<1>2. /\ Spawned(k) /\ st \in Statuses /\ call[k].ent \in 0..MaxCalls
      /\ ~entry[call[k].ent].down => canonical = call[k].ent
  BY <1>1, OwnEntry DEF Spawned, Statuses, Calls
<1>3. entry' = Wired(entry, k, st)
  BY DEF Settle
<1>4. TypeOK'
  <2>1. call' \in [Calls -> CallRecs]
    BY <1>1, <1>2, StatusFacts
  <2>2. entry' \in [Calls -> EntryRecs]
    BY <1>2, <1>3, WiredFacts
  <2>3. saved' \in 0..MaxConf
    BY ConfAssumption DEF Settle, RolledBack
  <2> QED
    BY <2>1, <2>2, <2>3
<1>5. Quiet
  <2>1. \A e \in Calls : SameButTimer(entry'[e], entry[e])
                         /\ (entry'[e].timer => entry[e].timer \/ (canonical = e /\ ~entry[e].down))
    BY <1>2, <1>3, WiredFacts DEF SameButTimer
  <2>2. \A j \in Calls : call'[j].ent = call[j].ent /\ (j # k => call'[j].st = call[j].st)
    BY <1>1, <1>2, StatusFacts
  <2>3. call'[k].st = st
    BY <1>1, <1>2, StatusFacts
  <2> QED
    BY <1>1, <2>1, <2>2, <2>3 DEF Quiet, SameButTimer, Spawned
<1> QED
  BY <1>4, <1>5, QuietKeeps

(* A route calls start() and changes no entry but for its request.         *)
LEMMA BeginStep ==
  ASSUME IInv, NEW k \in Calls, NEW by \in Callers, NEW c \in 0..MaxConf, Begin(k, by, c),
         saved' \in 0..MaxConf, UNCHANGED <<child, canonical>>,
         entry' = entry \/ \E e \in Calls : entry' = [entry EXCEPT ![e].then = "none"]
  PROVE  IInv'
<1>0. TypeOK
  BY DEF IInv
<1> USE <1>0 DEF TypeOK
<1>1. call[k].st = "idle" /\ call' = [call EXCEPT ![k] = Called(k, by, 0, c)]
  BY DEF Begin, IsNext
<1>2. /\ call' \in [Calls -> CallRecs] /\ call'[k].st = "port"
      /\ \A j \in Calls : j # k => call'[j] = call[j]
  BY <1>1, CalledFacts, CallsAssumption
<1>3. /\ entry' \in [Calls -> EntryRecs]
      /\ \A e \in Calls : /\ entry'[e].cur = entry[e].cur /\ entry'[e].down = entry[e].down
                          /\ entry'[e].stop = entry[e].stop
                          /\ entry'[e].timer = entry[e].timer
  <2>1. CASE entry' = entry
    BY <2>1
  <2>2. ASSUME NEW d \in Calls, entry' = [entry EXCEPT ![d].then = "none"]
        PROVE  /\ entry' \in [Calls -> EntryRecs]
               /\ \A e \in Calls : /\ entry'[e].cur = entry[e].cur
                                   /\ entry'[e].down = entry[e].down
                                   /\ entry'[e].stop = entry[e].stop
                                   /\ entry'[e].timer = entry[e].timer
    BY <2>2, ThenFacts
  <2> QED
    BY <2>1, <2>2
<1>4. TypeOK'
  BY <1>2, <1>3
<1>5. Quiet
  BY <1>1, <1>2, <1>3 DEF Quiet, Spawned
<1> QED
  BY <1>4, <1>5, QuietKeeps

(* A handler goes on without a start.                                      *)
LEMMA QuiescentStep ==
  ASSUME IInv, saved' \in 0..MaxConf, UNCHANGED <<call, child, canonical>>,
         entry' = entry \/ \E e \in Calls : entry' = [entry EXCEPT ![e].then = "none"]
  PROVE  IInv'
<1>0. TypeOK
  BY DEF IInv
<1> USE <1>0 DEF TypeOK
<1>1. /\ entry' \in [Calls -> EntryRecs]
      /\ \A e \in Calls : /\ entry'[e].cur = entry[e].cur /\ entry'[e].down = entry[e].down
                          /\ entry'[e].stop = entry[e].stop
                          /\ entry'[e].timer = entry[e].timer
  <2>1. CASE entry' = entry
    BY <2>1
  <2>2. ASSUME NEW d \in Calls, entry' = [entry EXCEPT ![d].then = "none"]
        PROVE  /\ entry' \in [Calls -> EntryRecs]
               /\ \A e \in Calls : /\ entry'[e].cur = entry[e].cur
                                   /\ entry'[e].down = entry[e].down
                                   /\ entry'[e].stop = entry[e].stop
                                   /\ entry'[e].timer = entry[e].timer
    BY <2>2, ThenFacts
  <2> QED
    BY <2>1, <2>2
<1>2. TypeOK'
  BY <1>1
<1>3. Quiet
  BY <1>1 DEF Quiet, Spawned
<1> QED
  BY <1>2, <1>3, QuietKeeps

(* The reconnect timer fires.                                              *)
LEMMA TimerFiresStep ==
  ASSUME IInv, NEW e \in Calls, NEW k \in Calls, TimerFires(e, k)
  PROVE  IInv'
<1>0. TypeOK
  BY DEF IInv
<1> USE <1>0 DEF TypeOK
<1>1. /\ call[k].st = "idle" /\ entry' = [entry EXCEPT ![e].timer = FALSE]
      /\ UNCHANGED <<saved, child, canonical>>
  BY DEF TimerFires, IsNext
<1>2. \/ call' = call
      \/ call' = [call EXCEPT ![k] = Called(k, "timer", e, entry[e].conf)]
  BY DEF TimerFires
<1>3. entry[e].conf \in 0..MaxConf /\ e \in 0..MaxCalls /\ "timer" \in Callers
  BY DEF EntryRecs, Calls, Callers
<1>4. /\ call' \in [Calls -> CallRecs] /\ call'[k].st \in {"idle", "port"}
      /\ \A j \in Calls : j # k => call'[j] = call[j]
  BY <1>1, <1>2, <1>3, CalledFacts
<1>5. /\ entry' \in [Calls -> EntryRecs]
      /\ \A d \in Calls : /\ SameButTimer(entry'[d], entry[d])
                          /\ entry'[d].timer => entry[d].timer
  BY <1>1, ClearedFacts
<1>6. TypeOK'
  BY <1>1, <1>4, <1>5
<1>7. Quiet
  BY <1>1, <1>4, <1>5 DEF Quiet, Spawned, SameButTimer
<1> QED
  BY <1>6, <1>7, QuietKeeps

(* A restart signals the child and begins the next start.                  *)
LEMMA RestartStep ==
  ASSUME IInv, NEW k \in Calls, Restart(k)
  PROVE  IInv'
<1>0. TypeOK
  BY DEF IInv
<1> USE <1>0 DEF TypeOK
<1> DEFINE e == canonical
           old == entry[e].cur
           cleared == [entry EXCEPT ![e].timer = FALSE]
           st == IF call[old].st = "starting" THEN "transient" ELSE call[old].st
           settled == [call EXCEPT ![old].st = st]
<1>1. e \in Calls /\ call[k].st = "idle" /\ UNCHANGED canonical
  BY DEF Restart, IsNext, Calls
<1>2. old \in Calls /\ Spawned(old) /\ call[old].ent = e /\ ~entry[e].down
  BY <1>1 DEF IInv, EntriesInv, EntryRecs, Calls
<1>3. old # k /\ st \in Statuses
  BY <1>1, <1>2 DEF Spawned, CallRecs, Statuses
<1>4. /\ settled \in [Calls -> CallRecs] /\ settled[old].st = st
      /\ \A j \in Calls : settled[j].ent = call[j].ent
      /\ \A j \in Calls : j # old => settled[j].st = call[j].st
  BY <1>2, <1>3, StatusFacts
<1>5. call' = [settled EXCEPT ![k] = Called(k, "restart", 0, entry[e].conf)]
  BY <1>1, <1>2, <1>3 DEF Restart
<1>6. /\ call' \in [Calls -> CallRecs] /\ call'[k].st = "port"
      /\ \A j \in Calls : j # k => call'[j] = settled[j]
  <2>1. Called(k, "restart", 0, entry[e].conf) \in CallRecs
    BY <1>1, CallsAssumption DEF Called, CallRecs, Statuses, Callers, EntryRecs
  <2>2. Called(k, "restart", 0, entry[e].conf).st = "port"
    BY DEF Called
  <2> HIDE DEF settled
  <2> QED
    BY <1>4, <1>5, <2>1, <2>2
<1>7. /\ cleared \in [Calls -> EntryRecs]
      /\ \A d \in Calls : /\ SameButTimer(cleared[d], entry[d])
                          /\ cleared[d].timer => entry[d].timer
  BY <1>1, ClearedFacts
<1>8. entry' = cleared \/ entry' = Wired(cleared, old, "transient")
  BY DEF Restart
<1>9. /\ entry' \in [Calls -> EntryRecs]
      /\ \A d \in Calls : /\ SameButTimer(entry'[d], entry[d])
                          /\ entry'[d].timer => entry[d].timer \/ d = e
  <2> HIDE DEF cleared
  <2>1. e \in 0..MaxCalls
    OBVIOUS
  <2>2. CASE entry' = cleared
    BY <1>7, <2>2
  <2>3. CASE entry' = Wired(cleared, old, "transient")
    BY <1>2, <1>7, <2>1, <2>3, WiredFacts DEF SameButTimer
  <2> QED
    BY <1>8, <2>2, <2>3
<1>10. /\ child' \in [Calls -> ChildStates]
       /\ \A j \in Calls : child'[j] = child[j] \/ (child[j] = "live" /\ child'[j] = "term")
  BY <1>2 DEF Restart, Signalled, ChildStates
<1>11. TypeOK'
  <2>1. saved' \in 0..MaxConf
    BY ConfAssumption DEF Restart, RolledBack
  <2> QED
    BY <1>1, <1>6, <1>9, <1>10, <2>1
<1>12. Quiet
  <2> HIDE DEF settled
  <2>1. \A j \in Calls : /\ Spawned(j)' <=> Spawned(j)
                         /\ Spawned(j) => call'[j].ent = call[j].ent
                         /\ call'[j].st = "ready" => call[j].st = "ready"
    BY <1>1, <1>2, <1>3, <1>4, <1>6 DEF Spawned
  <2>2. \A d \in Calls :
          /\ SameButTimer(entry'[d], entry[d])
          /\ entry'[d].timer => entry[d].timer \/ (canonical = d /\ ~entry[d].down)
    BY <1>2, <1>9
  <2> QED
    BY <1>1, <1>10, <2>1, <2>2 DEF Quiet, SameButTimer
<1> QED
  BY <1>11, <1>12, QuietKeeps

-----------------------------------------------------------------------------
(* The steps that are heard.                                               *)

(* ssh is spawned, and the entry of the server is taken over or made.      *)
LEMMA SpawnStep ==
  ASSUME IInv, NEW k \in Calls, Spawn(k)
  PROVE  IInv'
<1>0. TypeOK
  BY DEF IInv
<1> USE <1>0 DEF TypeOK
<1> DEFINE e == IF canonical # 0 THEN canonical ELSE k
           from == IF canonical # 0 THEN entry[e] ELSE NoEntry
           called == [call[k] EXCEPT !.st = "starting", !.ent = e, !.conf = 0]
           shown == [from EXCEPT !.cur = k, !.conf = call[k].conf, !.timer = FALSE]
<1>1. e \in Calls /\ k # 0 /\ ~Spawned(k)
  BY DEF Spawn, HasPort, Spawned, Calls
<1>2. from \in EntryRecs
  BY <1>1, ConfAssumption DEF NoEntry, EntryRecs, Calls
<1>3. /\ called \in CallRecs /\ called.st = "starting" /\ called.ent = e
  <2>1. call[k] \in CallRecs /\ e \in 0..MaxCalls /\ 0 \in 0..MaxConf
    BY <1>1, ConfAssumption DEF Calls
  <2> HIDE DEF e
  <2> QED
    BY <2>1 DEF CallRecs, Statuses
<1>4. /\ shown \in EntryRecs /\ shown.cur = k /\ ~shown.timer
      /\ shown.down = from.down /\ shown.stop = from.stop
  <2>1. k \in 0..MaxCalls /\ call[k].conf \in 0..MaxConf
    BY DEF CallRecs, Calls
  <2> HIDE DEF from
  <2> QED
    BY <1>2, <2>1 DEF EntryRecs
<1>5. ~from.down /\ from.stop = "no"
  BY <1>1 DEF IInv, EntriesInv, StopInv, NoEntry
<1>6. /\ call' = [call EXCEPT ![k] = called] /\ entry' = [entry EXCEPT ![e] = shown]
      /\ child' = [child EXCEPT ![k] = "live"]
      /\ canonical' = e /\ saved' = saved
  BY DEF Spawn
<1> HIDE DEF called, shown, from
<1>7. /\ call'[k] = called /\ \A j \in Calls : j # k => call'[j] = call[j]
      /\ entry'[e] = shown /\ \A d \in Calls : d # e => entry'[d] = entry[d]
      /\ child'[k] = "live" /\ \A j \in Calls : j # k => child'[j] = child[j]
  BY <1>1, <1>6
<1>8. TypeOK'
  BY <1>1, <1>3, <1>4, <1>6 DEF ChildStates, Calls
<1>9. CallsInv'
  <2>1. ASSUME NEW j \in Calls, Spawned(j)', j # k
        PROVE  /\ call'[j].ent \in Calls /\ child'[j] # "none"
               /\ canonical' = call'[j].ent \/ entry'[call'[j].ent].down
    <3>1. /\ Spawned(j) /\ call'[j].ent = call[j].ent /\ child'[j] # "none"
          /\ call[j].ent \in Calls
          /\ canonical = call[j].ent \/ entry[call[j].ent].down
      BY <1>7, <2>1 DEF Spawned, IInv, CallsInv
    <3>2. CASE canonical = call[j].ent
      BY <1>6, <3>1, <3>2 DEF Calls
    <3>3. CASE entry[call[j].ent].down
      <4>1. call[j].ent # e
        BY <1>1, <3>3 DEF IInv, EntriesInv, CallsInv, StopInv
      <4> QED
        BY <1>7, <3>1, <3>3, <4>1
    <3> QED
      BY <3>1, <3>2, <3>3
  <2>2. ASSUME NEW j \in Calls, ~Spawned(j)', j # k
        PROVE  entry'[j].cur = 0 /\ entry'[j].stop = "no"
    BY <1>1, <1>7, <2>2 DEF Spawned, IInv, CallsInv, EntriesInv
  <2>3. Spawned(k)' /\ call'[k].ent = e /\ child'[k] # "none" /\ canonical' = e
    BY <1>3, <1>6, <1>7 DEF Spawned
  <2> QED
    BY <1>1, <2>1, <2>2, <2>3 DEF CallsInv
<1>10. EntriesInv'
  <2>1. entry'[e].cur # 0 /\ ~entry'[e].down /\ Spawned(k)' /\ call'[k].ent = e
    BY <1>1, <1>3, <1>4, <1>5, <1>7 DEF Spawned
  <2>2. ASSUME NEW d \in Calls, d # e, entry'[d].cur # 0
        PROVE  Spawned(entry[d].cur)' /\ call'[entry'[d].cur].ent = d
    <3>1. entry'[d].cur = entry[d].cur /\ entry[d].cur \in Calls
      BY <1>7, <2>2 DEF EntryRecs, Calls
    <3>2. entry[d].cur # k /\ Spawned(entry[d].cur) /\ call[entry[d].cur].ent = d
      BY <1>1, <2>2, <3>1 DEF IInv, EntriesInv
    <3> QED
      BY <1>7, <3>1, <3>2 DEF Spawned
  <2> QED
    BY <1>4, <1>6, <1>7, <2>1, <2>2 DEF EntriesInv
<1>11. StopInv'
  <2>1. ASSUME NEW d \in Calls, d # e, entry[d].cur # 0
        PROVE  child'[entry[d].cur] = child[entry[d].cur]
    <3>1. entry[d].cur \in Calls /\ entry[d].cur # k
      BY <1>1, <2>1 DEF IInv, EntriesInv, EntryRecs, Calls
    <3> QED
      BY <1>7, <3>1
  <2>2. \A d \in Calls : entry[d].stop \in {"kill", "done"} => entry[d].cur # 0
    BY DEF IInv, StopInv
  <2>3. /\ entry'[e].stop = "no" /\ ~entry'[e].down
    BY <1>4, <1>5, <1>7
  <2> QED
    BY <1>7, <2>1, <2>2, <2>3 DEF StopInv, IInv
<1>12. TimersAreWanted'
  <2>1. \A d \in Calls : d # e => ~entry[d].timer
    BY <1>1 DEF IInv, TimersAreWanted, Calls
  <2> QED
    BY <1>4, <1>7, <2>1 DEF TimersAreWanted
<1>13. ReadyIsUp'
  BY <1>3, <1>4, <1>6, <1>7 DEF ReadyIsUp, Current
<1> QED
  BY <1>8, <1>9, <1>10, <1>11, <1>12, <1>13 DEF IInv

(* An ssh child ends.                                                      *)
LEMMA ChildExitsStep ==
  ASSUME IInv, NEW k \in Calls, NEW st \in {"transient", "terminal"}, ChildExits(k, st)
  PROVE  IInv'
<1>0. TypeOK
  BY DEF IInv
<1> USE <1>0 DEF TypeOK
<1> DEFINE seen == \/ call[k].st = "starting"
                   \/ call[k].st = "ready" /\ entry[call[k].ent].cur = k
           mid == IF seen THEN Wired(entry, k, st) ELSE entry
<1>1. /\ child' = [child EXCEPT ![k] = "dead"] /\ canonical' = canonical
      /\ call' = IF seen THEN [call EXCEPT ![k].st = st] ELSE call
      /\ entry' = Reaped(mid, k)
  BY DEF ChildExits
<1>2. /\ st \in Statuses /\ call[k].ent \in 0..MaxCalls
      /\ seen => Spawned(k) /\ (~entry[call[k].ent].down => canonical = call[k].ent)
  BY OwnEntry DEF Spawned, Statuses, CallRecs
<1>3. /\ call' \in [Calls -> CallRecs]
      /\ \A j \in Calls : call'[j].ent = call[j].ent /\ (Spawned(j)' <=> Spawned(j))
      /\ \A j \in Calls : j # k => call'[j].st = call[j].st
      /\ seen => call'[k].st = st
      /\ ~seen => call'[k].st = call[k].st
  <2>1. CASE seen
    <3>1. call' = [call EXCEPT ![k].st = st]
      BY <1>1, <2>1
    <3>2. /\ call' \in [Calls -> CallRecs] /\ call'[k].st = st
          /\ \A j \in Calls : call'[j].ent = call[j].ent
          /\ \A j \in Calls : j # k => call'[j].st = call[j].st
      BY <1>2, <3>1, StatusFacts
    <3> QED
      BY <1>2, <2>1, <3>2 DEF Spawned
  <2>2. CASE ~seen
    BY <1>1, <2>2 DEF Spawned
  <2> QED
    BY <2>1, <2>2
<1>4. /\ mid \in [Calls -> EntryRecs]
      /\ \A e \in Calls :
           /\ mid[e].cur = entry[e].cur /\ mid[e].down = entry[e].down
           /\ mid[e].stop = entry[e].stop
           /\ mid[e].timer => entry[e].timer \/ (canonical = e /\ ~entry[e].down)
  <2>1. CASE seen
    <3>1. mid = Wired(entry, k, st)
      BY <2>1
    <3> HIDE DEF mid
    <3> QED
      BY <1>2, <2>1, <3>1, WiredFacts DEF SameButTimer
  <2>2. CASE ~seen
    BY <2>2
  <2> QED
    BY <2>1, <2>2
<1> HIDE DEF mid
<1>5. /\ entry' \in [Calls -> EntryRecs]
      /\ \A e \in Calls :
           /\ entry'[e].cur = entry[e].cur /\ entry'[e].down = entry[e].down
           /\ entry'[e].timer => entry[e].timer \/ (canonical = e /\ ~entry[e].down)
           /\ entry'[e].stop = IF entry[e].cur = k /\ entry[e].stop \in {"term", "kill"}
                               THEN "done" ELSE entry[e].stop
  <2>1. /\ Reaped(mid, k) \in [Calls -> EntryRecs]
        /\ \A e \in Calls :
             /\ Reaped(mid, k)[e].cur = mid[e].cur
             /\ Reaped(mid, k)[e].down = mid[e].down
             /\ Reaped(mid, k)[e].timer = mid[e].timer
             /\ Reaped(mid, k)[e].stop =
                  IF mid[e].cur = k /\ mid[e].stop \in {"term", "kill"}
                  THEN "done" ELSE mid[e].stop
    BY <1>4, ReapedFacts
  <2> HIDE DEF seen
  <2> QED
    BY <1>1, <1>4, <2>1
<1>6. /\ child' \in [Calls -> ChildStates] /\ child'[k] = "dead"
      /\ \A j \in Calls : j # k => child'[j] = child[j]
  BY <1>1 DEF ChildStates
<1>7. TypeOK'
  <2>1. saved' \in 0..MaxConf
    BY ConfAssumption DEF ChildExits, RolledBack
  <2> QED
    BY <1>1, <1>3, <1>5, <1>6, <2>1
<1>8. CallsInv'
  <2>1. ASSUME NEW j \in Calls, Spawned(j)
        PROVE  /\ call'[j].ent \in Calls /\ child'[j] # "none"
               /\ canonical' = call'[j].ent \/ entry'[call'[j].ent].down
    BY <1>1, <1>3, <1>5, <1>6, <2>1 DEF IInv, CallsInv
  <2>2. ASSUME NEW j \in Calls, ~Spawned(j)
        PROVE  entry'[j].cur = 0 /\ entry'[j].stop = "no"
    BY <1>5, <2>2 DEF IInv, CallsInv
  <2> QED
    BY <1>3, <2>1, <2>2 DEF CallsInv
<1>9. EntriesInv'
  <2>1. \A e \in Calls : entry[e].cur # 0 => entry[e].cur \in Calls
    BY DEF EntryRecs, Calls
  <2>2. canonical # 0 => canonical \in Calls
    BY DEF Calls
  <2>3. \A e \in Calls : entry[e].cur # 0 =>
          Spawned(entry[e].cur)' /\ call'[entry'[e].cur].ent = e
    <3> SUFFICES ASSUME NEW e \in Calls, entry[e].cur # 0
                 PROVE  Spawned(entry[e].cur)' /\ call'[entry'[e].cur].ent = e
      OBVIOUS
    <3>1. entry'[e].cur = entry[e].cur
      BY <1>5
    <3>2. Spawned(entry[e].cur) /\ call[entry[e].cur].ent = e
      BY DEF IInv, EntriesInv
    <3> QED
      BY <1>3, <2>1, <3>1, <3>2 DEF Spawned
  <2> QED
    BY <1>1, <1>5, <2>2, <2>3 DEF IInv, EntriesInv
<1>10. StopInv'
  <2>1. \A e \in Calls : entry[e].cur # 0 => entry[e].cur \in Calls
    BY DEF EntryRecs, Calls
  <2>2. ASSUME NEW e \in Calls
        PROVE  /\ entry'[e].down <=> entry'[e].stop # "no"
               /\ entry'[e].down => entry'[e].cur # 0
    BY <1>5, <2>2 DEF IInv, StopInv
  <2>3. ASSUME NEW e \in Calls, entry'[e].stop \in {"kill", "done"}
        PROVE  child'[entry'[e].cur] \in {"dead", "kill"}
    <3>1. entry'[e].cur = entry[e].cur /\ entry[e].cur \in Calls
      BY <1>5, <2>1, <2>2, <2>3
    <3>2. entry[e].cur = k \/ entry[e].stop \in {"kill", "done"}
      BY <1>5, <2>3
    <3> QED
      BY <1>6, <3>1, <3>2 DEF IInv, StopInv
  <2> QED
    BY <2>2, <2>3 DEF StopInv
<1>11. TimersAreWanted'
  BY <1>1, <1>5 DEF IInv, TimersAreWanted
<1>12. ReadyIsUp'
  <2>1. canonical # 0 => /\ canonical \in Calls /\ entry[canonical].cur \in Calls
                         /\ entry'[canonical].cur = entry[canonical].cur
                         /\ call[entry[canonical].cur].ent = canonical
    BY <1>5 DEF IInv, EntriesInv, EntryRecs, Calls
  <2>2. canonical # 0 /\ entry[canonical].cur = k => call'[k].st # "ready"
    BY <1>3, <2>1
  <2> QED
    BY <1>1, <1>3, <1>6, <2>1, <2>2 DEF IInv, ReadyIsUp, Current, Alive
<1> QED
  BY <1>7, <1>8, <1>9, <1>10, <1>11, <1>12 DEF IInv

(* stop() takes the entry out of the map.                                  *)
LEMMA StopEntryStep ==
  ASSUME IInv, NEW then \in {"none", "patch", "delete"}, NEW c \in 0..MaxConf,
         canonical # 0, StopEntry(canonical, then, c)
  PROVE  IInv'
<1>0. TypeOK
  BY DEF IInv
<1> USE <1>0 DEF TypeOK
<1> DEFINE e == canonical
           k == entry[e].cur
<1>1. /\ e \in Calls /\ k \in Calls /\ Spawned(k) /\ call[k].ent = e /\ child[k] # "none"
      /\ k # 0
  BY DEF IInv, EntriesInv, CallsInv, EntryRecs, Calls
<1>2. PICK how \in {"done", "term"} :
        /\ how = "done" => ~Alive(k)
        /\ entry' = [entry EXCEPT ![e] = [@ EXCEPT !.timer = FALSE, !.down = TRUE,
                       !.stop = how, !.then = then, !.next = c]]
  BY DEF StopEntry
<1>3. /\ call' = [call EXCEPT ![k].st = "stopped"] /\ child' = Signalled(k)
      /\ canonical' = 0
  BY DEF StopEntry
<1>4. /\ call' \in [Calls -> CallRecs] /\ call'[k].st = "stopped"
      /\ \A j \in Calls : call'[j].ent = call[j].ent
      /\ \A j \in Calls : j # k => call'[j].st = call[j].st
  <2>1. "stopped" \in Statuses
    BY DEF Statuses
  <2> HIDE DEF k
  <2> QED
    BY <1>1, <1>3, <2>1, StatusFacts
<1>5. /\ entry' \in [Calls -> EntryRecs]
      /\ entry'[e].cur = k /\ entry'[e].down /\ ~entry'[e].timer /\ entry'[e].stop = how
      /\ \A d \in Calls : d # e => entry'[d] = entry[d]
  <2>1. entry[e] \in EntryRecs /\ entry[e].cur = k
    BY <1>1
  <2> DEFINE new == [entry[e] EXCEPT !.timer = FALSE, !.down = TRUE,
                       !.stop = how, !.then = then, !.next = c]
  <2>2. entry' = [entry EXCEPT ![e] = new]
    BY <1>1, <1>2
  <2> HIDE DEF e, k
  <2>3. new \in EntryRecs /\ new.cur = k /\ new.down /\ ~new.timer /\ new.stop = how
    BY <2>1 DEF EntryRecs
  <2> HIDE DEF new
  <2> QED
    BY <1>1, <2>2, <2>3
<1>6. /\ child' \in [Calls -> ChildStates]
      /\ child'[k] = IF child[k] = "live" THEN "term" ELSE child[k]
      /\ \A j \in Calls : j # k => child'[j] = child[j]
  BY <1>1, <1>3 DEF Signalled, ChildStates
<1> HIDE DEF e, k
<1>7. TypeOK'
  <2>1. saved' \in 0..MaxConf
    BY ConfAssumption DEF StopEntry, RolledBack
  <2> QED
    BY <1>3, <1>4, <1>5, <1>6, <2>1, CallsAssumption
<1>8. \A j \in Calls : Spawned(j)' <=> Spawned(j)
  BY <1>1, <1>4 DEF Spawned
<1>9. CallsInv'
  <2>1. ASSUME NEW j \in Calls, Spawned(j)
        PROVE  /\ call'[j].ent \in Calls /\ child'[j] # "none"
               /\ entry'[call'[j].ent].down
    <3>1. /\ call'[j].ent = call[j].ent /\ call[j].ent \in Calls /\ child[j] # "none"
          /\ e = call[j].ent \/ entry[call[j].ent].down
      BY <1>4, <2>1 DEF IInv, CallsInv, e
    <3>2. entry'[call[j].ent].down
      BY <1>5, <3>1
    <3> QED
      BY <1>6, <3>1, <3>2
  <2>2. ASSUME NEW j \in Calls, ~Spawned(j)
        PROVE  entry'[j].cur = 0 /\ entry'[j].stop = "no"
    <3>1. entry[j].cur = 0 /\ entry[j].stop = "no"
      BY <2>2 DEF IInv, CallsInv
    <3>2. j # e
      BY <1>1, <3>1 DEF k
    <3> QED
      BY <1>5, <3>1, <3>2
  <2> QED
    BY <1>8, <2>1, <2>2 DEF CallsInv
<1>10. EntriesInv'
  <2>1. \A d \in Calls : entry'[d].cur = entry[d].cur
    BY <1>5 DEF k
  <2>2. \A d \in Calls : entry[d].cur # 0 => entry[d].cur \in Calls
    BY DEF EntryRecs, Calls
  <2>3. ASSUME NEW d \in Calls, entry[d].cur # 0
        PROVE  Spawned(entry[d].cur)' /\ call'[entry'[d].cur].ent = d
    <3>1. Spawned(entry[d].cur) /\ call[entry[d].cur].ent = d
      BY <2>3 DEF IInv, EntriesInv
    <3>2. entry'[d].cur = entry[d].cur /\ entry[d].cur \in Calls
      BY <2>1, <2>2, <2>3
    <3> QED
      BY <1>4, <1>1, <3>1, <3>2 DEF Spawned
  <2> QED
    BY <1>3, <2>1, <2>3 DEF EntriesInv
<1>11. StopInv'
  <2>1. ASSUME NEW d \in Calls, d # e
        PROVE  /\ entry'[d].down <=> entry'[d].stop # "no"
               /\ entry'[d].down => entry'[d].cur # 0
               /\ entry'[d].stop \in {"kill", "done"} => child'[entry'[d].cur] \in {"dead", "kill"}
    <3>1. entry'[d] = entry[d]
      BY <1>5, <2>1
    <3>2. entry[d].cur # 0 => entry[d].cur \in Calls
      BY DEF EntryRecs, Calls
    <3>3. /\ entry[d].down <=> entry[d].stop # "no"
          /\ entry[d].down => entry[d].cur # 0
          /\ entry[d].stop \in {"kill", "done"} => child[entry[d].cur] \in {"dead", "kill"}
      BY DEF IInv, StopInv
    <3> QED
      BY <1>6, <3>1, <3>2, <3>3
  <2>2. how = "done" => child'[k] = "dead"
    BY <1>1, <1>2, <1>6 DEF Alive, ChildStates
  <2> QED
    BY <1>1, <1>2, <1>5, <2>1, <2>2 DEF StopInv
<1>12. TimersAreWanted'
  <2>1. \A d \in Calls : d # e => ~entry[d].timer
    BY DEF IInv, TimersAreWanted, e
  <2> QED
    BY <1>5, <2>1 DEF TimersAreWanted
<1>13. ReadyIsUp'
  BY <1>3 DEF ReadyIsUp
<1> QED
  BY <1>7, <1>9, <1>10, <1>11, <1>12, <1>13 DEF IInv

(* SIGKILL after SIGTERM.                                                  *)
LEMMA StopKillStep ==
  ASSUME IInv, NEW e \in Calls, StopKill(e)
  PROVE  IInv'
<1>0. TypeOK
  BY DEF IInv
<1> USE <1>0 DEF TypeOK
<1> DEFINE k == entry[e].cur
<1>1. /\ entry[e].stop = "term" /\ entry' = [entry EXCEPT ![e].stop = "kill"]
      /\ UNCHANGED <<saved, call, canonical>>
  BY DEF StopKill
<1>2. /\ entry[e].down /\ k \in Calls /\ child[k] # "none"
  BY <1>1 DEF IInv, StopInv, EntriesInv, CallsInv, EntryRecs, Calls
<1>3. /\ entry' \in [Calls -> EntryRecs]
      /\ entry'[e].stop = "kill"
      /\ \A d \in Calls : /\ entry'[d].cur = entry[d].cur /\ entry'[d].down = entry[d].down
                          /\ entry'[d].timer = entry[d].timer
                          /\ d # e => entry'[d].stop = entry[d].stop
  BY <1>1 DEF EntryRecs
<1>4. /\ child' \in [Calls -> ChildStates] /\ child'[k] \in {"dead", "kill"}
      /\ \A j \in Calls : child'[j] = child[j] \/ (Alive(j) /\ child'[j] = "kill")
  <2>1. child' = [child EXCEPT ![k] = IF Alive(k) THEN "kill" ELSE @]
    BY DEF StopKill
  <2> HIDE DEF k
  <2> QED
    BY <1>2, <2>1 DEF Alive, ChildStates
<1> HIDE DEF k
<1>5. TypeOK'
  BY <1>1, <1>3, <1>4
<1>6. \A d \in Calls : entry[d].cur # 0 => entry[d].cur \in Calls
  BY DEF EntryRecs, Calls
<1>7. CallsInv'
  <2>1. \A j \in Calls : (Spawned(j)' <=> Spawned(j)) /\ (child[j] # "none" => child'[j] # "none")
    BY <1>1, <1>4 DEF Spawned
  <2>2. ASSUME NEW j \in Calls, ~Spawned(j)
        PROVE  entry'[j].cur = 0 /\ entry'[j].stop = "no"
    <3>1. entry[j].cur = 0 /\ entry[j].stop = "no"
      BY <2>2 DEF IInv, CallsInv
    <3> QED
      BY <1>1, <1>3, <3>1
  <2>3. ASSUME NEW j \in Calls, Spawned(j)
        PROVE  /\ call'[j].ent \in Calls
               /\ canonical' = call'[j].ent \/ entry'[call'[j].ent].down
    BY <1>1, <1>3, <2>3 DEF IInv, CallsInv
  <2>4. ASSUME NEW j \in Calls, Spawned(j)
        PROVE  child'[j] # "none"
    BY <2>1, <2>4 DEF IInv, CallsInv
  <2> QED
    BY <2>1, <2>2, <2>3, <2>4 DEF CallsInv
<1>8. EntriesInv'
  <2>1. canonical # 0 => canonical \in Calls
    BY DEF Calls
  <2> QED
    BY <1>1, <1>3, <2>1 DEF IInv, EntriesInv, Spawned
<1>9. StopInv'
  <2>1. ASSUME NEW d \in Calls, d # e
        PROVE  entry'[d].stop \in {"kill", "done"} => child'[entry'[d].cur] \in {"dead", "kill"}
    BY <1>3, <1>4, <1>6, <2>1 DEF IInv, StopInv
  <2>2. \A d \in Calls : /\ entry'[d].down <=> entry'[d].stop # "no"
                         /\ entry'[d].down => entry'[d].cur # 0
    BY <1>1, <1>2, <1>3 DEF IInv, StopInv
  <2>3. child'[entry'[e].cur] \in {"dead", "kill"}
    BY <1>3, <1>4 DEF k
  <2>4. \A d \in Calls :
          entry'[d].stop \in {"kill", "done"} => child'[entry'[d].cur] \in {"dead", "kill"}
    BY <2>1, <2>3
  <2> QED
    BY <2>2, <2>4 DEF StopInv
<1>10. TimersAreWanted'
  BY <1>1, <1>3 DEF IInv, TimersAreWanted
<1>11. ReadyIsUp'
  <2>1. canonical # 0 => canonical \in Calls /\ entry[canonical].cur \in Calls
    BY <1>6 DEF IInv, EntriesInv, Calls
  <2> QED
    BY <1>1, <1>3, <1>4, <2>1 DEF IInv, ReadyIsUp, Current, Alive
<1> QED
  BY <1>5, <1>7, <1>8, <1>9, <1>10, <1>11 DEF IInv

(* stop() resolves without an exit.                                        *)
LEMMA StopGivesUpStep ==
  ASSUME IInv, NEW e \in Calls, StopGivesUp(e)
  PROVE  IInv'
<1>0. TypeOK
  BY DEF IInv
<1> USE <1>0 DEF TypeOK
<1> DEFINE k == entry[e].cur
<1>1. /\ entry[e].stop = "kill" /\ entry' = [entry EXCEPT ![e].stop = "done"]
      /\ UNCHANGED <<saved, call, canonical>>
  BY DEF StopGivesUp
<1>2. /\ entry[e].down /\ k \in Calls /\ child[k] # "none"
  BY <1>1 DEF IInv, StopInv, EntriesInv, CallsInv, EntryRecs, Calls
<1>3. /\ entry' \in [Calls -> EntryRecs]
      /\ entry'[e].stop = "done"
      /\ \A d \in Calls : /\ entry'[d].cur = entry[d].cur /\ entry'[d].down = entry[d].down
                          /\ entry'[d].timer = entry[d].timer
                          /\ d # e => entry'[d].stop = entry[d].stop
  BY <1>1 DEF EntryRecs
<1>4. /\ child' \in [Calls -> ChildStates] /\ child'[k] \in {"dead", "kill"}
      /\ \A j \in Calls : child'[j] = child[j] \/ (Alive(j) /\ child'[j] = "kill")
  BY <1>1 DEF StopGivesUp, IInv, StopInv
<1> HIDE DEF k
<1>5. TypeOK'
  BY <1>1, <1>3, <1>4
<1>6. \A d \in Calls : entry[d].cur # 0 => entry[d].cur \in Calls
  BY DEF EntryRecs, Calls
<1>7. CallsInv'
  <2>1. \A j \in Calls : (Spawned(j)' <=> Spawned(j)) /\ (child[j] # "none" => child'[j] # "none")
    BY <1>1, <1>4 DEF Spawned
  <2>2. ASSUME NEW j \in Calls, ~Spawned(j)
        PROVE  entry'[j].cur = 0 /\ entry'[j].stop = "no"
    <3>1. entry[j].cur = 0 /\ entry[j].stop = "no"
      BY <2>2 DEF IInv, CallsInv
    <3> QED
      BY <1>1, <1>3, <3>1
  <2>3. ASSUME NEW j \in Calls, Spawned(j)
        PROVE  /\ call'[j].ent \in Calls
               /\ canonical' = call'[j].ent \/ entry'[call'[j].ent].down
    BY <1>1, <1>3, <2>3 DEF IInv, CallsInv
  <2>4. ASSUME NEW j \in Calls, Spawned(j)
        PROVE  child'[j] # "none"
    BY <2>1, <2>4 DEF IInv, CallsInv
  <2> QED
    BY <2>1, <2>2, <2>3, <2>4 DEF CallsInv
<1>8. EntriesInv'
  <2>1. canonical # 0 => canonical \in Calls
    BY DEF Calls
  <2> QED
    BY <1>1, <1>3, <2>1 DEF IInv, EntriesInv, Spawned
<1>9. StopInv'
  <2>1. ASSUME NEW d \in Calls, d # e
        PROVE  entry'[d].stop \in {"kill", "done"} => child'[entry'[d].cur] \in {"dead", "kill"}
    BY <1>3, <1>4, <1>6, <2>1 DEF IInv, StopInv
  <2>2. \A d \in Calls : /\ entry'[d].down <=> entry'[d].stop # "no"
                         /\ entry'[d].down => entry'[d].cur # 0
    BY <1>1, <1>2, <1>3 DEF IInv, StopInv
  <2>3. child'[entry'[e].cur] \in {"dead", "kill"}
    BY <1>3, <1>4 DEF k
  <2>4. \A d \in Calls :
          entry'[d].stop \in {"kill", "done"} => child'[entry'[d].cur] \in {"dead", "kill"}
    BY <2>1, <2>3
  <2> QED
    BY <2>2, <2>4 DEF StopInv
<1>10. TimersAreWanted'
  BY <1>1, <1>3 DEF IInv, TimersAreWanted
<1>11. ReadyIsUp'
  <2>1. canonical # 0 => canonical \in Calls /\ entry[canonical].cur \in Calls
    BY <1>6 DEF IInv, EntriesInv, Calls
  <2> QED
    BY <1>1, <1>3, <1>4, <2>1 DEF IInv, ReadyIsUp, Current, Alive
<1> QED
  BY <1>5, <1>7, <1>8, <1>9, <1>10, <1>11 DEF IInv

-----------------------------------------------------------------------------
(* The invariant holds when the daemon boots, and every step keeps it.     *)
LEMMA IInvInit == Init => IInv
  BY CallsAssumption, ConfAssumption
  DEF Init, IInv, TypeOK, CallRecs, EntryRecs, ChildStates, Statuses, Callers, NoCall,
      NoEntry, CallsInv, EntriesInv, StopInv, TimersAreWanted, ReadyIsUp, Spawned

(* One step per operation of the manager and of its routes.                *)
LEMMA IInvStep == IInv /\ [Next]_vars => IInv'
<1> SUFFICES ASSUME IInv, [Next]_vars
             PROVE  IInv'
  OBVIOUS
<1>1. saved \in 0..MaxConf
  BY DEF IInv, TypeOK
<1>2. ASSUME NEW k \in Calls, Spawn(k) \/ SpawnFails(k)
      PROVE  IInv'
  BY <1>2, SpawnStep, SpawnFailsStep
<1>3. ASSUME NEW k \in Calls, ProbeReady(k) \/ ProbeTimeout(k)
      PROVE  IInv'
  BY <1>3, SettleStep DEF ProbeReady, ProbeTimeout
<1>4. ASSUME NEW k \in Calls, Start(k) \/ Create(k)
      PROVE  IInv'
  <2>1. /\ saved' \in 0..MaxConf /\ UNCHANGED <<child, entry, canonical>>
        /\ \E by \in {"route", "create"}, c \in {1, saved} : Begin(k, by, c)
    BY <1>1, <1>4, ConfAssumption DEF Start, Create
  <2>2. {"route", "create"} \subseteq Callers /\ 1 \in 0..MaxConf
    BY ConfAssumption DEF Callers
  <2> QED
    BY <1>1, <2>1, <2>2, BeginStep
<1>5. ASSUME NEW k \in Calls, Restart(k)
      PROVE  IInv'
  BY <1>5, RestartStep
<1>6. ASSUME NEW k \in Calls, NEW st \in {"transient", "terminal"}, ChildExits(k, st)
      PROVE  IInv'
  BY <1>6, ChildExitsStep
<1>7. ASSUME NEW e \in Calls, NEW k \in Calls, TimerFires(e, k)
      PROVE  IInv'
  BY <1>7, TimerFiresStep
<1>8. ASSUME NEW e \in Calls, NEW k \in Calls, PatchResumes(e, k)
      PROVE  IInv'
  <2>1. entry[e].next \in 0..MaxConf /\ "route" \in Callers
    BY DEF IInv, TypeOK, EntryRecs, Callers
  <2>2. entry' = [entry EXCEPT ![e].then = "none"] /\ UNCHANGED <<child, canonical>>
    BY <1>8 DEF PatchResumes
  <2>3. CASE UNCHANGED <<saved, call>>
    BY <1>1, <2>2, <2>3, QuiescentStep
  <2>4. CASE saved' = entry[e].next /\ Begin(k, "route", entry[e].next)
    BY <2>1, <2>2, <2>4, BeginStep
  <2> QED
    BY <1>8, <2>3, <2>4 DEF PatchResumes
<1>9. ASSUME NEW e \in Calls, StopKill(e) \/ StopGivesUp(e)
      PROVE  IInv'
  BY <1>9, StopKillStep, StopGivesUpStep
<1>10. ASSUME NEW e \in Calls, DeleteResumes(e)
       PROVE  IInv'
  <2>1. /\ entry' = [entry EXCEPT ![e].then = "none"] /\ saved' = 0
        /\ UNCHANGED <<call, child, canonical>>
    BY <1>10 DEF DeleteResumes
  <2>2. 0 \in 0..MaxConf
    BY ConfAssumption
  <2> QED
    BY <2>1, <2>2, QuiescentStep
<1>11. ASSUME NEW k \in Calls, NEW c \in 1..MaxConf, PatchIdle(k, c)
       PROVE  IInv'
  BY <1>11, BeginStep, ConfAssumption DEF PatchIdle, Callers
<1>12. ASSUME NEW c \in 1..MaxConf, Patch(c)
       PROVE  IInv'
  BY <1>12, StopEntryStep, ConfAssumption DEF Patch
<1>13. CASE Stop \/ Delete
  BY <1>13, StopEntryStep, ConfAssumption DEF Stop, Delete
<1>14. CASE DeleteIdle
  BY <1>14, QuiescentStep, ConfAssumption DEF DeleteIdle
<1>15. CASE UNCHANGED vars
  BY <1>1, <1>15, QuiescentStep DEF vars
<1> QED
  BY <1>2, <1>3, <1>4, <1>5, <1>6, <1>7, <1>8, <1>9, <1>10, <1>11, <1>12, <1>13, <1>14, <1>15
  DEF Next

(* IInv is inductive, so every reachable state satisfies it: the calls of  *)
(* start(), the entries, the children and the stops fit together.          *)
THEOREM Invariant == Spec => []IInv
  BY IInvInit, IInvStep, PTL DEF Spec

(* The calls, children and entries of the manager keep their types         *)
(* (TypeOK).                                                               *)
THEOREM TypeCorrect == Spec => []TypeOK
<1>1. IInv => TypeOK
  BY DEF IInv
<1> QED
  BY Invariant, <1>1, PTL

(* No reconnect timer is set for an entry that stop() has been called for, *)
(* nor for one out of the map (TimersAreWanted), whichever late failure    *)
(* reaches scheduleReconnect.                                              *)
THEOREM NoTimerAfterStop == Spec => []TimersAreWanted
<1>1. IInv => TimersAreWanted
  BY DEF IInv
<1> QED
  BY Invariant, <1>1, PTL

(* A tunnel shown as ready has a running ssh (ReadyIsUp): the exit handler *)
(* that start() registers hears every end of the current child.            *)
THEOREM ReadyHasChild == Spec => []ReadyIsUp
<1>1. IInv => ReadyIsUp
  BY DEF IInv
<1> QED
  BY Invariant, <1>1, PTL

(* A stop() that has resolved leaves no child alive that has not got       *)
(* SIGKILL (StopReaps).                                                    *)
THEOREM StopsReap == Spec => []StopReaps
<1>1. IInv => StopReaps
  BY DEF IInv, StopInv, StopReaps
<1> QED
  BY Invariant, <1>1, PTL

-----------------------------------------------------------------------------
(* The configuration of the tunnel on show.  A route that changes the saved *)
(* one also starts the tunnel with it, and starts get their ports in the    *)
(* order of their calls; so the last start of a route is the one to look at. *)
Routed(k) == call[k].by \in {"route", "create"}
LastRouted(k) == \A j \in Calls : j > k /\ Routed(j) => call[j].st = "idle"

(* Calls are numbered in their order, and wait for ports in that order.     *)
QueueInv ==
  /\ \A j, k \in Calls : call[k].st = "idle" /\ j > k => call[j].st = "idle"
  /\ \A j, k \in Calls : call[k].st = "port" /\ j > k => call[j].st \in {"idle", "port"}
  /\ \A k \in Calls : call[k].by = "create" => k = 1

(* The last start of a route has the saved configuration, in the queue and  *)
(* on show; what is on show was the last to spawn.                          *)
ConfInv ==
  /\ \A k \in Calls : call[k].st = "port" /\ Routed(k) /\ LastRouted(k) /\ saved # 0 =>
       call[k].conf = saved
  /\ canonical # 0 =>
       /\ \A j \in Calls : j > Current => ~Spawned(j)
       /\ Routed(Current) /\ LastRouted(Current) /\ saved # 0 =>
            entry[canonical].conf = saved

(* Most steps leave a call alone, end the probe of a start or fail it, and  *)
(* do not touch what an entry shows.                                        *)
CallKept(j) ==
  \/ call'[j] = call[j]
  \/ /\ call'[j].by = call[j].by
     /\ \/ Spawned(j) /\ Spawned(j)'
        \/ HasPort(j) /\ call'[j].st = "threw"
ShowKept ==
  /\ canonical' \in {canonical, 0}
  /\ \A e \in Calls : entry'[e].cur = entry[e].cur /\ entry'[e].conf = entry[e].conf

LEMMA CurrentFacts ==
  ASSUME IInv, canonical # 0
  PROVE  canonical \in Calls /\ Current \in Calls /\ Spawned(Current)
  BY DEF IInv, TypeOK, EntriesInv, EntryRecs, Current, Calls

LEMMA ConfKept ==
  ASSUME IInv, QueueInv, ConfInv, \A j \in Calls : CallKept(j), ShowKept,
         saved' \in {saved, 0}
  PROVE  QueueInv' /\ ConfInv'
<1>1. \A j \in Calls : /\ call'[j].by = call[j].by
                       /\ call'[j].st = "idle" <=> call[j].st = "idle"
                       /\ call'[j].st = "port" => call'[j] = call[j]
                       /\ Spawned(j)' => Spawned(j)
  BY DEF CallKept, Spawned, HasPort
<1>2. QueueInv'
  <2>1. ASSUME NEW j \in Calls, NEW k \in Calls, call'[k].st = "port", j > k
        PROVE  call'[j].st \in {"idle", "port"}
    <3>1. call[k].st = "port" /\ call[j].st \in {"idle", "port"} /\ k < j
      BY <1>1, <2>1 DEF QueueInv, Calls
    <3>2. ~HasPort(j) /\ ~Spawned(j)
      BY <3>1 DEF HasPort, Spawned
    <3> QED
      BY <3>1, <3>2 DEF CallKept
  <2> QED
    BY <1>1, <2>1 DEF QueueInv
<1>3. \A k \in Calls : (Routed(k)' <=> Routed(k)) /\ (LastRouted(k)' => LastRouted(k))
  BY <1>1 DEF Routed, LastRouted
<1>4. ConfInv'
  <2>1. ASSUME NEW k \in Calls, call'[k].st = "port", Routed(k)', LastRouted(k)', saved' # 0
        PROVE  call'[k].conf = saved'
    BY <1>1, <1>3, <2>1 DEF ConfInv
  <2>2. ASSUME canonical' # 0
        PROVE  /\ \A j \in Calls : j > Current' => ~Spawned(j)'
               /\ Routed(Current)' /\ LastRouted(Current)' /\ saved' # 0 =>
                    entry'[canonical'].conf = saved'
    <3>1. /\ canonical' = canonical /\ canonical \in Calls /\ Current \in Calls
          /\ Current' = Current /\ entry'[canonical].conf = entry[canonical].conf
      BY <2>2, CurrentFacts DEF ShowKept, Current
    <3>2. (Routed(Current)' => Routed(Current)) /\ (LastRouted(Current)' => LastRouted(Current))
      BY <1>1, <3>1 DEF Routed, LastRouted
    <3> QED
      BY <1>1, <2>2, <3>1, <3>2 DEF ConfInv
  <2> QED
    BY <2>1, <2>2 DEF ConfInv
<1> QED
  BY <1>2, <1>4

(* A new call, with the saved configuration if a route makes it.            *)
LEMMA ConfCalled ==
  ASSUME IInv, QueueInv, ConfInv, NEW k \in Calls, IsNext(k), call'[k].st = "port",
         \A j \in Calls \ {k} : CallKept(j), ShowKept,
         call'[k].by = "create" => k = 1,
         call'[k].by \in {"route", "create"} => call'[k].conf = saved',
         call'[k].by \notin {"route", "create"} => saved' \in {saved, 0}
  PROVE  QueueInv' /\ ConfInv'
<1>1. \A j \in Calls \ {k} : /\ call'[j].by = call[j].by
                             /\ call'[j].st = "idle" <=> call[j].st = "idle"
                             /\ call'[j].st = "port" => call'[j] = call[j]
                             /\ Spawned(j)' => Spawned(j)
  BY DEF CallKept, Spawned, HasPort
<1>2. \A j \in Calls : /\ j < k <=> call[j].st # "idle"
                       /\ j > k => call[j].st = "idle" /\ call'[j].st = "idle"
  BY <1>1 DEF IsNext, QueueInv, Calls
<1>3. QueueInv'
  <2>1. ASSUME NEW j \in Calls, NEW i \in Calls, call'[i].st = "port", j > i
        PROVE  call'[j].st \in {"idle", "port"}
    <3>1. CASE j = k
      BY <3>1
    <3>2. CASE i = k
      BY <1>2, <2>1, <3>2
    <3>3. CASE i # k /\ j # k
      <4>1. call[i].st = "port" /\ call[j].st \in {"idle", "port"} /\ i < j
        BY <1>1, <2>1, <3>3 DEF QueueInv, Calls
      <4>2. ~HasPort(j) /\ ~Spawned(j)
        BY <4>1 DEF HasPort, Spawned
      <4> QED
        BY <3>3, <4>1, <4>2 DEF CallKept
    <3> QED
      BY <3>1, <3>2, <3>3
  <2>2. ASSUME NEW j \in Calls, NEW i \in Calls, call'[i].st = "idle", j > i
        PROVE  call'[j].st = "idle"
    <3>1. i # k /\ call[i].st = "idle" /\ ~(i < k)
      BY <1>1, <1>2, <2>2
    <3>2. j > k
      BY <2>2, <3>1 DEF Calls
    <3> QED
      BY <1>2, <3>2
  <2>3. \A j \in Calls : call'[j].by = "create" => j = 1
    BY <1>1 DEF QueueInv
  <2> QED
    BY <2>1, <2>2, <2>3 DEF QueueInv
<1>4. ASSUME NEW j \in Calls, j < k, Routed(j)', LastRouted(j)'
      PROVE  Routed(j) /\ LastRouted(j) /\ call'[k].by \notin {"route", "create"}
  <2>1. j # k /\ k > j
    BY <1>4 DEF Calls
  <2>2. call'[k].by \notin {"route", "create"}
    BY <1>4, <2>1 DEF LastRouted, Routed
  <2>3. Routed(j)
    BY <1>1, <1>4, <2>1 DEF Routed
  <2>4. ASSUME NEW i \in Calls, i > j, Routed(i) PROVE call[i].st = "idle"
    <3>1. CASE i = k
      BY <3>1 DEF IsNext
    <3>2. CASE i # k
      BY <1>1, <1>4, <2>4, <3>2 DEF LastRouted, Routed
    <3> QED
      BY <3>1, <3>2
  <2> QED
    BY <2>2, <2>3, <2>4 DEF LastRouted
<1>5. ConfInv'
  <2>1. ASSUME NEW j \in Calls, call'[j].st = "port", Routed(j)', LastRouted(j)', saved' # 0
        PROVE  call'[j].conf = saved'
    <3>1. CASE j = k
      BY <2>1, <3>1 DEF Routed
    <3>2. CASE j # k
      <4>1. call'[j] = call[j] /\ j < k
        BY <1>1, <1>2, <2>1, <3>2
      <4>2. Routed(j) /\ LastRouted(j) /\ call'[k].by \notin {"route", "create"}
        BY <1>4, <2>1, <4>1
      <4> QED
        BY <2>1, <4>1, <4>2 DEF ConfInv
    <3> QED
      BY <3>1, <3>2
  <2>2. ASSUME canonical' # 0
        PROVE  /\ \A j \in Calls : j > Current' => ~Spawned(j)'
               /\ Routed(Current)' /\ LastRouted(Current)' /\ saved' # 0 =>
                    entry'[canonical'].conf = saved'
    <3>1. /\ canonical' = canonical /\ canonical \in Calls /\ Current \in Calls
          /\ Current' = Current /\ entry'[canonical].conf = entry[canonical].conf
          /\ Current < k
      <4>1. Current \in Calls /\ Spawned(Current) /\ canonical \in Calls
        BY <2>2, CurrentFacts DEF ShowKept
      <4> QED
        BY <1>2, <2>2, <4>1 DEF ShowKept, Current, Spawned
    <3>2. \A j \in Calls : j > Current => ~Spawned(j)'
      <4> SUFFICES ASSUME NEW j \in Calls, j > Current PROVE ~Spawned(j)'
        OBVIOUS
      <4>1. CASE j = k
        BY <4>1 DEF Spawned
      <4>2. CASE j # k
        BY <1>1, <2>2, <3>1, <4>2 DEF ConfInv
      <4> QED
        BY <4>1, <4>2
    <3>3. ASSUME Routed(Current)', LastRouted(Current)', saved' # 0
          PROVE  entry'[canonical'].conf = saved'
      <4> DEFINE c == Current
      <4>1. c \in Calls /\ c < k /\ c' = c
        BY <3>1
      <4>2. call'[c].by \in {"route", "create"}
        BY <3>1, <3>3 DEF Routed
      <4>3. \A j \in Calls : j > c /\ call'[j].by \in {"route", "create"} => call'[j].st = "idle"
        BY <3>1, <3>3 DEF LastRouted, Routed
      <4> HIDE DEF c
      <4>4. Routed(c) /\ LastRouted(c) /\ call'[k].by \notin {"route", "create"}
        <5>1. k > c
          BY <4>1 DEF Calls
        <5>2. call'[k].by \notin {"route", "create"}
          BY <4>3, <5>1
        <5>3. Routed(c)
          BY <1>1, <4>1, <4>2 DEF Routed, Calls
        <5>4. ASSUME NEW i \in Calls, i > c, Routed(i) PROVE call[i].st = "idle"
          <6>1. CASE i = k
            BY <6>1 DEF IsNext
          <6>2. CASE i # k
            BY <1>1, <4>3, <5>4, <6>2 DEF Routed
          <6> QED
            BY <6>1, <6>2
        <5> QED
          BY <5>2, <5>3, <5>4 DEF LastRouted
      <4>5. entry[canonical].conf = saved
        BY <2>2, <3>1, <3>3, <4>4 DEF c, ConfInv
      <4> QED
        BY <3>1, <3>3, <4>4, <4>5
    <3> QED
      BY <3>1, <3>2, <3>3
  <2> QED
    BY <2>1, <2>2 DEF ConfInv
<1> QED
  BY <1>3, <1>5

(* The first call in the queue spawns, with the configuration it was given, *)
(* and is on show.                                                          *)
LEMMA ConfSpawn ==
  ASSUME IInv, QueueInv, ConfInv, NEW k \in Calls, Spawn(k)
  PROVE  QueueInv' /\ ConfInv'
<1> DEFINE e == IF canonical # 0 THEN canonical ELSE k
<1>1. /\ call[k].st = "port" /\ \A j \in Calls : j < k => call[j].st # "port"
      /\ saved' = saved /\ canonical' = e
  BY DEF Spawn, HasPort
<1>2. e \in Calls /\ e # 0
  BY DEF IInv, TypeOK, Calls
<1>3. /\ call'[k].st = "starting" /\ call'[k].by = call[k].by
      /\ \A j \in Calls : j # k => call'[j] = call[j]
  BY DEF Spawn, IInv, TypeOK, CallRecs
<1>4. entry'[e].cur = k /\ entry'[e].conf = call[k].conf
  <2> DEFINE new == [(IF canonical # 0 THEN entry[e] ELSE NoEntry)
                       EXCEPT !.cur = k, !.conf = call[k].conf, !.timer = FALSE]
  <2>1. entry' = [entry EXCEPT ![e] = new] /\ entry \in [Calls -> EntryRecs]
    BY DEF Spawn, IInv, TypeOK
  <2>2. new.cur = k /\ new.conf = call[k].conf
    <3>1. entry[e] \in EntryRecs
      BY <1>2, <2>1
    <3> HIDE DEF e
    <3> QED
      BY <3>1 DEF EntryRecs, NoEntry
  <2> HIDE DEF e, new
  <2> QED
    BY <1>2, <2>1, <2>2
<1> HIDE DEF e
<1>5. \A j \in Calls : j > k => call[j].st \in {"idle", "port"} /\ call'[j] = call[j]
  BY <1>1, <1>3 DEF QueueInv, Calls
<1>6. QueueInv'
  <2>1. ASSUME NEW i \in Calls, NEW j \in Calls, call'[i].st = "idle", j > i
        PROVE  call'[j].st = "idle"
    BY <1>1, <1>3, <2>1 DEF QueueInv
  <2>2. ASSUME NEW i \in Calls, NEW j \in Calls, call'[i].st = "port", j > i
        PROVE  call'[j].st \in {"idle", "port"}
    <3>1. i # k /\ call[i].st = "port" /\ ~(i < k)
      BY <1>1, <1>3, <2>2
    <3>2. j > k
      BY <2>2, <3>1 DEF Calls
    <3> QED
      BY <1>5, <3>2
  <2>3. \A j \in Calls : call'[j].by = "create" => j = 1
    BY <1>3 DEF QueueInv
  <2> QED
    BY <2>1, <2>2, <2>3 DEF QueueInv
<1>7. ASSUME NEW i \in Calls, ~(i < k), Routed(i)', LastRouted(i)'
      PROVE  Routed(i) /\ LastRouted(i)
  <2>1. \A j \in Calls : call'[j].by = call[j].by
    BY <1>3
  <2>2. \A j \in Calls : j > i => call'[j] = call[j]
    BY <1>3, <1>7 DEF Calls
  <2> QED
    BY <1>7, <2>1, <2>2 DEF Routed, LastRouted
<1>8. ConfInv'
  <2>1. ASSUME NEW i \in Calls, call'[i].st = "port", Routed(i)', LastRouted(i)', saved' # 0
        PROVE  call'[i].conf = saved'
    <3>1. i # k /\ call'[i] = call[i] /\ ~(i < k)
      BY <1>1, <1>3, <2>1
    <3> QED
      BY <1>1, <1>7, <2>1, <3>1 DEF ConfInv
  <2>2. Current' = k
    BY <1>1, <1>4 DEF Current
  <2>3. \A j \in Calls : j > k => ~Spawned(j)'
    BY <1>5 DEF Spawned
  <2>4. Routed(k)' /\ LastRouted(k)' /\ saved' # 0 => entry'[canonical'].conf = saved'
    <3>1. ~(k < k)
      BY DEF Calls
    <3> QED
      BY <1>1, <1>4, <1>7, <3>1 DEF ConfInv
  <2>5. Routed(Current)' /\ LastRouted(Current)' /\ saved' # 0 =>
          entry'[canonical'].conf = saved'
    BY <2>2, <2>4 DEF Routed, LastRouted
  <2> QED
    BY <2>1, <2>2, <2>3, <2>5 DEF ConfInv
<1> QED
  BY <1>6, <1>8

(* A new status for one call, which has spawned or fails to.               *)
LEMMA StatusKept ==
  ASSUME IInv, NEW k \in Calls, NEW st \in Statuses,
         call' = [call EXCEPT ![k].st = st],
         \/ Spawned(k) /\ st \notin {"idle", "port", "threw"}
         \/ HasPort(k) /\ st = "threw"
  PROVE  \A j \in Calls : CallKept(j)
<1>1. /\ call'[k].st = st /\ call'[k].by = call[k].by
      /\ \A j \in Calls : j # k => call'[j] = call[j]
  BY DEF IInv, TypeOK, CallRecs
<1> QED
  BY <1>1 DEF CallKept, Spawned, HasPort

(* The wiring and an exit leave what the entries show.                     *)
LEMMA WiredShow ==
  ASSUME IInv, NEW k \in Calls, NEW st, call[k].ent \in 0..MaxCalls,
         canonical' \in {canonical, 0},
         \/ entry' = Wired(entry, k, st) \/ entry' = entry
         \/ entry' = Reaped(Wired(entry, k, st), k) \/ entry' = Reaped(entry, k)
  PROVE  ShowKept
<1>1. entry \in [Calls -> EntryRecs]
  BY DEF IInv, TypeOK
<1>2. /\ Wired(entry, k, st) \in [Calls -> EntryRecs]
      /\ \A e \in Calls : SameButTimer(Wired(entry, k, st)[e], entry[e])
  BY <1>1, WiredFacts
<1>3. ASSUME NEW ents \in [Calls -> EntryRecs], NEW e \in Calls
      PROVE  Reaped(ents, k)[e].cur = ents[e].cur /\ Reaped(ents, k)[e].conf = ents[e].conf
  BY DEF Reaped, EntryRecs
<1> DEFINE w == Wired(entry, k, st)
<1>4. \A e \in Calls : w[e].cur = entry[e].cur /\ w[e].conf = entry[e].conf
  BY <1>2 DEF SameButTimer
<1>5. \A e \in Calls : /\ Reaped(w, k)[e].cur = w[e].cur /\ Reaped(w, k)[e].conf = w[e].conf
                       /\ Reaped(entry, k)[e].cur = entry[e].cur
                       /\ Reaped(entry, k)[e].conf = entry[e].conf
  BY <1>1, <1>2, <1>3
<1>6. ASSUME NEW e \in Calls
      PROVE  entry'[e].cur = entry[e].cur /\ entry'[e].conf = entry[e].conf
  <2>1. \/ entry' = w \/ entry' = entry \/ entry' = Reaped(w, k) \/ entry' = Reaped(entry, k)
    OBVIOUS
  <2> HIDE DEF w
  <2> QED
    BY <1>4, <1>5, <2>1
<1> QED
  BY <1>6 DEF ShowKept

-----------------------------------------------------------------------------
(* Every operation keeps what the queue and the tunnel on show say.        *)

(* A start fails before it spawns.                                         *)
LEMMA ConfSpawnFails ==
  ASSUME IInv, QueueInv, ConfInv, NEW k \in Calls, SpawnFails(k)
  PROVE  QueueInv' /\ ConfInv'
<1>1. \A j \in Calls : CallKept(j)
  BY StatusKept DEF SpawnFails, Statuses
<1>2. ShowKept
  <2>1. entry \in [Calls -> EntryRecs] /\ call[k].ent \in 0..MaxCalls
    BY DEF IInv, TypeOK, CallRecs
  <2>2. \A e \in Calls : SameButTimer(Schedule(entry, call[k].ent)[e], entry[e])
    BY <2>1, ScheduleFacts
  <2> QED
    BY <2>2 DEF SpawnFails, ShowKept, SameButTimer
<1> QED
  BY <1>1, <1>2, ConfKept DEF SpawnFails, RolledBack

(* The ready-gate ends.                                                    *)
LEMMA ConfSettle ==
  ASSUME IInv, QueueInv, ConfInv, NEW k \in Calls, NEW st \in {"ready", "transient"},
         Settle(k, st), UNCHANGED canonical
  PROVE  QueueInv' /\ ConfInv'
<1>1. Spawned(k) /\ call[k].ent \in 0..MaxCalls
  BY DEF Settle, Spawned, IInv, TypeOK, CallRecs
<1>2. \A j \in Calls : CallKept(j)
  BY <1>1, StatusKept DEF Settle, Statuses
<1>3. ShowKept
  BY <1>1, WiredShow DEF Settle
<1> QED
  BY <1>2, <1>3, ConfKept DEF Settle, RolledBack

(* A child exits.                                                          *)
LEMMA ConfChildExits ==
  ASSUME IInv, QueueInv, ConfInv, NEW k \in Calls, NEW st \in {"transient", "terminal"},
         ChildExits(k, st)
  PROVE  QueueInv' /\ ConfInv'
<1>1. call[k].ent \in 0..MaxCalls
  BY DEF IInv, TypeOK, CallRecs
<1>2. ShowKept
  BY <1>1, WiredShow DEF ChildExits
<1>3. \A j \in Calls : CallKept(j)
  <2>1. CASE call' = call
    BY <2>1 DEF CallKept
  <2>2. CASE Spawned(k) /\ call' = [call EXCEPT ![k].st = st]
    BY <2>2, StatusKept DEF Statuses
  <2> QED
    BY <2>1, <2>2 DEF ChildExits, Spawned
<1> QED
  BY <1>2, <1>3, ConfKept DEF ChildExits, RolledBack

(* stop() takes the tunnel off show.                                       *)
LEMMA ConfStopEntry ==
  ASSUME IInv, QueueInv, ConfInv, NEW then, NEW c, canonical # 0,
         StopEntry(canonical, then, c)
  PROVE  QueueInv' /\ ConfInv'
<1> DEFINE e == canonical
           k == entry[e].cur
<1>1. e \in Calls /\ k \in Calls /\ Spawned(k)
  BY CurrentFacts DEF Current
<1>2. \A j \in Calls : CallKept(j)
  <2>1. call' = [call EXCEPT ![k].st = "stopped"]
    BY DEF StopEntry
  <2> HIDE DEF k
  <2> QED
    BY <1>1, <2>1, StatusKept DEF Statuses
<1>3. ShowKept
  <2>1. PICK how \in {"done", "term"} :
          entry' = [entry EXCEPT ![e] = [@ EXCEPT !.timer = FALSE, !.down = TRUE,
                       !.stop = how, !.then = then, !.next = c]]
    BY DEF StopEntry
  <2>2. canonical' = 0 /\ entry \in [Calls -> EntryRecs]
    BY DEF StopEntry, IInv, TypeOK
  <2> DEFINE new == [entry[e] EXCEPT !.timer = FALSE, !.down = TRUE,
                       !.stop = how, !.then = then, !.next = c]
  <2> HIDE DEF e, k
  <2>3. new.cur = entry[e].cur /\ new.conf = entry[e].conf
    BY <1>1, <2>2 DEF EntryRecs
  <2>4. entry' = [entry EXCEPT ![e] = new]
    BY <1>1, <2>1, <2>2
  <2> HIDE DEF new
  <2> QED
    BY <1>1, <2>2, <2>3, <2>4 DEF ShowKept
<1> QED
  BY <1>2, <1>3, ConfKept DEF StopEntry, RolledBack

(* SIGKILL, and a stop() that resolves.                                    *)
LEMMA ConfStopGoesOn ==
  ASSUME IInv, QueueInv, ConfInv, NEW e \in Calls, StopKill(e) \/ StopGivesUp(e)
  PROVE  QueueInv' /\ ConfInv'
<1>1. UNCHANGED <<saved, call, canonical>>
  BY DEF StopKill, StopGivesUp
<1>2. PICK s \in {"kill", "done"} : entry' = [entry EXCEPT ![e].stop = s]
  BY DEF StopKill, StopGivesUp
<1>3. ShowKept
  BY <1>1, <1>2 DEF ShowKept, IInv, TypeOK, EntryRecs
<1> QED
  BY <1>1, <1>3, ConfKept DEF CallKept

(* The row goes, at once or when stop() has resolved.                      *)
LEMMA ConfDelete ==
  ASSUME IInv, QueueInv, ConfInv,
         DeleteIdle \/ \E e \in Calls : DeleteResumes(e)
  PROVE  QueueInv' /\ ConfInv'
<1>1. saved' = 0 /\ UNCHANGED <<call, canonical>>
  BY DEF DeleteIdle, DeleteResumes
<1>2. entry' = entry \/ \E e \in Calls : entry' = [entry EXCEPT ![e].then = "none"]
  BY DEF DeleteIdle, DeleteResumes
<1>3. ShowKept
  BY <1>1, <1>2 DEF ShowKept, IInv, TypeOK, EntryRecs
<1> QED
  BY <1>1, <1>3, ConfKept DEF CallKept

(* A route calls start() with the configuration that is then saved.        *)
LEMMA ConfBegin ==
  ASSUME IInv, QueueInv, ConfInv, NEW k \in Calls, NEW by \in {"route", "create"}, NEW c,
         Begin(k, by, c), saved' = c, by = "create" => k = 1, UNCHANGED canonical,
         entry' = entry \/ \E e \in Calls : entry' = [entry EXCEPT ![e].then = "none"]
  PROVE  QueueInv' /\ ConfInv'
<1>1. IsNext(k) /\ call' = [call EXCEPT ![k] = Called(k, by, 0, c)]
  BY DEF Begin
<1>2. /\ call'[k] = Called(k, by, 0, c)
      /\ \A j \in Calls : j # k => call'[j] = call[j]
  BY <1>1 DEF IInv, TypeOK
<1>3. call'[k].st = "port" /\ call'[k].by = by /\ call'[k].conf = c
  BY <1>2 DEF Called
<1>4. \A j \in Calls \ {k} : CallKept(j)
  BY <1>2 DEF CallKept
<1>5. ShowKept
  BY DEF ShowKept, IInv, TypeOK, EntryRecs
<1> QED
  BY <1>1, <1>3, <1>4, <1>5, ConfCalled

(* The reconnect timer starts a copy of what is on show.                   *)
LEMMA ConfTimer ==
  ASSUME IInv, QueueInv, ConfInv, NEW e \in Calls, NEW k \in Calls, TimerFires(e, k)
  PROVE  QueueInv' /\ ConfInv'
<1>1. /\ IsNext(k) /\ entry' = [entry EXCEPT ![e].timer = FALSE]
      /\ UNCHANGED <<saved, canonical>>
  BY DEF TimerFires
<1>2. ShowKept
  BY <1>1 DEF ShowKept, IInv, TypeOK, EntryRecs
<1>3. CASE call' = call
  BY <1>1, <1>2, <1>3, ConfKept DEF CallKept
<1>4. CASE call' = [call EXCEPT ![k] = Called(k, "timer", e, entry[e].conf)]
  <2>1. /\ call'[k] = Called(k, "timer", e, entry[e].conf)
        /\ \A j \in Calls : j # k => call'[j] = call[j]
    BY <1>4 DEF IInv, TypeOK
  <2>2. call'[k].st = "port" /\ call'[k].by = "timer"
    BY <2>1 DEF Called
  <2>3. \A j \in Calls \ {k} : CallKept(j)
    BY <2>1 DEF CallKept
  <2> QED
    BY <1>1, <1>2, <2>2, <2>3, ConfCalled
<1> QED
  BY <1>3, <1>4 DEF TimerFires

(* So does a restart, which may end a probe in progress.                   *)
LEMMA ConfRestart ==
  ASSUME IInv, QueueInv, ConfInv, NEW k \in Calls, Restart(k)
  PROVE  QueueInv' /\ ConfInv'
<1> DEFINE e == canonical
           old == entry[e].cur
           st == IF call[old].st = "starting" THEN "transient" ELSE call[old].st
           new == Called(k, "restart", 0, entry[e].conf)
<1>1. e \in Calls /\ old \in Calls /\ Spawned(old) /\ e # 0
  BY CurrentFacts DEF Current, Restart
<1>2. /\ IsNext(k) /\ k # old
  BY <1>1 DEF Restart, IsNext, Spawned
<1>3. /\ call'[k].st = "port" /\ call'[k].by = "restart"
      /\ \A j \in Calls \ {k} : CallKept(j)
  <2>1. call' = [call EXCEPT ![old].st = st, ![k] = new]
    BY DEF Restart
  <2>2. new.st = "port" /\ new.by = "restart"
    BY DEF Called
  <2>3. st \notin {"idle", "port", "threw"}
    BY <1>1 DEF Spawned
  <2> HIDE DEF e, old, st, new
  <2>4. /\ call'[k] = new /\ call'[old].st = st /\ call'[old].by = call[old].by
        /\ \A j \in Calls : j # k /\ j # old => call'[j] = call[j]
    BY <1>1, <1>2, <2>1 DEF IInv, TypeOK, CallRecs
  <2> QED
    BY <1>1, <2>2, <2>3, <2>4 DEF CallKept, Spawned
<1>4. ShowKept
  <2> DEFINE cleared == [entry EXCEPT ![e].timer = FALSE]
  <2>1. /\ entry' = IF call[old].st = "starting" THEN Wired(cleared, old, "transient")
                    ELSE cleared
        /\ canonical' = canonical
    BY DEF Restart
  <2>2. entry \in [Calls -> EntryRecs] /\ call[old].ent \in 0..MaxCalls
    BY <1>1 DEF IInv, TypeOK, CallRecs
  <2> HIDE DEF e, old
  <2>3. /\ cleared \in [Calls -> EntryRecs]
        /\ \A d \in Calls : SameButTimer(cleared[d], entry[d])
    BY <1>1, <2>2, ClearedFacts
  <2> HIDE DEF cleared
  <2>4. \A d \in Calls : SameButTimer(Wired(cleared, old, "transient")[d], cleared[d])
    BY <1>1, <2>2, <2>3, WiredFacts
  <2> QED
    BY <2>1, <2>3, <2>4 DEF ShowKept, SameButTimer
<1>5. saved' \in {saved, 0}
  BY DEF Restart, RolledBack
<1> QED
  BY <1>2, <1>3, <1>4, <1>5, ConfCalled

(* One step per operation, as for IInv.                                    *)
LEMMA ConfStep == IInv /\ QueueInv /\ ConfInv /\ [Next]_vars => QueueInv' /\ ConfInv'
<1> SUFFICES ASSUME IInv, QueueInv, ConfInv, [Next]_vars
             PROVE  QueueInv' /\ ConfInv'
  OBVIOUS
<1>1. ASSUME NEW k \in Calls, Spawn(k) \/ SpawnFails(k)
      PROVE  QueueInv' /\ ConfInv'
  BY <1>1, ConfSpawn, ConfSpawnFails
<1>2. ASSUME NEW k \in Calls, ProbeReady(k) \/ ProbeTimeout(k)
      PROVE  QueueInv' /\ ConfInv'
  BY <1>2, ConfSettle DEF ProbeReady, ProbeTimeout
<1>3. ASSUME NEW k \in Calls, Start(k)
      PROVE  QueueInv' /\ ConfInv'
  BY <1>3, ConfBegin DEF Start
<1>4. ASSUME NEW k \in Calls, Create(k)
      PROVE  QueueInv' /\ ConfInv'
  <2>1. k = 1
    <3>1. \A j \in Calls : ~(j < k)
      BY <1>4 DEF Create, Begin, IsNext
    <3>2. 1 \in Calls
      BY CallsAssumption DEF Calls
    <3> QED
      BY <3>1, <3>2 DEF Calls
  <2> QED
    BY <1>4, <2>1, ConfBegin DEF Create
<1>5. ASSUME NEW k \in Calls, Restart(k)
      PROVE  QueueInv' /\ ConfInv'
  BY <1>5, ConfRestart
<1>6. ASSUME NEW k \in Calls, NEW st \in {"transient", "terminal"}, ChildExits(k, st)
      PROVE  QueueInv' /\ ConfInv'
  BY <1>6, ConfChildExits
<1>7. ASSUME NEW e \in Calls, NEW k \in Calls, TimerFires(e, k)
      PROVE  QueueInv' /\ ConfInv'
  BY <1>7, ConfTimer
<1>8. ASSUME NEW e \in Calls, NEW k \in Calls, PatchResumes(e, k)
      PROVE  QueueInv' /\ ConfInv'
  <2>1. entry' = [entry EXCEPT ![e].then = "none"] /\ UNCHANGED <<child, canonical>>
    BY <1>8 DEF PatchResumes
  <2>2. CASE UNCHANGED <<saved, call>>
    <3>1. ShowKept
      BY <2>1 DEF ShowKept, IInv, TypeOK, EntryRecs
    <3> QED
      BY <2>2, <3>1, ConfKept DEF CallKept
  <2>3. CASE saved' = entry[e].next /\ Begin(k, "route", entry[e].next)
    BY <2>1, <2>3, ConfBegin
  <2> QED
    BY <1>8, <2>2, <2>3 DEF PatchResumes
<1>9. ASSUME NEW e \in Calls, StopKill(e) \/ StopGivesUp(e)
      PROVE  QueueInv' /\ ConfInv'
  BY <1>9, ConfStopGoesOn
<1>10. ASSUME NEW k \in Calls, NEW c \in 1..MaxConf, PatchIdle(k, c)
       PROVE  QueueInv' /\ ConfInv'
  BY <1>10, ConfBegin DEF PatchIdle
<1>11. ASSUME NEW c \in 1..MaxConf, Patch(c)
       PROVE  QueueInv' /\ ConfInv'
  BY <1>11, ConfStopEntry DEF Patch
<1>12. CASE Stop \/ Delete
  BY <1>12, ConfStopEntry DEF Stop, Delete
<1>13. CASE DeleteIdle \/ \E e \in Calls : DeleteResumes(e)
  BY <1>13, ConfDelete
<1>14. CASE UNCHANGED vars
  <2>1. ShowKept
    BY <1>14 DEF ShowKept, vars
  <2> QED
    BY <1>14, <2>1, ConfKept DEF CallKept, vars
<1> QED
  BY <1>1, <1>2, <1>3, <1>4, <1>5, <1>6, <1>7, <1>8, <1>9, <1>10, <1>11, <1>12, <1>13, <1>14
  DEF Next

(* With nothing queued and no start of a route thrown, no start of a route *)
(* is later than the one on show; a create can only be the first call.     *)
LEMMA ConfImplied == IInv /\ QueueInv /\ ConfInv => ConfIsSaved
<1> SUFFICES ASSUME IInv, QueueInv, ConfInv, canonical # 0, saved # 0, ~Queued,
                    call[Current].by \in {"route", "create"},
                    \A k \in Calls : ~(call[k].st = "threw" /\ call[k].by = "route")
             PROVE  entry[canonical].conf = saved
  BY DEF ConfIsSaved
<1>1. Current \in Calls
  BY CurrentFacts
<1>2. ASSUME NEW j \in Calls, j > Current, Routed(j)
      PROVE  call[j].st = "idle"
  <2>1. call[j].st \in {"idle", "port", "threw"}
    BY <1>2 DEF ConfInv, Spawned
  <2>2. call[j].st # "port"
    BY DEF Queued
  <2>3. CASE call[j].st = "threw"
    <3>1. call[j].by = "create"
      BY <1>2, <2>3 DEF Routed
    <3>2. j = 1
      BY <3>1 DEF QueueInv
    <3> QED
      BY <1>1, <1>2, <3>2 DEF Calls
  <2> QED
    BY <2>1, <2>2, <2>3
<1>3. Routed(Current) /\ LastRouted(Current)
  BY <1>2 DEF Routed, LastRouted
<1> QED
  BY <1>3 DEF ConfInv

(* With the queue empty, a tunnel that a route started runs with the saved *)
(* configuration (ConfIsSaved): allocatePortSerialized serves the starts   *)
(* in the order in which the routes read or saved the row.                 *)
THEOREM ConfigurationIsSaved == Spec => []ConfIsSaved
<1>1. Init => QueueInv /\ ConfInv
  BY DEF Init, QueueInv, ConfInv, NoCall, Calls
<1>2. Spec => [](QueueInv /\ ConfInv)
  BY Invariant, <1>1, ConfStep, PTL DEF Spec
<1> QED
  BY <1>2, Invariant, ConfImplied, PTL

=============================================================================
