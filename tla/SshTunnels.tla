---------------------------- MODULE SshTunnels ----------------------------
(***************************************************************************)
(* The canonical API of SshTunnelManager (services/ssh-tunnels/manager.ts) *)
(* for one remote server, with the routes that call it (routes/meta.ts)    *)
(* and the daemon's autostart and shutdown (server-entry.ts).  Shutdown is *)
(* a stop; the model ends with the daemon.                                 *)
(*                                                                         *)
(* start() awaits twice: for a local port, and for the ready-gate.  Stops, *)
(* restarts, reconnect timers, other starts and exits of ssh children run  *)
(* in between.  A call of start() is numbered; it spawns at most one child *)
(* and one handle, which carry its number, and the map entry it creates    *)
(* does too.  Entries of different servers share only the port lock, so    *)
(* one server is enough.  The delays of the backoff ladder, the argv and   *)
(* the text of stderr are left out: an exit is transient or terminal.      *)
(***************************************************************************)
EXTENDS Naturals, FiniteSets

CONSTANTS
  MaxCalls,   \* bound: calls of start() in a behaviour
  MaxStops,   \* bound: tunnels stopped
  MaxConf     \* bound: configurations of the server, numbered from 1

ASSUME CallsAssumption == MaxCalls \in Nat \ {0}
ASSUME ConfAssumption == MaxConf \in Nat \ {0}

Calls == 1..MaxCalls

VARIABLES
  saved,      \* configuration in ~/.flockctlrc, 0 when there is no row
  call,       \* calls of start(): status, caller, entry, configuration
  child,      \* the ssh process of a call
  entry,      \* CanonicalEntry objects, by the call that created them
  canonical   \* the entry in the canonical map, 0 when there is none

vars == <<saved, call, child, entry, canonical>>

(* "port" and "threw" come before the handle exists, the others are its    *)
(* status: "starting" while the ready-gate runs, and an error that         *)
(* TERMINAL_ERROR_CODES lists or not.                                      *)
Statuses == {"idle", "port", "threw", "starting", "ready",
             "transient", "terminal", "stopped"}
Callers == {"route", "create", "restart", "timer"}
(* "term" and "kill": alive after SIGTERM, after SIGKILL.                  *)
ChildStates == {"none", "live", "term", "kill", "dead"}
Alive(k) == child[k] \in {"live", "term", "kill"}

NoCall == [st |-> "idle", by |-> "route", ent |-> 0, conf |-> 0]
(* stop: how far stop() has got with this entry; then: the request that    *)
(* awaits it and, for a PATCH, the configuration it will save.             *)
NoEntry == [cur |-> 0, conf |-> 0, timer |-> FALSE, down |-> FALSE,
            stop |-> "no", then |-> "none", next |-> 0]

CallRecs == [st : Statuses, by : Callers, ent : 0..MaxCalls, conf : 0..MaxConf]
EntryRecs == [cur : 0..MaxCalls, conf : 0..MaxConf, timer : BOOLEAN, down : BOOLEAN,
              stop : {"no", "term", "kill", "done"},
              then : {"none", "patch", "delete"}, next : 0..MaxConf]

TypeOK ==
  /\ saved \in 0..MaxConf
  /\ call \in [Calls -> CallRecs]
  /\ child \in [Calls -> ChildStates]
  /\ entry \in [Calls -> EntryRecs]
  /\ canonical \in 0..MaxCalls

(* The daemon boots with the server in its rc file or not.                 *)
Init ==
  /\ saved \in {0, 1}
  /\ call = [k \in Calls |-> NoCall]
  /\ child = [k \in Calls |-> "none"]
  /\ entry = [k \in Calls |-> NoEntry]
  /\ canonical = 0

-----------------------------------------------------------------------------
(* The pieces of start().                                                  *)

IsNext(k) == call[k].st = "idle" /\ \A j \in Calls : j < k => call[j].st # "idle"

(* The call joins the queue of allocatePortSerialized.                     *)
Called(k, by, e, c) == [st |-> "port", by |-> by, ent |-> e, conf |-> c]

(* A start by the routes or by autostart, of configuration c.              *)
Begin(k, by, c) ==
  /\ IsNext(k)
  /\ call' = [call EXCEPT ![k] = Called(k, by, 0, c)]

(* Mutant: allocations are not serialized.                                 *)
HasPortUnordered(k) == call[k].st = "port"
(* Mutant: an allocation that threw keeps the lock.                        *)
HasPortPoisoned(k) ==
  call[k].st = "port" /\ \A j \in Calls : j < k => call[j].st \notin {"port", "threw"}
(* portAllocLock: the queue is served in order.                            *)
HasPort(k) == call[k].st = "port" /\ \A j \in Calls : j < k => call[j].st # "port"

(* Mutant: the flag of stop() is not read.                                 *)
ScheduleAnyway(ents, e) == [ents EXCEPT ![e].timer = TRUE]
(* scheduleReconnect: no timer for an entry that was stopped.              *)
Schedule(ents, e) ==
  IF ents[e].down THEN ents ELSE [ents EXCEPT ![e].timer = TRUE]

(* Mutant: a failed bootstrap is not retried.                              *)
WiredOnce(ents, k, st) ==
  IF st = "transient" /\ call[k].st = "ready" THEN Schedule(ents, call[k].ent) ELSE ents
(* The wiring after the ready-gate: a transient error is retried.          *)
Wired(ents, k, st) ==
  IF st = "transient" THEN Schedule(ents, call[k].ent) ELSE ents

(* POST /remote-servers deletes the row of a start that is not ready.      *)
RolledBack(k, st) == IF call[k].by = "create" /\ st # "ready" THEN 0 ELSE saved

(* The probe of a start in progress ends: status, retry, answer.           *)
Settle(k, st) ==
  /\ call[k].st = "starting"
  /\ call' = [call EXCEPT ![k].st = st]
  /\ entry' = Wired(entry, k, st)
  /\ saved' = RolledBack(k, st)

-----------------------------------------------------------------------------
(* Steps of start() and of its timers.                                     *)

(* The port is there: spawn ssh, then take over the entry of the server,   *)
(* if it has one, or register a new one.                                   *)
Spawn(k) ==
  LET e == IF canonical # 0 THEN canonical ELSE k
  IN /\ HasPort(k)
     /\ call' = [call EXCEPT ![k] = [@ EXCEPT !.st = "starting", !.ent = e, !.conf = 0]]
     /\ child' = [child EXCEPT ![k] = "live"]
     /\ entry' = [entry EXCEPT ![e] =
           [(IF canonical # 0 THEN entry[e] ELSE NoEntry)
              EXCEPT !.cur = k, !.conf = call[k].conf, !.timer = FALSE]]
     /\ canonical' = e
     /\ UNCHANGED <<saved>>

(* No port, bad arguments: start() rejects.  The timer's start is tried    *)
(* again, the route that creates a server deletes the row.                 *)
SpawnFails(k) ==
  LET e == call[k].ent
  IN /\ HasPort(k)
     /\ call' = [call EXCEPT ![k].st = "threw"]
     /\ entry' = IF call[k].by = "timer" /\ canonical = e
                 THEN Schedule(entry, e) ELSE entry
     /\ saved' = RolledBack(k, "threw")
     /\ UNCHANGED <<child, canonical>>

(* /health answers through the forwarded port.                             *)
ProbeReady(k) ==
  /\ Alive(k)
  /\ Settle(k, "ready")
  /\ UNCHANGED <<child, canonical>>

(* The gate's budget is spent; the child is left running.                  *)
ProbeTimeout(k) ==
  /\ Settle(k, "transient")
  /\ UNCHANGED <<child, canonical>>

(* ssh exits and stderr is classified as st.  onExit settles the start in  *)
(* progress, onPostReadyExit the current ready child; a stop that awaits   *)
(* this child is over.                                                     *)
Reaped(ents, k) ==
  [e \in Calls |-> IF ents[e].cur = k /\ ents[e].stop \in {"term", "kill"}
                   THEN [ents[e] EXCEPT !.stop = "done"] ELSE ents[e]]

(* Mutant: no listener for an exit after "ready".                          *)
ChildExitsUnseen(k, st) ==
  LET seen == call[k].st = "starting"
  IN /\ Alive(k)
     /\ child' = [child EXCEPT ![k] = "dead"]
     /\ call' = IF seen THEN [call EXCEPT ![k].st = st] ELSE call
     /\ entry' = Reaped(IF seen THEN Wired(entry, k, st) ELSE entry, k)
     /\ saved' = IF seen THEN RolledBack(k, st) ELSE saved
     /\ UNCHANGED canonical
ChildExits(k, st) ==
  LET seen == \/ call[k].st = "starting"
              \/ call[k].st = "ready" /\ entry[call[k].ent].cur = k
  IN /\ Alive(k)
     /\ child' = [child EXCEPT ![k] = "dead"]
     /\ call' = IF seen THEN [call EXCEPT ![k].st = st] ELSE call
     /\ entry' = Reaped(IF seen THEN Wired(entry, k, st) ELSE entry, k)
     /\ saved' = IF call[k].st = "starting" THEN RolledBack(k, st) ELSE saved
     /\ UNCHANGED canonical

(* The reconnect timer fires; an entry stopped or replaced is left alone.  *)
TimerFires(e, k) ==
  /\ entry[e].timer
  /\ IsNext(k)
  /\ entry' = [entry EXCEPT ![e].timer = FALSE]
  /\ call' = IF entry[e].down \/ canonical # e THEN call
             ELSE [call EXCEPT ![k] = Called(k, "timer", e, entry[e].conf)]
  /\ UNCHANGED <<saved, child, canonical>>

-----------------------------------------------------------------------------
(* stop().                                                                 *)

(* SIGTERM; a child already dead or already killed stays as it is.         *)
Signalled(k) == [child EXCEPT ![k] = IF @ = "live" THEN "term" ELSE @]

(* stop() up to its await, for the request then: no more reconnects, the   *)
(* probe is released and its start answers "stopped", the entry leaves the *)
(* map, the child gets SIGTERM unless it has an exit code.  A child killed *)
(* by a signal has none, so its stop waits like any other.                 *)
StopEntry(e, then, c) ==
  LET k == entry[e].cur
  IN /\ Cardinality({d \in Calls : entry[d].down}) < MaxStops
     /\ \E how \in {"done", "term"} :
          /\ how = "done" => ~Alive(k)
          /\ entry' = [entry EXCEPT ![e] = [@ EXCEPT !.timer = FALSE, !.down = TRUE,
                          !.stop = how, !.then = then, !.next = c]]
     /\ call' = [call EXCEPT ![k].st = "stopped"]
     /\ saved' = IF call[k].st = "starting" THEN RolledBack(k, "stopped") ELSE saved
     /\ child' = Signalled(k)
     /\ canonical' = 0

(* Mutant: stop() resolves three seconds after SIGTERM.                    *)
StopKillNever(e) ==
  /\ entry[e].stop = "term"
  /\ entry' = [entry EXCEPT ![e].stop = "done"]
  /\ UNCHANGED <<saved, call, child, canonical>>
(* Three seconds after SIGTERM: SIGKILL.                                   *)
StopKill(e) ==
  LET k == entry[e].cur
  IN /\ entry[e].stop = "term"
     /\ entry' = [entry EXCEPT ![e].stop = "kill"]
     /\ child' = [child EXCEPT ![k] = IF Alive(k) THEN "kill" ELSE @]
     /\ UNCHANGED <<saved, call, canonical>>

(* One second later stop() resolves whether the child is gone or not.      *)
StopGivesUp(e) ==
  /\ entry[e].stop = "kill"
  /\ entry' = [entry EXCEPT ![e].stop = "done"]
  /\ UNCHANGED <<saved, call, child, canonical>>

-----------------------------------------------------------------------------
(* Requests.  The lifecycle routes need the row in the rc file.            *)

(* Autostart, and POST /remote-servers/:id/tunnel/start.                   *)
Start(k) ==
  /\ saved # 0
  /\ Begin(k, "route", saved)
  /\ UNCHANGED <<saved, child, entry, canonical>>

(* POST /remote-servers, past the bootstrap: save, then start.  The id is  *)
(* new.                                                                    *)
Create(k) ==
  /\ saved = 0
  /\ \A j \in Calls : call[j].st = "idle"
  /\ saved' = 1
  /\ Begin(k, "create", 1)
  /\ UNCHANGED <<child, entry, canonical>>

(* POST .../tunnel/restart: no timer, the probe in progress is aborted and *)
(* its start ends in an error (which schedules a retry), SIGTERM, start.   *)
Restart(k) ==
  LET e == canonical
      old == entry[e].cur
      cleared == [entry EXCEPT ![e].timer = FALSE]
      probing == call[old].st = "starting"
  IN /\ saved # 0 /\ e # 0
     /\ IsNext(k)
     /\ call' = [call EXCEPT
           ![old].st = IF probing THEN "transient" ELSE @,
           ![k] = Called(k, "restart", 0, entry[e].conf)]
     /\ entry' = IF probing THEN Wired(cleared, old, "transient") ELSE cleared
     /\ saved' = IF probing THEN RolledBack(old, "transient") ELSE saved
     /\ child' = Signalled(old)
     /\ UNCHANGED <<canonical>>

(* POST .../tunnel/stop, and shutdown(), which stops every entry of the    *)
(* map whether it has a row or not.                                        *)
Stop ==
  /\ canonical # 0
  /\ StopEntry(canonical, "none", 0)

(* PATCH with a changed ssh field: stop, save, start.  The last two wait   *)
(* for the stop, if there is a tunnel.                                     *)
Patch(c) ==
  /\ saved # 0 /\ c # saved
  /\ canonical # 0
  /\ StopEntry(canonical, "patch", c)

PatchIdle(k, c) ==
  /\ saved # 0 /\ c # saved
  /\ canonical = 0
  /\ saved' = c
  /\ Begin(k, "route", c)
  /\ UNCHANGED <<child, entry, canonical>>

(* updateServer finds no row that another request deleted: 404.            *)
PatchResumes(e, k) ==
  /\ entry[e].stop = "done" /\ entry[e].then = "patch"
  /\ entry' = [entry EXCEPT ![e].then = "none"]
  /\ IF saved = 0 THEN UNCHANGED <<saved, call>>
     ELSE saved' = entry[e].next /\ Begin(k, "route", entry[e].next)
  /\ UNCHANGED <<child, canonical>>

(* DELETE: stop, then remove the row.                                      *)
Delete ==
  /\ saved # 0 /\ canonical # 0
  /\ StopEntry(canonical, "delete", 0)

DeleteIdle ==
  /\ saved # 0 /\ canonical = 0
  /\ saved' = 0
  /\ UNCHANGED <<call, child, entry, canonical>>

DeleteResumes(e) ==
  /\ entry[e].stop = "done" /\ entry[e].then = "delete"
  /\ entry' = [entry EXCEPT ![e].then = "none"]
  /\ saved' = 0
  /\ UNCHANGED <<call, child, canonical>>

-----------------------------------------------------------------------------
Next ==
  \/ \E k \in Calls : \/ Spawn(k) \/ SpawnFails(k)
                      \/ ProbeReady(k) \/ ProbeTimeout(k)
                      \/ Start(k) \/ Create(k) \/ Restart(k)
  \/ \E k \in Calls, st \in {"transient", "terminal"} : ChildExits(k, st)
  \/ \E e, k \in Calls : TimerFires(e, k) \/ PatchResumes(e, k)
  \/ \E e \in Calls : StopKill(e) \/ StopGivesUp(e) \/ DeleteResumes(e)
  \/ \E c \in 1..MaxConf : Patch(c) \/ \E k \in Calls : PatchIdle(k, c)
  \/ Stop \/ Delete \/ DeleteIdle

(* Ports are found, the gate has a budget, timers expire, handlers resume. *)
(* Nothing is assumed of ssh or of the user.                               *)
Fairness ==
  /\ \A k \in Calls : /\ WF_vars(Spawn(k) \/ SpawnFails(k))
                      /\ WF_vars(ProbeTimeout(k))
  /\ \A e \in Calls : /\ WF_vars(\E k \in Calls : TimerFires(e, k))
                      /\ WF_vars(StopKill(e))
                      /\ WF_vars(StopGivesUp(e))

Spec == Init /\ [][Next]_vars /\ Fairness

-----------------------------------------------------------------------------
(* Safety.                                                                 *)

Current == entry[canonical].cur   \* the start whose child is on show
Queued == \E k \in Calls : call[k].st = "port"
(* A restart after the start k threw: its caller got the error, the timer  *)
(* it cleared is not set again.                                            *)
GaveUp(k) ==
  \E j \in Calls : j > k /\ call[j].st = "threw" /\ call[j].by = "restart"

(* A pending reconnect timer belongs to the entry in the map, and a        *)
(* stopped entry has none: whatever starts overlap, their late failures    *)
(* re-arm nothing once stop() has run.                                     *)
TimersAreWanted ==
  \A e \in Calls : entry[e].timer => canonical = e /\ ~entry[e].down

(* The tunnel the API calls ready has a running ssh, across overlapping    *)
(* starts, exits of older children, and restarts.                          *)
ReadyIsUp ==
  canonical # 0 /\ call[Current].st = "ready" => Alive(Current)

(* When no start is queued, a tunnel started by a route runs with the      *)
(* saved configuration, whatever requests overlapped: the port queue keeps *)
(* the starts in the order in which they read the row.  A restart or retry *)
(* copies the entry and may overtake a PATCH.                              *)
ConfIsSaved ==
  /\ canonical # 0 /\ saved # 0 /\ ~Queued
  /\ call[Current].by \in {"route", "create"}
  /\ \A k \in Calls : ~(call[k].st = "threw" /\ call[k].by = "route")
  => entry[canonical].conf = saved

(* When stop() resolves, the child it was called for is dead or has got    *)
(* SIGKILL, even if that child died by a signal before.                    *)
StopReaps ==
  \A e \in Calls : entry[e].stop = "done" =>
    child[entry[e].cur] \in {"dead", "kill"}

-----------------------------------------------------------------------------
(* Liveness.                                                               *)

(* Every start is answered: the port queue moves on and the gate ends,     *)
(* though starts overtake each other's children and entries.               *)
StartsAnswer ==
  (\E k \in Calls : call[k].st \in {"port", "starting"}) ~>
    (\A k \in Calls : call[k].st \notin {"port", "starting"})

(* A transient error is followed by another attempt, a stop, or the bound. *)
Waiting == canonical # 0 /\ call[Current].st = "transient"
Retries ==
  Waiting ~> ~Waiting \/ GaveUp(Current)
                      \/ \A k \in Calls : call[k].st # "idle"

=============================================================================
