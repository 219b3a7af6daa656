----------------------------- MODULE ChatLife -----------------------------
(***************************************************************************)
(* What the daemon promises of a chat that a provider limit has parked:    *)
(* its row goes from idle over parked to running and back, a parked row is *)
(* woken, and it is replayed once at a time.  Nothing is said of sessions, *)
(* claims or turns; ChatExecutor implements this.                          *)
(***************************************************************************)

VARIABLES
  daemon,     \* the process: up, draining or down
  row,        \* column status of the chat
  waking,     \* something will look at the row: a timer, or a wake-up called
  replaying,  \* a replay is in progress
  stopped     \* Stop came after the last park
vars == <<daemon, row, waking, replaying, stopped>>

Init ==
  /\ daemon = "up" /\ row = "idle"
  /\ waking = FALSE /\ replaying = FALSE /\ stopped = FALSE

(* A turn of the user, or the replay itself, runs into a limit.            *)
Park ==
  /\ daemon # "down"
  /\ row' = "rate_limited" /\ waking' = TRUE /\ stopped' = FALSE
  /\ replaying' \in {replaying, FALSE}
  /\ UNCHANGED daemon

Replay ==
  /\ daemon # "down" /\ waking /\ row = "rate_limited" /\ ~replaying
  /\ row' = "running" /\ replaying' = TRUE /\ waking' \in BOOLEAN
  /\ UNCHANGED <<daemon, stopped>>

ReplayEnds ==
  /\ daemon # "down" /\ replaying
  /\ row' = "idle" /\ replaying' = FALSE
  /\ UNCHANGED <<daemon, waking, stopped>>

(* A wake-up is given up: there is nothing to wake, a replay sees to the   *)
(* row, or the user does not want it.                                      *)
GiveUp ==
  /\ daemon # "down" /\ waking' = FALSE
  /\ row # "rate_limited" \/ replaying \/ stopped'
  /\ stopped' \in {stopped, TRUE}
  /\ UNCHANGED <<daemon, row, replaying>>

(* Stop finds no timer to clear, or a wake-up that is already called.      *)
Stop == daemon # "down" /\ stopped' = TRUE /\ UNCHANGED <<daemon, row, waking, replaying>>

Shutdown ==
  /\ daemon = "up" /\ daemon' = "draining"
  /\ waking' \in {waking, FALSE} /\ UNCHANGED <<row, replaying, stopped>>

Dies ==
  /\ daemon # "down" /\ daemon' = "down"
  /\ waking' = FALSE /\ replaying' = FALSE
  /\ UNCHANGED <<row, stopped>>

Boot ==
  /\ daemon = "down" /\ daemon' = "up"
  /\ row' = IF row = "running" THEN "idle" ELSE row
  /\ waking' = (row = "rate_limited") /\ replaying' = FALSE /\ stopped' = FALSE

Next == Park \/ Replay \/ ReplayEnds \/ GiveUp \/ Stop \/ Shutdown \/ Dies \/ Boot

Spec == Init /\ [][Next]_vars
=============================================================================
