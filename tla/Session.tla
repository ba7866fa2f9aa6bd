------------------------------- MODULE Session -------------------------------
(***************************************************************************)
(* What a sandbox session promises, without channels, tasks or a counter:  *)
(* it closes itself only when it counts nothing any more, counts a request *)
(* down only after the request's process has exited, kills a process only  *)
(* while it is closing, and ends in order only when no process is left.    *)
(***************************************************************************)
CONSTANT Req

VARIABLES
  phase,      \* "open", "closing", "closed", or "crashed" when Init is killed
  ledger,     \* whether a request is not yet, now, or no longer counted
  child,      \* the process started for a request
  signalled   \* whether SIGINT or SIGTERM has arrived

vars == <<phase, ledger, child, signalled>>

Up == phase \in {"open", "closing"}

Init ==
  /\ phase = "open"
  /\ ledger = [r \in Req |-> "new"]
  /\ child = [r \in Req |-> "none"]
  /\ signalled = FALSE

CountUp(r) ==
  /\ Up
  /\ ledger[r] = "new" /\ ledger' = [ledger EXCEPT ![r] = "up"]
  /\ UNCHANGED <<phase, child, signalled>>

Start(r) ==
  /\ Up
  /\ child[r] = "none" /\ child' = [child EXCEPT ![r] = "alive"]
  /\ UNCHANGED <<phase, ledger, signalled>>

Finish(r) ==
  /\ Up
  /\ child[r] = "alive" /\ child' = [child EXCEPT ![r] = "exited"]
  /\ UNCHANGED <<phase, ledger, signalled>>

CountDown(r) ==
  /\ Up
  /\ child[r] = "exited"
  /\ ledger[r] = "up" /\ ledger' = [ledger EXCEPT ![r] = "down"]
  /\ UNCHANGED <<phase, child, signalled>>

\* The last counted request was counted down.
CloseEmpty ==
  /\ phase = "open" /\ phase' = "closing"
  /\ \A r \in Req : ledger[r] # "up"
  /\ \E r \in Req : ledger[r] = "down"
  /\ UNCHANGED <<ledger, child, signalled>>

CloseOnSignal ==
  /\ Up /\ phase' = "closing"
  /\ signalled' = TRUE
  /\ UNCHANGED <<ledger, child>>

Kill(r) ==
  /\ phase = "closing"
  /\ child[r] = "alive" /\ child' = [child EXCEPT ![r] = "killed"]
  /\ UNCHANGED <<phase, ledger, signalled>>

Close ==
  /\ phase = "closing" /\ phase' = "closed"
  /\ \A r \in Req : child[r] # "alive"
  /\ UNCHANGED <<ledger, child, signalled>>

\* Init is killed, by itself (log_fatal) or by a signal it does not listen for yet.
Crash ==
  /\ Up /\ phase' = "crashed"
  /\ signalled' \in {signalled, TRUE}
  /\ UNCHANGED <<ledger, child>>

Next ==
  \/ \E r \in Req : CountUp(r) \/ Start(r) \/ Finish(r) \/ CountDown(r) \/ Kill(r)
  \/ CloseEmpty \/ CloseOnSignal \/ Close \/ Crash

Spec == Init /\ [][Next]_vars
=============================================================================
