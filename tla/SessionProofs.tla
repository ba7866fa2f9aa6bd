----------------------------- MODULE SessionProofs -----------------------------
(***************************************************************************)
(* The tracker implements the promise of Session, for any set of requests  *)
(* and any capacities: each step of ProcessTracker is a step of Session or *)
(* leaves its four variables alone.                                        *)
(***************************************************************************)
EXTENDS ProcessTrackerProofs

\* A process is started once, by a task that has announced it, and its end is
\* reported only after it has exited.
ChildInv ==
  \A r \in Req : /\ pc[r] \in Early \cup {"launching"} => child[r] = "none"
                 /\ pc[r] \in {"reporting", "reported", "unreported"} => child[r] = "exited"

\* What the counter tells the portal about follows a message it has counted.
PortalInv == counter = "portal" => \E r \in Req : ledger[r] # "new"

SInv == IInv /\ ChildInv /\ PortalInv

LEMMA ChildInit == Init => ChildInv /\ PortalInv
BY DEF Init, ChildInv, PortalInv

LEMMA PortalStep == TypeOK /\ PortalInv /\ [Next]_vars => PortalInv'
<1> SUFFICES ASSUME TypeOK, PortalInv, [Next]_vars PROVE PortalInv'
  OBVIOUS
<1>1. CASE CounterReceives
  <2>1. Head(countQ).req \in Req
    BY <1>1, TailIndexed, Messages DEF CounterReceives, TypeOK
  <2>2. ledger'[Head(countQ).req] \in {"up", "down"}
    BY <1>1, <2>1 DEF CounterReceives, TypeOK
  <2> QED BY <2>1, <2>2 DEF PortalInv
<1>2. CASE counter' # "portal"
  BY <1>2 DEF PortalInv
<1>3. CASE UNCHANGED <<counter, ledger>>
  BY <1>3 DEF PortalInv
<1>4. ASSUME ~CounterReceives PROVE counter' # "portal" \/ UNCHANGED <<counter, ledger>>
  BY <1>4 DEF Next, StartFirst, Submit, SpawnerReceives, SpawnerReturns, ReplacerReturns, Task,
     CheckToken, Rewrite, Announce, Launch, Reap, StopWaiting, Report, ChildExits, Publish,
     Listen, Signal, SeeToken, RequestShutdown, DropTask, Exit, Ended, vars, counting,
     Initialise, PortalReplies, LeaveAtZero, CounterReturns
<1> QED BY <1>1, <1>2, <1>3, <1>4

LEMMA ChildStep == TypeOK /\ SpawnQInv /\ StartInv /\ ChildInv /\ [Next]_vars => ChildInv'
<1> SUFFICES ASSUME TypeOK, SpawnQInv, StartInv, ChildInv, [Next]_vars PROVE ChildInv'
  OBVIOUS
<1> USE DEF Early, ChildInv, Goto
<1>0. pc \in [Req -> PC] /\ child \in [Req -> Child]
  BY DEF TypeOK
<1>1. CASE StartFirst
  <2>1. First \in Req /\ pc[First] = "idle"
    BY <1>1, ReqAssumption DEF StartFirst, StartInv
  <2> QED BY <1>0, <1>1, <2>1 DEF StartFirst, Enqueue
<1>2. ASSUME NEW r \in Req, Submit(r) PROVE ChildInv'
  BY <1>0, <1>2 DEF Submit, Enqueue
<1>3. CASE SpawnerReceives
  <2>1. Head(spawnQ) \in Req /\ pc[Head(spawnQ)] = "queued"
    BY <1>3, HeadQueued DEF SpawnerReceives
  <2> QED BY <1>0, <1>3, <2>1 DEF SpawnerReceives
<1>4. CASE SpawnerReturns
  BY <1>0, <1>4 DEF SpawnerReturns
<1>5. ASSUME NEW r \in Req, CheckToken(r) \/ Rewrite(r) \/ Announce(r) \/ Reap(r) \/ Report(r)
      PROVE  ChildInv'
  BY <1>0, <1>5 DEF CheckToken, Rewrite, Announce, SendStart, Reap, Report, SendDeath
<1>6. ASSUME NEW r \in Req, Launch(r) PROVE ChildInv'
  BY <1>0, <1>6 DEF Launch, FailLaunch, tasks
<1>7. ASSUME NEW r \in Req, StopWaiting(r) \/ DropTask(r) PROVE ChildInv'
  BY <1>0, <1>7 DEF StopWaiting, DropTask, DropChild
<1>8. ASSUME NEW r \in Req, ChildExits(r) PROVE ChildInv'
  BY <1>0, <1>8 DEF ChildExits
<1>9. CASE UNCHANGED tasks
  BY <1>9 DEF tasks
<1>10. ASSUME \/ ReplacerReturns \/ Initialise \/ CounterReceives \/ PortalReplies \/ CounterReturns
              \/ Publish \/ Listen \/ Signal \/ SeeToken \/ RequestShutdown \/ Exit \/ Ended
              \/ UNCHANGED vars
       PROVE  UNCHANGED tasks
  BY <1>10 DEF ReplacerReturns, Initialise, CounterReceives, PortalReplies, CounterReturns,
     Publish, Listen, Signal, SeeToken, RequestShutdown, Exit, Ended, vars
<1> QED
  BY <1>1, <1>2, <1>3, <1>4, <1>5, <1>6, <1>7, <1>8, <1>9, <1>10 DEF Next, Task

-----------------------------------------------------------------------------
(* The mapping. *)

LEMMA PhaseIs ==
  ASSUME TypeOK
  PROVE  /\ Phase = "crashed" <=> main = "dead"
         /\ Phase = "closed" <=> main = "exited"
         /\ Phase = "closing" <=> Running /\ cancelled
         /\ Phase = "open" <=> Running /\ ~cancelled
BY DEF Phase, Running, TypeOK

LEMMA InitMaps == Init => Promise!Init
BY DEF Init, Promise!Init, Phase, Running

\* The steps Session has no part in.
LEMMA Stutters ==
  ASSUME UNCHANGED <<ledger, child, signalled, cancelled>>, Running, Running'
  PROVE  UNCHANGED Promise!vars
BY DEF Promise!vars, Phase, Running

LEMMA KillMaps ==
  ASSUME TypeOK, NEW r \in Req, cancelled, Running, DropChild(r), pc[r] \in AtAwait, AliveInv,
         UNCHANGED <<ledger, signalled, cancelled, main>>
  PROVE  [Promise!Next]_Promise!vars
<1>1. Phase = "closing" /\ UNCHANGED Phase
  BY PhaseIs DEF Phase, Running
<1>2. CASE child[r] = "alive"
  <2>1. Promise!Kill(r)
    BY <1>1, <1>2 DEF DropChild, Promise!Kill
  <2> QED BY <2>1 DEF Promise!Next
<1>3. CASE child[r] # "alive"
  <2>1. child' = child
    BY <1>3 DEF DropChild, TypeOK
  <2> QED BY <1>1, <2>1 DEF Promise!vars
<1> QED BY <1>2, <1>3

LEMMA CrashMaps ==
  ASSUME TypeOK, Running, main' = "dead", UNCHANGED <<ledger, child>>, signalled' \in {signalled, TRUE}
  PROVE  [Promise!Next]_Promise!vars
<1>1. Promise!Up
  BY PhaseIs DEF Promise!Up, TypeOK
<1>2. Phase' = "crashed"
  BY DEF Phase, Running
<1>3. Promise!Crash
  BY <1>1, <1>2 DEF Promise!Crash
<1> QED BY <1>3 DEF Promise!Next

LEMMA StepMaps == SInv /\ SInv' /\ [Next]_vars => [Promise!Next]_Promise!vars
<1> SUFFICES ASSUME SInv, SInv', [Next]_vars PROVE [Promise!Next]_Promise!vars
  OBVIOUS
<1>0. TypeOK /\ TypeOK' /\ AliveInv /\ CancelInv
  BY DEF SInv, IInv
<1>up. Running => Promise!Up
  BY <1>0, PhaseIs DEF Promise!Up, TypeOK
<1> USE DEF tasks, services, counting, ending
<1>1. CASE StartFirst \/ (\E r \in Req : Submit(r)) \/ SpawnerReceives \/ SpawnerReturns \/ ReplacerReturns
           \/ Initialise \/ CounterReturns \/ Listen \/ RequestShutdown
  <2>1. UNCHANGED <<ledger, child, signalled, cancelled>> /\ Running /\ Running'
    BY <1>1 DEF StartFirst, Enqueue, Submit, SpawnerReceives, SpawnerReturns, ReplacerReturns,
       Initialise, CounterReturns, Listen, RequestShutdown, Running
  <2> QED BY <2>1, Stutters
<1>2. ASSUME NEW r \in Req, CheckToken(r) \/ Rewrite(r) \/ Reap(r) \/ Report(r)
      PROVE  [Promise!Next]_Promise!vars
  <2>1. UNCHANGED <<ledger, child, signalled, cancelled>> /\ Running /\ Running'
    BY <1>2 DEF CheckToken, Rewrite, Reap, Report, Running
  <2> QED BY <2>1, Stutters
<1>3. ASSUME NEW r \in Req, Announce(r) PROVE [Promise!Next]_Promise!vars
  <2>1. UNCHANGED <<ledger, child, signalled, cancelled>> /\ Running /\ (UNCHANGED main \/ main' = "dead")
    BY <1>3 DEF Announce
  <2>2. CASE UNCHANGED main
    BY <2>1, <2>2, Stutters DEF Running
  <2>3. CASE main' = "dead"
    BY <1>0, <2>1, <2>3, CrashMaps
  <2> QED BY <2>1, <2>2, <2>3
<1>4. ASSUME NEW r \in Req, Launch(r) PROVE [Promise!Next]_Promise!vars
  <2>1. Running /\ pc[r] = "launching" /\ UNCHANGED <<ledger, cancelled, signalled>>
    BY <1>4 DEF Launch
  <2>2. CASE child' = [child EXCEPT ![r] = "alive"] /\ UNCHANGED main
    <3>1. child[r] = "none" /\ UNCHANGED Phase
      BY <2>1, <2>2 DEF SInv, ChildInv, Phase, Running
    <3>2. Promise!Start(r)
      BY <1>up, <2>1, <2>2, <3>1 DEF Promise!Start
    <3> QED BY <3>2 DEF Promise!Next
  <2>3. CASE FailLaunch(r)
    BY <1>0, <2>1, <2>3, CrashMaps DEF FailLaunch
  <2> QED BY <1>4, <2>2, <2>3 DEF Launch
<1>5. ASSUME NEW r \in Req, ChildExits(r) PROVE [Promise!Next]_Promise!vars
  <2>1. UNCHANGED Phase
    BY <1>5 DEF ChildExits, Phase, Running
  <2>2. Promise!Finish(r)
    BY <1>5, <1>up, <2>1 DEF ChildExits, Promise!Finish
  <2> QED BY <2>2 DEF Promise!Next
<1>6. ASSUME NEW r \in Req, StopWaiting(r) PROVE [Promise!Next]_Promise!vars
  BY <1>0, <1>6, KillMaps DEF StopWaiting, AtAwait
<1>7. ASSUME NEW r \in Req, DropTask(r) PROVE [Promise!Next]_Promise!vars
  <2>1. cancelled /\ Running
    BY <1>0, <1>7 DEF DropTask, CancelInv, Running
  <2> QED BY <1>0, <1>7, <2>1, KillMaps DEF DropTask
<1>8. CASE CounterReceives
  <2> DEFINE m == countQ[1]
             r == m.req
  <2>1. /\ Running /\ countQ # <<>> /\ UNCHANGED <<child, signalled, main, cancelled>>
        /\ ledger' = [ledger EXCEPT ![Head(countQ).req] =
                        IF Head(countQ).kind = "ProcessStarted" THEN "up" ELSE "down"]
    BY <1>8 DEF CounterReceives
  <2>2. Head(countQ) = m /\ m \in Message /\ 1 \in 1 .. Len(countQ)
    BY <1>0, <2>1, TailIndexed DEF TypeOK
  <2>3. r \in Req /\ m.kind \in {"ProcessStarted", "ProcessDied"}
    BY <2>2, Messages
  <2>4. UNCHANGED Phase
    BY <2>1 DEF Phase, Running
  <2>5. CASE m.kind = "ProcessStarted"
    <3>1. ledger[r] = "new"
      BY <2>2, <2>5 DEF SInv, IInv, QInv, StartQInv
    <3>2. Promise!CountUp(r)
      BY <1>up, <2>1, <2>2, <2>4, <2>5, <3>1 DEF Promise!CountUp
    <3> QED BY <2>3, <3>2 DEF Promise!Next
  <2>6. CASE m.kind = "ProcessDied"
    <3>1. pc[r] = "reported" /\ ledger[r] = "up"
      BY <2>2, <2>6 DEF SInv, IInv, QInv, DeathQInv
    <3>2. child[r] = "exited"
      BY <2>3, <3>1 DEF SInv, ChildInv
    <3>3. Promise!CountDown(r)
      BY <1>up, <2>1, <2>2, <2>4, <2>6, <3>1, <3>2 DEF Promise!CountDown
    <3> QED BY <2>3, <3>3 DEF Promise!Next
  <2> QED BY <2>3, <2>5, <2>6
<1>9. CASE PortalReplies
  <2>1. /\ Running /\ counter = "portal" /\ cancelled' = (cancelled \/ count = 0)
        /\ UNCHANGED <<ledger, child, signalled, main>>
    BY <1>9 DEF PortalReplies, LeaveAtZero
  <2>2. CASE cancelled \/ count # 0
    <3>1. cancelled' = cancelled /\ Running'
      BY <1>0, <2>1, <2>2 DEF Running, TypeOK
    <3> QED BY <2>1, <3>1, Stutters
  <2>3. CASE ~cancelled /\ count = 0
    <3>1. Tracked = {}
      BY <2>3, TrackedFinite, FS_EmptySet DEF SInv, IInv, CountIsTracked
    <3>2. \A r \in Req : ledger[r] # "up"
      BY <3>1 DEF Tracked
    <3>3. \E r \in Req : ledger[r] = "down"
      BY <1>0, <2>1, <3>2 DEF SInv, PortalInv, TypeOK
    <3>4. Phase = "open" /\ Phase' = "closing"
      BY <1>0, <2>1, <2>3, PhaseIs DEF Phase, Running
    <3>5. Promise!CloseEmpty
      BY <2>1, <3>2, <3>3, <3>4 DEF Promise!CloseEmpty
    <3> QED BY <3>5 DEF Promise!Next
  <2> QED BY <2>2, <2>3
<1>10. CASE Publish
  <2>1. UNCHANGED <<ledger, child, signalled, cancelled>> /\ Running /\ (Running' \/ main' = "dead")
    BY <1>10 DEF Publish, Running
  <2> QED BY <1>0, <2>1, Stutters, CrashMaps
<1>11. CASE Signal
  <2>1. Running /\ signalled' = TRUE /\ UNCHANGED <<ledger, child>>
    BY <1>11 DEF Signal, Running
  <2>2. CASE main = "serving"
    <3>1. cancelled' = TRUE /\ main' = "stopping"
      BY <1>11, <2>2 DEF Signal
    <3>2. Phase' = "closing"
      BY <3>1 DEF Phase, Running
    <3>3. Promise!CloseOnSignal
      BY <1>up, <2>1, <3>2 DEF Promise!CloseOnSignal
    <3> QED BY <3>3 DEF Promise!Next
  <2>3. CASE main # "serving"
    BY <1>0, <1>11, <2>1, <2>3, CrashMaps DEF Signal
  <2> QED BY <2>2, <2>3
<1>12. CASE SeeToken
  <2>1. UNCHANGED <<ledger, child, signalled, cancelled>> /\ Running /\ Running'
    BY <1>12 DEF SeeToken, Running
  <2> QED BY <2>1, Stutters
<1>13. CASE Exit
  <2>1. /\ main = "teardown" /\ main' = "exited" /\ UNCHANGED <<ledger, child, signalled>>
        /\ \A r \in Req : pc[r] \notin AtAwait
    BY <1>13 DEF Exit
  <2>2. Phase = "closing" /\ Phase' = "closed"
    BY <1>0, <2>1, PhaseIs DEF CancelInv, Phase, Running
  <2>3. \A r \in Req : child[r] # "alive"
    BY <1>0, <2>1 DEF AliveInv, AtAwait
  <2>4. Promise!Close
    BY <2>1, <2>2, <2>3 DEF Promise!Close
  <2> QED BY <2>4 DEF Promise!Next
<1>14. CASE UNCHANGED vars
  BY <1>14 DEF vars, Promise!vars, Phase, Running
<1> QED
  BY <1>1, <1>2, <1>3, <1>4, <1>5, <1>6, <1>7, <1>8, <1>9, <1>10, <1>11, <1>12, <1>13, <1>14
  DEF Next, Task, Ended

\* Init closes the session only at a count of zero or on a signal, counts down only
\* after an exit, kills only while closing, and ends in order with no process left:
\* the tracker implements Session (SessionKept).
THEOREM Refines == Spec => SessionKept
<1>1. Init => SInv
  BY InvInit, ChildInit DEF SInv
<1>2. SInv /\ [Next]_vars => SInv'
  BY InvStep, ChildStep, PortalStep DEF SInv, IInv, QInv
<1> QED BY <1>1, <1>2, InitMaps, StepMaps, PTL DEF Spec, SessionKept, Promise!Spec
=============================================================================
