------------------------- MODULE ProcessTrackerProofs -------------------------
(***************************************************************************)
(* Proofs about ProcessTracker for any set of requests and any capacities. *)
(* The count is the cardinality of a set of requests only because every    *)
(* request is counted up at most once, and down at most once and later;    *)
(* the counter's messages do not name their request, so the argument       *)
(* follows each request through both channels.                             *)
(***************************************************************************)
EXTENDS ProcessTracker, FiniteSetTheorems, TLAPS

\* A task that has not sent its start, and one that has not sent its death since.
Early == {"idle", "refused", "queued", "lost", "begun", "skipped", "rewriting",
          "unwritten", "announcing", "unannounced"}
Owing == {"launching", "waiting", "reporting"}

\* The spawner's channel holds each queued request once.
SpawnQInv ==
  /\ \A i \in 1 .. Len(spawnQ) : pc[spawnQ[i]] = "queued"
  /\ \A i, j \in 1 .. Len(spawnQ) : spawnQ[i] = spawnQ[j] => i = j

\* The counter's channel holds a start before it is counted, a death after its
\* start, and each of them once.
StartQInv ==
  \A i \in 1 .. Len(countQ) : countQ[i].kind = "ProcessStarted" =>
    pc[countQ[i].req] \notin Early /\ ledger[countQ[i].req] = "new"
DeathQInv ==
  \A i \in 1 .. Len(countQ) : countQ[i].kind = "ProcessDied" =>
    /\ pc[countQ[i].req] = "reported"
    /\ \/ ledger[countQ[i].req] = "up"
       \/ \E j \in 1 .. i - 1 : countQ[j] = ProcessStarted(countQ[i].req)
OnceQInv == \A i, j \in 1 .. Len(countQ) : countQ[i] = countQ[j] => i = j

\* What the ledger holds of a task that has yet to send its start, or its death.
LedgerInv ==
  \A r \in Req : /\ pc[r] \in Early => ledger[r] = "new"
                 /\ pc[r] \in Owing => ledger[r] # "down"

\* While the counter lives, what a task has sent is counted or on its way.
SentInv ==
  counter # "returned" =>
    \A r \in Req :
      /\ pc[r] \in Owing => ledger[r] = "up" \/ Queued(ProcessStarted(r))
      /\ pc[r] = "reported" => ledger[r] = "down" \/ Queued(ProcessDied(r))

\* A running process has a task that waits for it.
AliveInv == \A r \in Req : child[r] = "alive" => pc[r] = "waiting"

\* Who gives up, gives up after the cancellation.
CancelInv ==
  /\ counter \in {"leaving", "returned"} => cancelled
  /\ counter = "returned" => countQ = <<>>
  /\ main \in {"stopping", "teardown", "exited"} => cancelled
  /\ \A r \in Req : pc[r] \in {"dropped", "unreported"} => cancelled

\* Nothing has been requested before main makes the first request.
StartInv == main = "starting" => spawnQ = <<>> /\ \A r \in Req : pc[r] = "idle"

\* An orderly end has no task left at an .await.
ExitInv == main = "exited" => \A r \in Req : pc[r] \notin AtAwait

QInv == SpawnQInv /\ StartQInv /\ DeathQInv /\ OnceQInv /\ LedgerInv /\ SentInv
IInv == TypeOK /\ QInv /\ StartInv /\ CancelInv /\ AliveInv /\ ExitInv /\ CountIsTracked

-----------------------------------------------------------------------------
(* Channels. *)

\* What Append does to a channel.
LEMMA AppendIndexed ==
  ASSUME NEW S, NEW q \in Seq(S), NEW m \in S
  PROVE  /\ Append(q, m) \in Seq(S)
         /\ Len(q) \in Nat /\ Len(Append(q, m)) = Len(q) + 1
         /\ \A i \in 1 .. Len(q) : Append(q, m)[i] = q[i] /\ q[i] \in S
         /\ Append(q, m)[Len(q) + 1] = m
OBVIOUS

\* Sending to a channel with room keeps its capacity.
LEMMA SendBounded ==
  ASSUME NEW S, NEW q \in Seq(S), NEW m \in S, NEW cap \in Nat, NEW new,
         Len(q) <= cap,
         \/ new = q
         \/ Len(q) < cap /\ new = Append(q, m)
  PROVE  new \in Seq(S) /\ Len(new) <= cap
BY AppendIndexed

\* What receiving does to a channel.
LEMMA TailIndexed ==
  ASSUME NEW S, NEW q \in Seq(S), q # <<>>
  PROVE  /\ Tail(q) \in Seq(S) /\ Head(q) \in S
         /\ Len(q) \in Nat \ {0} /\ Len(Tail(q)) = Len(q) - 1
         /\ Head(q) = q[1]
         /\ \A i \in 1 .. Len(q) : q[i] \in S
         /\ \A i \in 1 .. Len(q) - 1 : Tail(q)[i] = q[i + 1]
OBVIOUS

-----------------------------------------------------------------------------
(* Types. *)

\* The state a task is sent to is one of PC.
LEMMA GotoType ==
  ASSUME NEW r \in Req, NEW where \in PC, pc \in [Req -> PC], Goto(r, where)
  PROVE  pc' \in [Req -> PC]
BY DEF Goto

LEMMA TellType ==
  ASSUME NEW s \in Subsystem, NEW status \in Status,
         shown \in [Subsystem -> Status], Tell(s, status)
  PROVE  shown' \in [Subsystem -> Status]
BY DEF Tell

LEMMA TypeInit == Init => TypeOK
<1> SUFFICES ASSUME Init PROVE TypeOK
  OBVIOUS
<1>1. pc \in [Req -> PC] /\ child \in [Req -> Child] /\ ledger \in [Req -> {"new", "up", "down"}]
  BY DEF Init, PC, Child
<1>2. shown \in [Subsystem -> Status]
  BY ReqAssumption DEF Init, Status
<1>3. /\ spawnQ \in Seq(Req) /\ Len(spawnQ) <= SpawnCap
      /\ countQ \in Seq(Message) /\ Len(countQ) <= CountCap
  BY CapAssumption DEF Init
<1>4. count \in 0 .. UsizeMax
  BY ReqAssumption DEF Init
<1>5. cancelled \in BOOLEAN /\ signalled \in BOOLEAN
  BY DEF Init
<1> QED BY <1>1, <1>2, <1>3, <1>4, <1>5 DEF Init, TypeOK

\* Every step keeps the types: the channels stay within their capacity.
LEMMA TypeStep == TypeOK /\ [Next]_vars => TypeOK'
<1> SUFFICES ASSUME TypeOK, [Next]_vars PROVE TypeOK'
  OBVIOUS
<1> USE ReqAssumption, CapAssumption DEF TypeOK
<1>pc. AtAwait \subseteq PC /\ {"idle", "refused", "queued", "lost", "skipped", "unwritten",
         "unannounced", "launching", "dropped", "reported", "unreported"} \subseteq PC
  BY DEF PC
<1>await. AtAwait = {"begun", "rewriting", "announcing", "waiting", "reporting"}
  BY DEF AtAwait
<1>child. Child = {"none", "alive", "exited", "killed"}
  BY DEF Child
<1>1. CASE StartFirst
  BY <1>1, <1>pc, GotoType DEF StartFirst, Enqueue, counting, Goto
<1>2. ASSUME NEW r \in Req, Submit(r) PROVE TypeOK'
  <2>1. /\ \/ UNCHANGED spawnQ
           \/ Len(spawnQ) < SpawnCap /\ spawnQ' = Append(spawnQ, r)
        /\ pc' \in [Req -> PC]
        /\ UNCHANGED <<child, spawner, replacer, counting, ending>>
    BY <1>2, <1>pc, GotoType DEF Submit, Enqueue
  <2>2. spawnQ' \in Seq(Req) /\ Len(spawnQ') <= SpawnCap
    BY <2>1, SendBounded
  <2> QED BY <2>1, <2>2 DEF counting, ending
<1>3. CASE SpawnerReceives
  <2>1. Head(spawnQ) \in Req /\ Tail(spawnQ) \in Seq(Req) /\ Len(Tail(spawnQ)) <= SpawnCap
    BY <1>3, TailIndexed DEF SpawnerReceives
  <2> QED BY <1>3, <2>1, <1>pc, <1>await DEF SpawnerReceives, counting, ending, Goto
<1>4. CASE SpawnerReturns
  BY <1>4, <1>pc DEF SpawnerReturns, counting, ending
<1>5. CASE ReplacerReturns
  BY <1>5 DEF ReplacerReturns, tasks, counting, ending
<1>6. ASSUME NEW r \in Req, Task(r) PROVE TypeOK'
  <2>1. CASE CheckToken(r)
    BY <2>1, <1>pc, <1>await DEF CheckToken, Goto, services, counting, ending
  <2>2. CASE Rewrite(r)
    BY <2>2, <1>pc, <1>await DEF Rewrite, Goto, services, counting, ending
  <2>3. CASE Announce(r)
    <3>1. ProcessStarted(r) \in Message
      BY DEF ProcessStarted, Message
    <3>2. /\ \/ UNCHANGED countQ
             \/ Len(countQ) < CountCap /\ countQ' = Append(countQ, ProcessStarted(r))
          /\ pc' \in [Req -> PC] /\ main' \in {main, "dead"}
          /\ UNCHANGED <<child, services, counter, count, shown, ledger, cancelled, signalled>>
      BY <2>3, <1>pc, GotoType DEF Announce, SendStart
    <3>3. countQ' \in Seq(Message) /\ Len(countQ') <= CountCap
      BY <3>1, <3>2, SendBounded
    <3> QED BY <3>2, <3>3 DEF services
  <2>4. CASE Launch(r)
    BY <2>4, <1>pc, <1>await, <1>child DEF Launch, FailLaunch, Goto, tasks, services, counting
  <2>5. CASE Reap(r)
    BY <2>5, <1>pc, <1>await DEF Reap, Goto, services, counting, ending
  <2>6. CASE StopWaiting(r)
    BY <2>6, <1>pc, <1>child DEF StopWaiting, DropChild, Goto, services, counting, ending
  <2>7. CASE Report(r)
    <3>1. ProcessDied(r) \in Message
      BY DEF ProcessDied, Message
    <3>2. /\ \/ UNCHANGED countQ
             \/ Len(countQ) < CountCap /\ countQ' = Append(countQ, ProcessDied(r))
          /\ pc' \in [Req -> PC]
          /\ UNCHANGED <<child, services, counter, count, shown, ledger, ending>>
      BY <2>7, <1>pc, GotoType DEF Report, SendDeath
    <3>3. countQ' \in Seq(Message) /\ Len(countQ') <= CountCap
      BY <3>1, <3>2, SendBounded
    <3> QED BY <3>2, <3>3 DEF services, ending
  <2> QED BY <1>6, <2>1, <2>2, <2>3, <2>4, <2>5, <2>6, <2>7 DEF Task
<1>7. ASSUME NEW r \in Req, ChildExits(r) PROVE TypeOK'
  BY <1>7, <1>child DEF ChildExits, services, counting, ending
<1>8. CASE Initialise
  <2>1. shown' \in [Subsystem -> Status]
    BY <1>8, TellType DEF Initialise, Subsystem, Status
  <2> QED BY <1>8, <2>1 DEF Initialise, tasks, services, ending
<1>9. CASE CounterReceives
  <2>1. /\ Head(countQ) \in Message /\ Tail(countQ) \in Seq(Message)
        /\ Len(Tail(countQ)) <= CountCap
    BY <1>9, TailIndexed DEF CounterReceives
  <2>2. Head(countQ).kind \in {"ProcessStarted", "ProcessDied"} /\ Head(countQ).req \in Req
    BY <2>1 DEF Message
  <2>3. count' \in 0 .. UsizeMax
    BY <1>9, <2>2 DEF CounterReceives, Counted
  <2>4. ledger' \in [Req -> {"new", "up", "down"}]
    BY <1>9, <2>2 DEF CounterReceives
  <2>5. shown' \in [Subsystem -> Status]
    <3>1. SandboxStatus(count') \in Status
      BY <2>3 DEF SandboxStatus, Status
    <3> QED BY <1>9, <3>1, TellType DEF CounterReceives, Subsystem
  <2> QED BY <1>9, <2>1, <2>3, <2>4, <2>5 DEF CounterReceives, tasks, services, ending
<1>10. CASE PortalReplies
  <2>1. SandboxStatus(count) \in Status
    BY DEF SandboxStatus, Status
  <2>2. shown' \in [Subsystem -> Status]
    BY <1>10, <2>1, TellType DEF PortalReplies, Subsystem
  <2> QED BY <1>10, <2>2 DEF PortalReplies, LeaveAtZero, tasks, services
<1>11. CASE CounterReturns
  BY <1>11 DEF CounterReturns, tasks, services, ending
<1>12. CASE Publish \/ Listen \/ Signal \/ SeeToken \/ RequestShutdown \/ Exit
  BY <1>12 DEF Publish, Listen, Signal, SeeToken, RequestShutdown, Exit, tasks, services, counting
<1>13. ASSUME NEW r \in Req, DropTask(r) PROVE TypeOK'
  BY <1>13, <1>pc, <1>child DEF DropTask, DropChild, Goto, services, counting, ending
<1>14. CASE Ended \/ UNCHANGED vars
  BY <1>14 DEF Ended, vars, tasks, services, counting, ending
<1> QED
  BY <1>1, <1>2, <1>3, <1>4, <1>5, <1>6, <1>7, <1>8, <1>9, <1>10, <1>11, <1>12, <1>13, <1>14
  DEF Next

\* Every reachable state is well-typed; in particular no channel ever holds more
\* than its capacity.
THEOREM TypeCorrect == Spec => []TypeOK
BY TypeInit, TypeStep, PTL DEF Spec

-----------------------------------------------------------------------------
(* The parts of the invariant that the channels do not enter. *)

\* Where the tasks are after one of them has moved.
LEMMA GotoAt ==
  ASSUME TypeOK, NEW r \in Req, NEW where \in PC, Goto(r, where)
  PROVE  \A q \in Req : pc'[q] = IF q = r THEN where ELSE pc[q]
BY DEF Goto, TypeOK

\* The request the spawner receives is queued.
LEMMA HeadQueued ==
  ASSUME TypeOK, SpawnQInv, spawnQ # <<>>
  PROVE  Head(spawnQ) \in Req /\ pc[Head(spawnQ)] = "queued"
BY TailIndexed DEF TypeOK, SpawnQInv

LEMMA CancelStep == TypeOK /\ CancelInv /\ [Next]_vars => CancelInv'
<1> SUFFICES ASSUME TypeOK, CancelInv, [Next]_vars PROVE CancelInv'
  OBVIOUS
<1> USE DEF CancelInv, AtAwait
<1>1. CASE StartFirst
  BY <1>1, ReqAssumption DEF StartFirst, Enqueue, Goto, counting, TypeOK
<1>2. ASSUME NEW r \in Req, Submit(r) PROVE CancelInv'
  BY <1>2 DEF Submit, Enqueue, Goto, counting, ending, TypeOK
<1>3. CASE SpawnerReceives
  BY <1>3, TailIndexed DEF SpawnerReceives, Goto, counting, ending, TypeOK
<1>4. CASE SpawnerReturns
  BY <1>4 DEF SpawnerReturns, counting, ending
<1>5. CASE ReplacerReturns \/ Initialise \/ PortalReplies \/ CounterReturns
  BY <1>5 DEF ReplacerReturns, Initialise, PortalReplies, LeaveAtZero, CounterReturns,
              tasks, services, counting, ending, TypeOK
<1>6. CASE CounterReceives
  BY <1>6 DEF CounterReceives, tasks, services, ending
<1>7. ASSUME NEW r \in Req, Task(r) PROVE CancelInv'
  <2>1. CASE CheckToken(r) \/ Rewrite(r) \/ Reap(r)
    BY <2>1 DEF CheckToken, Rewrite, Reap, Goto, services, counting, ending, TypeOK
  <2>2. CASE Announce(r)
    BY <2>2 DEF Announce, SendStart, Goto, services, TypeOK
  <2>3. CASE Launch(r)
    BY <2>3 DEF Launch, FailLaunch, Goto, tasks, services, counting, TypeOK
  <2>4. CASE StopWaiting(r)
    BY <2>4 DEF StopWaiting, Goto, services, counting, ending, TypeOK
  <2>5. CASE Report(r)
    BY <2>5 DEF Report, SendDeath, Goto, services, ending, TypeOK
  <2> QED BY <1>7, <2>1, <2>2, <2>3, <2>4, <2>5 DEF Task
<1>8. ASSUME NEW r \in Req, ChildExits(r) \/ DropTask(r) PROVE CancelInv'
  BY <1>8 DEF ChildExits, DropTask, Goto, services, counting, ending, TypeOK
<1>9. CASE Publish \/ Listen \/ Signal \/ SeeToken \/ RequestShutdown \/ Exit
  BY <1>9 DEF Publish, Listen, Signal, SeeToken, RequestShutdown, Exit, tasks, services, counting
<1>10. CASE Ended \/ UNCHANGED vars
  BY <1>10 DEF Ended, vars, tasks, services, counting, ending
<1> QED
  BY <1>1, <1>2, <1>3, <1>4, <1>5, <1>6, <1>7, <1>8, <1>9, <1>10 DEF Next

LEMMA StartStep == TypeOK /\ SpawnQInv /\ StartInv /\ [Next]_vars => StartInv'
<1> SUFFICES ASSUME TypeOK, SpawnQInv, StartInv, Next \/ UNCHANGED vars PROVE StartInv'
  OBVIOUS
<1>1. main' = "starting" => main = "starting"
  BY DEF Next, Task, StartFirst, Submit, SpawnerReceives, SpawnerReturns, ReplacerReturns,
     CheckToken, Rewrite, Announce, Launch, FailLaunch, Reap, StopWaiting, Report, ChildExits,
     Initialise, CounterReceives, PortalReplies, CounterReturns, Publish, Listen, Signal,
     SeeToken, RequestShutdown, DropTask, Exit, Ended, vars, ending
<1>2. SUFFICES ASSUME main' = "starting" PROVE spawnQ' = <<>> /\ UNCHANGED pc
  BY <1>1 DEF StartInv
<1>3. main = "starting" /\ spawnQ = <<>> /\ \A r \in Req : pc[r] = "idle"
  BY <1>1, <1>2 DEF StartInv
<1>4. ~StartFirst /\ ~SpawnerReceives /\ \A r \in Req : ~Submit(r) /\ ~Task(r) /\ ~DropTask(r)
  BY <1>2, <1>3 DEF StartFirst, SpawnerReceives, Submit, DropTask, Task, CheckToken, Rewrite,
     Announce, Launch, Reap, StopWaiting, Report
<1>5. CASE SpawnerReturns
  BY <1>3, <1>5 DEF SpawnerReturns, TypeOK
<1>6. CASE UNCHANGED vars \/ ~SpawnerReturns
  BY <1>3, <1>4, <1>6 DEF Next, ReplacerReturns, ChildExits, Initialise, CounterReceives,
     PortalReplies, CounterReturns, Publish, Listen, Signal, SeeToken, RequestShutdown, Exit,
     Ended, vars, tasks, services
<1> QED BY <1>5, <1>6

LEMMA AliveStep == TypeOK /\ SpawnQInv /\ StartInv /\ AliveInv /\ [Next]_vars => AliveInv'
<1> SUFFICES ASSUME TypeOK, SpawnQInv, StartInv, AliveInv, [Next]_vars,
                    NEW q \in Req, child'[q] = "alive"
             PROVE  pc'[q] = "waiting"
  BY DEF AliveInv
<1>0. child[q] = "alive" => pc[q] = "waiting"
  BY DEF AliveInv
<1>1. CASE StartFirst
  BY <1>0, <1>1, ReqAssumption DEF StartFirst, Enqueue, Goto, TypeOK, StartInv
<1>2. ASSUME NEW r \in Req, Submit(r) PROVE pc'[q] = "waiting"
  BY <1>0, <1>2 DEF Submit, Enqueue, Goto, TypeOK
<1>3. CASE SpawnerReceives
  BY <1>0, <1>3, HeadQueued DEF SpawnerReceives, Goto, TypeOK
<1>4. CASE SpawnerReturns
  BY <1>0, <1>4 DEF SpawnerReturns, TypeOK
<1>5. ASSUME NEW r \in Req, Task(r) PROVE pc'[q] = "waiting"
  <2>1. CASE CheckToken(r) \/ Rewrite(r) \/ Announce(r) \/ Report(r)
    BY <1>0, <2>1 DEF CheckToken, Rewrite, Announce, SendStart, Report, SendDeath, Goto, TypeOK
  <2>2. CASE Launch(r)
    BY <1>0, <2>2 DEF Launch, FailLaunch, Goto, tasks, TypeOK
  <2>3. CASE Reap(r)
    BY <1>0, <2>3 DEF Reap, Goto, TypeOK
  <2>4. CASE StopWaiting(r)
    BY <1>0, <2>4 DEF StopWaiting, DropChild, Goto, TypeOK
  <2> QED BY <1>5, <2>1, <2>2, <2>3, <2>4 DEF Task
<1>6. ASSUME NEW r \in Req, ChildExits(r) PROVE pc'[q] = "waiting"
  BY <1>0, <1>6 DEF ChildExits, TypeOK
<1>7. ASSUME NEW r \in Req, DropTask(r) PROVE pc'[q] = "waiting"
  BY <1>0, <1>7 DEF DropTask, DropChild, Goto, TypeOK
<1>8. CASE UNCHANGED tasks
  BY <1>0, <1>8 DEF tasks
<1>9. \/ ReplacerReturns \/ Initialise \/ CounterReceives \/ PortalReplies \/ CounterReturns
      \/ Publish \/ Listen \/ Signal \/ SeeToken \/ RequestShutdown \/ Exit \/ Ended
      \/ UNCHANGED vars
      => UNCHANGED tasks
  BY DEF ReplacerReturns, Initialise, CounterReceives, PortalReplies, CounterReturns, Publish,
     Listen, Signal, SeeToken, RequestShutdown, Exit, Ended, vars
<1> QED
  BY <1>1, <1>2, <1>3, <1>4, <1>5, <1>6, <1>7, <1>8, <1>9 DEF Next

LEMMA ExitStep == TypeOK /\ ExitInv /\ [Next]_vars => ExitInv'
<1> SUFFICES ASSUME TypeOK, ExitInv, Next \/ UNCHANGED vars, main' = "exited"
             PROVE  \A r \in Req : pc'[r] \notin AtAwait
  BY DEF ExitInv
<1>1. CASE Exit
  BY <1>1 DEF Exit, tasks
<1>2. CASE ~Exit
  <2>1. main = "exited"
    BY <1>2 DEF Next, Task, StartFirst, Submit, SpawnerReceives, SpawnerReturns, ReplacerReturns,
       CheckToken, Rewrite, Announce, Launch, FailLaunch, Reap, StopWaiting, Report, ChildExits,
       Initialise, CounterReceives, PortalReplies, CounterReturns, Publish, Listen, Signal,
       SeeToken, RequestShutdown, DropTask, Ended, vars, ending
  <2>2. UNCHANGED vars
    BY <2>1, <1>2 DEF Running, Next, Task, StartFirst, Submit, SpawnerReceives, SpawnerReturns,
       ReplacerReturns, CheckToken, Rewrite, Announce, Launch, Reap, StopWaiting, Report,
       ChildExits, Initialise, CounterReceives, PortalReplies, CounterReturns, Publish, Listen,
       Signal, SeeToken, RequestShutdown, DropTask, Ended
  <2> QED BY <2>1, <2>2 DEF ExitInv, vars, tasks
<1> QED BY <1>1, <1>2

-----------------------------------------------------------------------------
(* The channels and the ledger. *)

\* A message is a start or a death, of one request.
LEMMA Messages ==
  /\ \A r \in Req : /\ ProcessStarted(r) \in Message /\ ProcessDied(r) \in Message
                    /\ ProcessStarted(r).kind = "ProcessStarted" /\ ProcessStarted(r).req = r
                    /\ ProcessDied(r).kind = "ProcessDied" /\ ProcessDied(r).req = r
  /\ \A m \in Message : /\ m.req \in Req
                        /\ \/ m.kind = "ProcessStarted" /\ m = ProcessStarted(m.req)
                           \/ m.kind = "ProcessDied" /\ m = ProcessDied(m.req)
  /\ \A q, r \in Req : ProcessStarted(q) # ProcessDied(r)
BY DEF Message, ProcessStarted, ProcessDied

\* A step that leaves the channels and the ledger alone, and moves at most one task,
\* forwards, keeps what the invariant says of them.
LEMMA MoveKeeps ==
  ASSUME TypeOK, QInv, NEW r \in Req,
         UNCHANGED <<spawnQ, countQ, ledger, counter>>,
         \A q \in Req \ {r} : pc'[q] = pc[q],
         pc[r] \notin {"queued", "reported"} \/ pc'[r] = pc[r],
         pc'[r] # "reported" \/ pc'[r] = pc[r],
         pc'[r] \in Early => pc[r] \in Early,
         pc'[r] \in Owing => pc[r] \in Owing
  PROVE  QInv'
<1> USE DEF TypeOK
<1>1. SpawnQInv'
  BY DEF QInv, SpawnQInv
<1>2. StartQInv'
  <2>1. \A q \in Req : pc'[q] \in Early => pc[q] \in Early
    OBVIOUS
  <2> QED BY <2>1, Messages DEF QInv, StartQInv
<1>3. DeathQInv'
  <2>1. \A q \in Req : pc[q] = "reported" => pc'[q] = "reported"
    OBVIOUS
  <2>2. \A i \in 1 .. Len(countQ) : countQ[i].req \in Req
    BY Messages
  <2> QED BY <2>1, <2>2 DEF QInv, DeathQInv
<1>4. OnceQInv' /\ LedgerInv'
  BY DEF QInv, OnceQInv, LedgerInv
<1>5. SentInv'
  BY DEF QInv, SentInv, Queued
<1> QED BY <1>1, <1>2, <1>3, <1>4, <1>5 DEF QInv

\* The same when no task moves and the counter may have gone on, except to return.
LEMMA RestKeeps ==
  ASSUME TypeOK, QInv, UNCHANGED <<pc, spawnQ, countQ, ledger>>,
         counter = "returned" => counter' = "returned"
  PROVE  QInv'
BY DEF QInv, SpawnQInv, StartQInv, DeathQInv, OnceQInv, LedgerInv, SentInv, Queued

\* A request enters the spawner's channel.
LEMMA EnqueueKeeps ==
  ASSUME TypeOK, QInv, NEW r \in Req, pc[r] = "idle", Enqueue(r),
         UNCHANGED <<countQ, ledger, counter>>
  PROVE  QInv'
<1>1. \A q \in Req : pc'[q] = IF q = r THEN "queued" ELSE pc[q]
  BY DEF Enqueue, Goto, TypeOK
<1>2. SpawnQInv'
  <2>1. /\ Len(spawnQ) \in Nat /\ Len(spawnQ') = Len(spawnQ) + 1 /\ spawnQ'[Len(spawnQ) + 1] = r
        /\ \A i \in 1 .. Len(spawnQ) : spawnQ'[i] = spawnQ[i] /\ spawnQ[i] \in Req
    BY AppendIndexed DEF Enqueue, TypeOK
  <2>2. \A i \in 1 .. Len(spawnQ) : spawnQ[i] # r /\ pc[spawnQ[i]] = "queued"
    BY DEF QInv, SpawnQInv
  <2>3. \A i \in 1 .. Len(spawnQ') : pc'[spawnQ'[i]] = "queued"
    BY <1>1, <2>1, <2>2
  <2>4. \A i, j \in 1 .. Len(spawnQ') : spawnQ'[i] = spawnQ'[j] => i = j
    BY <2>1, <2>2 DEF QInv, SpawnQInv
  <2> QED BY <2>3, <2>4 DEF SpawnQInv
<1>3. \A q \in Req : /\ pc'[q] \in Early <=> pc[q] \in Early
                     /\ pc'[q] \in Owing => pc[q] \in Owing
                     /\ pc'[q] = "reported" <=> pc[q] = "reported"
  BY <1>1 DEF Early, Owing
<1>4. \A i \in 1 .. Len(countQ) : countQ[i] \in Message /\ countQ[i].req \in Req
  BY Messages DEF TypeOK
<1>5. StartQInv' /\ DeathQInv' /\ OnceQInv'
  BY <1>3, <1>4 DEF QInv, StartQInv, DeathQInv, OnceQInv
<1>6. LedgerInv' /\ SentInv'
  BY <1>3 DEF QInv, LedgerInv, SentInv, Queued
<1> QED BY <1>2, <1>5, <1>6 DEF QInv

\* The spawner takes its first request, or drops them all.
LEMMA ReceiveKeeps ==
  ASSUME TypeOK, QInv, SpawnerReceives \/ SpawnerReturns
  PROVE  QInv'
<1>1. UNCHANGED <<countQ, ledger, counter>>
  BY DEF SpawnerReceives, SpawnerReturns, counting
<1>2. SpawnQInv' /\ \A q \in Req : \/ pc'[q] = pc[q]
                                   \/ pc[q] = "queued" /\ pc'[q] \in {"begun", "lost"}
  <2>1. CASE SpawnerReceives
    <3>1. /\ Len(spawnQ') = Len(spawnQ) - 1 /\ Len(spawnQ) \in Nat \ {0}
          /\ Head(spawnQ) = spawnQ[1] /\ \A i \in 1 .. Len(spawnQ) : spawnQ[i] \in Req
          /\ \A i \in 1 .. Len(spawnQ) - 1 : spawnQ'[i] = spawnQ[i + 1]
      BY <2>1, TailIndexed DEF SpawnerReceives, TypeOK
    <3>2. spawnQ[1] \in Req /\ pc[spawnQ[1]] = "queued"
      BY <3>1 DEF QInv, SpawnQInv
    <3>3. \A q \in Req : pc'[q] = IF q = spawnQ[1] THEN "begun" ELSE pc[q]
      BY <2>1, <3>1, <3>2 DEF SpawnerReceives, Goto, TypeOK
    <3>4. \A i \in 1 .. Len(spawnQ') : pc'[spawnQ'[i]] = "queued"
      <4>1. TAKE i \in 1 .. Len(spawnQ')
      <4>2. i + 1 \in 1 .. Len(spawnQ) /\ i + 1 # 1 /\ spawnQ'[i] = spawnQ[i + 1]
        BY <3>1
      <4>3. spawnQ[i + 1] # spawnQ[1] /\ pc[spawnQ[i + 1]] = "queued" /\ spawnQ[i + 1] \in Req
        BY <3>1, <4>2 DEF QInv, SpawnQInv
      <4> QED BY <3>3, <4>2, <4>3
    <3>5. \A i, j \in 1 .. Len(spawnQ') : spawnQ'[i] = spawnQ'[j] => i = j
      <4>1. TAKE i, j \in 1 .. Len(spawnQ')
      <4>2. /\ i + 1 \in 1 .. Len(spawnQ) /\ spawnQ'[i] = spawnQ[i + 1]
            /\ j + 1 \in 1 .. Len(spawnQ) /\ spawnQ'[j] = spawnQ[j + 1]
        BY <3>1
      <4>3. i \in Int /\ j \in Int /\ (spawnQ[i + 1] = spawnQ[j + 1] => i + 1 = j + 1)
        BY <3>1, <4>2 DEF QInv, SpawnQInv
      <4> QED BY <4>2, <4>3
    <3> QED BY <3>2, <3>3, <3>4, <3>5 DEF SpawnQInv
  <2>2. CASE SpawnerReturns
    <3>1. Len(spawnQ') = 0 /\ \A q \in Req : pc'[q] = IF pc[q] = "queued" THEN "lost" ELSE pc[q]
      BY <2>2 DEF SpawnerReturns
    <3> QED BY <3>1 DEF SpawnQInv
  <2> QED BY <2>1, <2>2
<1>3. \A q \in Req : /\ pc'[q] \in Early <=> pc[q] \in Early
                     /\ pc'[q] \in Owing <=> pc[q] \in Owing
                     /\ pc'[q] = "reported" <=> pc[q] = "reported"
  BY <1>2 DEF Early, Owing
<1>4. \A i \in 1 .. Len(countQ) : countQ[i] \in Message /\ countQ[i].req \in Req
  BY Messages DEF TypeOK
<1>5. StartQInv' /\ DeathQInv' /\ OnceQInv'
  BY <1>1, <1>3, <1>4 DEF QInv, StartQInv, DeathQInv, OnceQInv
<1>6. LedgerInv' /\ SentInv'
  BY <1>1, <1>3 DEF QInv, LedgerInv, SentInv, Queued
<1> QED BY <1>2, <1>5, <1>6 DEF QInv

\* A task announces its process: the first message about its request.
LEMMA StartKeeps ==
  ASSUME TypeOK, QInv, NEW r \in Req, pc[r] = "announcing", SendStart(r),
         UNCHANGED <<spawnQ, ledger, counter>>
  PROVE  QInv'
<1> DEFINE m == ProcessStarted(r)
<1>1. \A q \in Req : pc'[q] = IF q = r THEN "launching" ELSE pc[q]
  BY DEF SendStart, Goto, TypeOK
<1>2. /\ Len(countQ) \in Nat /\ Len(countQ') = Len(countQ) + 1
      /\ countQ'[Len(countQ) + 1] = m
      /\ \A i \in 1 .. Len(countQ) : countQ'[i] = countQ[i] /\ countQ[i] \in Message
  BY AppendIndexed, Messages DEF SendStart, TypeOK
<1>3. ledger[r] = "new"
  BY DEF QInv, LedgerInv, Early
<1>4. \A i \in 1 .. Len(countQ) : countQ[i].req \in Req /\ countQ[i].req # r
  BY <1>2, <1>3, Messages DEF QInv, StartQInv, DeathQInv, Early
<1>5. SpawnQInv'
  BY <1>1, TailIndexed DEF QInv, SpawnQInv, TypeOK
<1>6. StartQInv'
  <2>1. SUFFICES ASSUME NEW i \in 1 .. Len(countQ'), countQ'[i].kind = "ProcessStarted"
                 PROVE  pc'[countQ'[i].req] \notin Early /\ ledger[countQ'[i].req] = "new"
    BY DEF StartQInv
  <2>2. CASE i \in 1 .. Len(countQ)
    BY <1>1, <1>2, <1>4, <2>1, <2>2 DEF QInv, StartQInv
  <2>3. CASE i = Len(countQ) + 1
    BY <1>1, <1>2, <1>3, <2>3, Messages DEF Early
  <2> QED BY <1>2, <2>2, <2>3
<1>7. DeathQInv'
  <2>1. SUFFICES ASSUME NEW i \in 1 .. Len(countQ'), countQ'[i].kind = "ProcessDied"
                 PROVE  /\ pc'[countQ'[i].req] = "reported"
                        /\ \/ ledger[countQ'[i].req] = "up"
                           \/ \E j \in 1 .. i - 1 : countQ'[j] = ProcessStarted(countQ'[i].req)
    BY DEF DeathQInv
  <2>2. i \in 1 .. Len(countQ)
    BY <1>2, <2>1, Messages
  <2>3. \A j \in 1 .. i - 1 : j \in 1 .. Len(countQ)
    BY <1>2, <2>2
  <2> QED BY <1>1, <1>2, <1>4, <2>1, <2>2, <2>3 DEF QInv, DeathQInv
<1>8. OnceQInv'
  <2>1. \A i \in 1 .. Len(countQ) : countQ[i] # m
    BY <1>4, Messages
  <2> QED BY <1>2, <2>1 DEF QInv, OnceQInv
<1>9. LedgerInv'
  BY <1>1, <1>3 DEF QInv, LedgerInv, Early
<1>10. SentInv'
  <2>1. Queued(m)' /\ \A n \in Message : Queued(n) => Queued(n)'
    BY <1>2 DEF Queued
  <2> QED BY <1>1, <2>1, Messages DEF QInv, SentInv
<1> QED BY <1>5, <1>6, <1>7, <1>8, <1>9, <1>10 DEF QInv

\* A task reports its process's death: after its start, and for the first time.
LEMMA DeathKeeps ==
  ASSUME TypeOK, QInv, NEW r \in Req, pc[r] = "reporting", counter # "returned",
         SendDeath(r), UNCHANGED <<spawnQ, ledger, counter>>
  PROVE  QInv'
<1> DEFINE m == ProcessDied(r)
<1>1. \A q \in Req : pc'[q] = IF q = r THEN "reported" ELSE pc[q]
  BY DEF SendDeath, Goto, TypeOK
<1>2. /\ Len(countQ) \in Nat /\ Len(countQ') = Len(countQ) + 1
      /\ countQ'[Len(countQ) + 1] = m
      /\ \A i \in 1 .. Len(countQ) :
           countQ'[i] = countQ[i] /\ countQ[i] \in Message /\ countQ[i].req \in Req
  BY AppendIndexed, Messages DEF SendDeath, TypeOK
<1>3. ledger[r] = "up" \/ \E j \in 1 .. Len(countQ) : countQ[j] = ProcessStarted(r)
  BY DEF QInv, SentInv, Owing, Queued
<1>4. \A q \in Req : pc[q] \notin Early <=> pc'[q] \notin Early
  BY <1>1 DEF Early
<1>5. SpawnQInv'
  BY <1>1, TailIndexed DEF QInv, SpawnQInv, TypeOK
<1>6. StartQInv'
  <2>1. SUFFICES ASSUME NEW i \in 1 .. Len(countQ'), countQ'[i].kind = "ProcessStarted"
                 PROVE  pc'[countQ'[i].req] \notin Early /\ ledger[countQ'[i].req] = "new"
    BY DEF StartQInv
  <2>2. i \in 1 .. Len(countQ)
    BY <1>2, <2>1, Messages
  <2> QED BY <1>2, <1>4, <2>1, <2>2 DEF QInv, StartQInv
<1>7. DeathQInv'
  <2>1. SUFFICES ASSUME NEW i \in 1 .. Len(countQ'), countQ'[i].kind = "ProcessDied"
                 PROVE  /\ pc'[countQ'[i].req] = "reported"
                        /\ \/ ledger[countQ'[i].req] = "up"
                           \/ \E j \in 1 .. i - 1 : countQ'[j] = ProcessStarted(countQ'[i].req)
    BY DEF DeathQInv
  <2>2. CASE i \in 1 .. Len(countQ)
    <3>1. \A j \in 1 .. i - 1 : j \in 1 .. Len(countQ)
      BY <1>2, <2>2
    <3> QED BY <1>1, <1>2, <2>1, <2>2, <3>1 DEF QInv, DeathQInv
  <2>3. CASE i = Len(countQ) + 1
    <3>1. countQ'[i].req = r /\ 1 .. i - 1 = 1 .. Len(countQ)
      BY <1>2, <2>3, Messages
    <3> QED BY <1>1, <1>2, <1>3, <3>1
  <2> QED BY <1>2, <2>2, <2>3
<1>8. OnceQInv'
  <2>1. \A i \in 1 .. Len(countQ) : countQ[i] # m
    BY Messages DEF QInv, DeathQInv
  <2> QED BY <1>2, <2>1 DEF QInv, OnceQInv
<1>9. LedgerInv'
  BY <1>1, <1>4 DEF QInv, LedgerInv, Early, Owing
<1>10. SentInv'
  <2>1. Queued(m)' /\ \A n \in Message : Queued(n) => Queued(n)'
    BY <1>2 DEF Queued
  <2> QED BY <1>1, <2>1, Messages DEF QInv, SentInv, Owing
<1> QED BY <1>5, <1>6, <1>7, <1>8, <1>9, <1>10 DEF QInv

\* The counter receives a message: a start of a request that is new to it, or a
\* death of one that it counts. The rest of the channel keeps its order.
LEMMA CountKeeps ==
  ASSUME TypeOK, QInv, CounterReceives
  PROVE  /\ QInv'
         /\ LET m == Head(countQ) IN
              \/ m.kind = "ProcessStarted" /\ ledger[m.req] = "new"
              \/ m.kind = "ProcessDied" /\ ledger[m.req] = "up"
<1> DEFINE m == countQ[1]
           r == m.req
<1>1. /\ Len(countQ) \in Nat \ {0} /\ Head(countQ) = m /\ Len(countQ') = Len(countQ) - 1
      /\ \A i \in 1 .. Len(countQ) : countQ[i] \in Message /\ countQ[i].req \in Req
      /\ \A i \in 1 .. Len(countQ') : i + 1 \in 2 .. Len(countQ) /\ countQ'[i] = countQ[i + 1]
  BY TailIndexed, Messages DEF CounterReceives, TypeOK
<1>2. m \in Message /\ r \in Req
  BY <1>1
<1>3. \/ m = ProcessStarted(r) /\ m.kind = "ProcessStarted" /\ ledger[r] = "new" /\ pc[r] \notin Early
      \/ m = ProcessDied(r) /\ m.kind = "ProcessDied" /\ ledger[r] = "up" /\ pc[r] = "reported"
  BY <1>1, <1>2, Messages DEF QInv, StartQInv, DeathQInv
<1>4. \A q \in Req : ledger'[q] = IF q # r THEN ledger[q]
                                  ELSE IF m.kind = "ProcessStarted" THEN "up" ELSE "down"
  BY <1>1, <1>2 DEF CounterReceives, TypeOK
<1>5. UNCHANGED <<pc, spawnQ>> /\ counter # "returned" /\ counter' = "portal"
  BY DEF CounterReceives, tasks, services
<1>6. \A i \in 2 .. Len(countQ) : countQ[i] # m
  BY <1>1 DEF QInv, OnceQInv
<1>7. \A n \in Message : n # m /\ Queued(n) => Queued(n)'
  <2>1. SUFFICES ASSUME NEW n \in Message, n # m, NEW i \in 1 .. Len(countQ), countQ[i] = n
                 PROVE  \E k \in 1 .. Len(countQ') : countQ'[k] = n
    BY DEF Queued
  <2>2. i - 1 \in 1 .. Len(countQ') /\ (i - 1) + 1 = i
    BY <1>1, <2>1
  <2> QED BY <1>1, <2>1, <2>2
<1>8. SpawnQInv'
  BY <1>5 DEF QInv, SpawnQInv
<1>9. StartQInv'
  <2>1. SUFFICES ASSUME NEW i \in 1 .. Len(countQ'), countQ'[i].kind = "ProcessStarted"
                 PROVE  pc[countQ'[i].req] \notin Early /\ ledger'[countQ'[i].req] = "new"
    BY <1>5 DEF StartQInv
  <2> DEFINE n == countQ[i + 1]
  <2>2. /\ i + 1 \in 1 .. Len(countQ) /\ countQ'[i] = n /\ n \in Message /\ n # m
        /\ n.req \in Req /\ n = ProcessStarted(n.req)
        /\ pc[n.req] \notin Early /\ ledger[n.req] = "new"
    BY <1>1, <1>6, <2>1, Messages DEF QInv, StartQInv
  <2>3. n.req # r
    BY <1>3, <2>2
  <2> QED BY <1>4, <2>2, <2>3
<1>10. DeathQInv'
  <2>1. SUFFICES ASSUME NEW i \in 1 .. Len(countQ'), countQ'[i].kind = "ProcessDied"
                 PROVE  /\ pc[countQ'[i].req] = "reported"
                        /\ \/ ledger'[countQ'[i].req] = "up"
                           \/ \E j \in 1 .. i - 1 : countQ'[j] = ProcessStarted(countQ'[i].req)
    BY <1>5 DEF DeathQInv
  <2> DEFINE n == countQ[i + 1]
  <2>2. /\ i + 1 \in 1 .. Len(countQ) /\ countQ'[i] = n /\ n \in Message /\ n # m
        /\ n.req \in Req /\ n = ProcessDied(n.req) /\ pc[n.req] = "reported"
    BY <1>1, <1>6, <2>1, Messages DEF QInv, DeathQInv
  <2>3. ledger[n.req] = "up" \/ \E j \in 1 .. i : countQ[j] = ProcessStarted(n.req)
    <3>1. (i + 1) - 1 = i
      BY <1>1
    <3> QED BY <2>1, <2>2, <3>1 DEF QInv, DeathQInv
  <2>4. CASE n.req = r
    <3>1. m = ProcessStarted(r) /\ m.kind = "ProcessStarted"
      BY <1>3, <2>2, <2>4
    <3> QED BY <1>4, <2>2, <2>4, <3>1
  <2>5. CASE n.req # r
    <3>1. CASE ledger[n.req] = "up"
      BY <1>4, <2>2, <2>5, <3>1
    <3>2. ASSUME NEW j \in 1 .. i, countQ[j] = ProcessStarted(n.req)
          PROVE  \E k \in 1 .. i - 1 : countQ'[k] = ProcessStarted(n.req)
      <4>1. j # 1
        BY <1>3, <2>2, <2>5, <3>2, Messages
      <4>2. j - 1 \in 1 .. i - 1 /\ j - 1 \in 1 .. Len(countQ') /\ (j - 1) + 1 = j
        BY <1>1, <4>1
      <4> QED BY <1>1, <3>2, <4>2
    <3> QED BY <2>2, <2>3, <3>1, <3>2
  <2> QED BY <2>4, <2>5
<1>11. OnceQInv'
  <2>1. SUFFICES ASSUME NEW i \in 1 .. Len(countQ'), NEW j \in 1 .. Len(countQ'),
                        countQ'[i] = countQ'[j]
                 PROVE  i = j
    BY DEF OnceQInv
  <2>2. /\ i + 1 \in 1 .. Len(countQ) /\ j + 1 \in 1 .. Len(countQ)
        /\ countQ[i + 1] = countQ[j + 1]
    BY <1>1, <2>1
  <2>3. i + 1 = j + 1
    BY <2>2 DEF QInv, OnceQInv
  <2> QED BY <1>1, <2>3
<1>12. LedgerInv'
  BY <1>2, <1>3, <1>4, <1>5 DEF QInv, LedgerInv, Owing
<1>13. SentInv'
  <2>1. SUFFICES ASSUME NEW q \in Req
                 PROVE  /\ pc[q] \in Owing => ledger'[q] = "up" \/ Queued(ProcessStarted(q))'
                        /\ pc[q] = "reported" => ledger'[q] = "down" \/ Queued(ProcessDied(q))'
    BY <1>5 DEF SentInv
  <2>2. /\ pc[q] \in Owing => ledger[q] = "up" \/ Queued(ProcessStarted(q))
        /\ pc[q] = "reported" => ledger[q] = "down" \/ Queued(ProcessDied(q))
    BY <1>5 DEF QInv, SentInv
  <2>3. CASE q # r
    <3>1. m # ProcessStarted(q) /\ m # ProcessDied(q)
      BY <1>3, <2>3, Messages
    <3> QED BY <1>4, <1>7, <2>2, <2>3, <3>1, Messages
  <2>4. CASE q = r /\ m = ProcessStarted(r)
    BY <1>3, <1>4, <1>7, <2>2, <2>4, Messages
  <2>5. CASE q = r /\ m = ProcessDied(r)
    BY <1>3, <1>4, <2>5, Messages DEF Owing
  <2> QED BY <1>3, <2>3, <2>4, <2>5
<1> QED
  BY <1>1, <1>3, <1>8, <1>9, <1>10, <1>11, <1>12, <1>13 DEF QInv

\* The tracked requests are a finite set that a usize can count.
LEMMA TrackedFinite ==
  IsFiniteSet(Tracked) /\ Cardinality(Tracked) \in Nat /\ Cardinality(Tracked) <= UsizeMax
<1>1. Tracked \subseteq Req
  BY DEF Tracked
<1>2. IsFiniteSet(Tracked) /\ Cardinality(Tracked) <= Cardinality(Req)
  BY <1>1, FS_Subset, ReqAssumption
<1>3. Cardinality(Tracked) \in Nat /\ Cardinality(Req) \in Nat
  BY <1>2, FS_CardinalityType, ReqAssumption
<1> QED BY <1>2, <1>3, ReqAssumption

\* Counting a message keeps the count equal to the number of tracked requests: it
\* wraps neither above nor below.
LEMMA CountStep ==
  ASSUME TypeOK, QInv, CountIsTracked, CounterReceives
  PROVE  CountIsTracked'
<1> DEFINE m == Head(countQ)
<1>1. m \in Message /\ m.req \in Req
  BY TailIndexed, Messages DEF CounterReceives, TypeOK
<1>2. count' = Counted(m.kind)
  BY DEF CounterReceives
<1>3. CASE m.kind = "ProcessStarted" /\ ledger[m.req] = "new"
  <2>1. Tracked' = Tracked \cup {m.req} /\ m.req \notin Tracked
    BY <1>1, <1>3 DEF CounterReceives, Tracked, TypeOK
  <2>2. Cardinality(Tracked') = Cardinality(Tracked) + 1
    BY <2>1, TrackedFinite, FS_AddElement
  <2>3. IsFiniteSet(Req) /\ Tracked' \subseteq Req
    BY <1>1, <2>1, ReqAssumption DEF Tracked
  <2>4. Cardinality(Tracked') <= Cardinality(Req) /\ Cardinality(Req) \in Nat
    BY <2>3, FS_Subset, FS_CardinalityType
  <2>5. count < UsizeMax
    BY <2>2, <2>4, TrackedFinite, ReqAssumption DEF CountIsTracked
  <2> QED BY <1>2, <1>3, <2>2, <2>5, ReqAssumption DEF CountIsTracked, Counted
<1>4. CASE m.kind = "ProcessDied" /\ ledger[m.req] = "up"
  <2>1. Tracked' = Tracked \ {m.req} /\ m.req \in Tracked
    BY <1>1, <1>4 DEF CounterReceives, Tracked, TypeOK
  <2>2. Cardinality(Tracked') = Cardinality(Tracked) - 1
    BY <2>1, TrackedFinite, FS_RemoveElement
  <2>3. Cardinality(Tracked) # 0
    BY <2>1, TrackedFinite, FS_EmptySet
  <2> QED BY <1>2, <1>4, <2>2, <2>3, TrackedFinite DEF CountIsTracked, Counted
<1> QED BY <1>3, <1>4, CountKeeps

-----------------------------------------------------------------------------
(* The inductive invariant. *)

LEMMA InvInit == Init => IInv
<1> SUFFICES ASSUME Init PROVE IInv
  OBVIOUS
<1>1. TypeOK
  BY TypeInit
<1>2. Len(spawnQ) = 0 /\ Len(countQ) = 0
  BY DEF Init
<1>3. QInv
  BY <1>2 DEF Init, QInv, SpawnQInv, StartQInv, DeathQInv, OnceQInv, LedgerInv, SentInv, Early,
              Owing
<1>4. StartInv /\ CancelInv /\ AliveInv /\ ExitInv
  BY DEF Init, StartInv, CancelInv, AliveInv, ExitInv
<1>5. Tracked = {} /\ count = 0
  BY DEF Init, Tracked
<1> QED BY <1>1, <1>3, <1>4, <1>5, FS_EmptySet DEF IInv, CountIsTracked

\* The steps of a task: it sends its start, it sends its death, or it only moves.
LEMMA TaskKeeps ==
  ASSUME TypeOK, QInv, NEW r \in Req, Task(r) \/ DropTask(r)
  PROVE  QInv'
<1>1. UNCHANGED <<spawnQ, ledger, counter>>
  BY DEF Task, CheckToken, Rewrite, Announce, Launch, Reap, StopWaiting, Report, DropTask,
     services, counting
<1>2. ASSUME NEW w \in PC, Goto(r, w), UNCHANGED countQ, w # "reported",
             pc[r] \notin {"queued", "reported"},
             w \in Early => pc[r] \in Early, w \in Owing => pc[r] \in Owing
      PROVE  QInv'
  <2>1. \A q \in Req : pc'[q] = IF q = r THEN w ELSE pc[q]
    BY <1>2, GotoAt
  <2> QED BY <1>1, <1>2, <2>1, MoveKeeps
<1>3. CASE CheckToken(r)
  BY <1>2, <1>3 DEF CheckToken, counting, Early, Owing, PC, AtAwait
<1>4. CASE Rewrite(r)
  BY <1>2, <1>4 DEF Rewrite, counting, Early, Owing, PC, AtAwait
<1>5. CASE Announce(r)
  <2>1. CASE SendStart(r)
    BY <1>1, <1>5, <2>1, StartKeeps DEF Announce
  <2>2. CASE Goto(r, "unannounced") /\ UNCHANGED countQ
    BY <1>2, <1>5, <2>2 DEF Announce, Early, Owing, PC
  <2> QED BY <1>5, <2>1, <2>2 DEF Announce
<1>6. CASE Launch(r)
  <2>1. CASE Goto(r, "waiting")
    BY <1>2, <1>6, <2>1 DEF Launch, counting, Early, Owing, PC, AtAwait
  <2>2. CASE FailLaunch(r)
    BY <1>1, <1>6, <2>2, RestKeeps DEF Launch, FailLaunch, tasks, counting
  <2> QED BY <1>6, <2>1, <2>2 DEF Launch
<1>7. CASE Reap(r)
  BY <1>2, <1>7 DEF Reap, counting, Early, Owing, PC, AtAwait
<1>8. CASE StopWaiting(r)
  BY <1>2, <1>8 DEF StopWaiting, counting, Early, Owing, PC
<1>9. CASE Report(r)
  <2>1. CASE counter # "returned" /\ SendDeath(r)
    BY <1>1, <1>9, <2>1, DeathKeeps DEF Report
  <2>2. CASE Goto(r, "unreported") /\ UNCHANGED countQ
    BY <1>2, <1>9, <2>2 DEF Report, Early, Owing, PC
  <2> QED BY <1>9, <2>1, <2>2 DEF Report
<1>10. CASE DropTask(r)
  BY <1>2, <1>10 DEF DropTask, counting, Early, Owing, PC, AtAwait
<1> QED BY <1>3, <1>4, <1>5, <1>6, <1>7, <1>8, <1>9, <1>10 DEF Task

LEMMA InvStep == IInv /\ [Next]_vars => IInv'
<1> SUFFICES ASSUME IInv, [Next]_vars PROVE QInv' /\ CountIsTracked'
  BY TypeStep, StartStep, CancelStep, AliveStep, ExitStep DEF IInv, QInv
<1>0. TypeOK /\ QInv /\ CountIsTracked
  BY DEF IInv
<1>count. ASSUME UNCHANGED <<count, ledger>> PROVE CountIsTracked'
  BY <1>0, <1>count DEF CountIsTracked, Tracked
<1>1. CASE StartFirst
  <2>1. pc[First] = "idle" /\ First \in Req
    BY <1>1, ReqAssumption DEF IInv, StartInv, StartFirst
  <2>2. UNCHANGED <<countQ, ledger, counter, count>> /\ Enqueue(First)
    BY <1>1 DEF StartFirst, counting
  <2> QED BY <1>0, <1>count, <2>1, <2>2, EnqueueKeeps
<1>2. ASSUME NEW r \in Req, Submit(r) PROVE QInv' /\ CountIsTracked'
  <2>1. UNCHANGED <<countQ, ledger, counter, count>> /\ pc[r] = "idle"
    BY <1>2 DEF Submit, counting
  <2>2. CASE Enqueue(r)
    BY <1>0, <1>count, <2>1, <2>2, EnqueueKeeps
  <2>3. CASE UNCHANGED spawnQ /\ Goto(r, "refused")
    <3>1. \A q \in Req : pc'[q] = IF q = r THEN "refused" ELSE pc[q]
      BY <1>0, <2>3 DEF Goto, TypeOK
    <3>2. QInv'
      BY <1>0, <2>1, <2>3, <3>1, MoveKeeps DEF Early, Owing
    <3> QED BY <1>count, <2>1, <3>2
  <2> QED BY <1>2, <2>2, <2>3 DEF Submit
<1>3. CASE SpawnerReceives \/ SpawnerReturns
  <2>1. UNCHANGED <<count, ledger>>
    BY <1>3 DEF SpawnerReceives, SpawnerReturns, counting
  <2> QED BY <1>0, <1>3, <1>count, <2>1, ReceiveKeeps
<1>4. ASSUME NEW r \in Req, Task(r) \/ DropTask(r) PROVE QInv' /\ CountIsTracked'
  <2>1. UNCHANGED <<count, ledger>>
    BY <1>4 DEF Task, CheckToken, Rewrite, Announce, Launch, Reap, StopWaiting, Report, DropTask,
       counting
  <2> QED BY <1>0, <1>4, <1>count, <2>1, TaskKeeps
<1>5. CASE CounterReceives
  BY <1>0, <1>5, CountKeeps, CountStep
<1>6. CASE CounterReturns
  <2>1. UNCHANGED <<pc, spawnQ, ledger, count>> /\ counter' = "returned" /\ Len(countQ') = 0
    BY <1>6 DEF CounterReturns, tasks, services
  <2>2. QInv'
    BY <1>0, <2>1 DEF QInv, SpawnQInv, StartQInv, DeathQInv, OnceQInv, LedgerInv, SentInv
  <2> QED BY <1>count, <2>1, <2>2
<1>7. CASE Initialise \/ PortalReplies
  <2>1. UNCHANGED <<pc, spawnQ, countQ, ledger, count>> /\ counter # "returned"
    BY <1>7 DEF Initialise, PortalReplies, tasks, services
  <2> QED BY <1>0, <1>count, <2>1, RestKeeps
<1>8. CASE UNCHANGED <<pc, spawnQ, counting>>
  <2>1. UNCHANGED <<pc, spawnQ, countQ, ledger, counter, count>>
    BY <1>8 DEF counting
  <2> QED BY <1>0, <1>count, <2>1, RestKeeps
<1>9. ASSUME \/ ReplacerReturns \/ Publish \/ Listen \/ Signal \/ SeeToken \/ RequestShutdown
             \/ Exit \/ Ended \/ UNCHANGED vars \/ \E r \in Req : ChildExits(r)
      PROVE  UNCHANGED <<pc, spawnQ, counting>>
  BY <1>9 DEF ReplacerReturns, Publish, Listen, Signal, SeeToken, RequestShutdown, Exit, Ended,
     vars, ChildExits, tasks, services
<1> QED
  BY <1>1, <1>2, <1>3, <1>4, <1>5, <1>6, <1>7, <1>8, <1>9 DEF Next

THEOREM InvCorrect == Spec => []IInv
BY InvInit, InvStep, PTL DEF Spec

-----------------------------------------------------------------------------
(* What follows from it. *)

\* The counter's variable is the number of requests it has counted up and not down.
THEOREM CountCorrect == Spec => []CountIsTracked
BY InvCorrect, PTL DEF IInv

\* `count -= 1` never underflows: a death at the head of the channel belongs to a
\* request that is counted.
THEOREM NoUnderflow == Spec => []DeathFollowsStart
<1>1. IInv => DeathFollowsStart
  <2>1. SUFFICES ASSUME IInv, countQ # <<>>, Head(countQ).kind = "ProcessDied"
                 PROVE  count > 0
    BY DEF DeathFollowsStart
  <2>2. Len(countQ) \in Nat \ {0} /\ Head(countQ) = countQ[1] /\ countQ[1] \in Message
    BY <2>1, TailIndexed DEF IInv, TypeOK
  <2>3. countQ[1].req \in Tracked
    BY <2>1, <2>2, Messages DEF IInv, QInv, DeathQInv, Tracked
  <2>4. Cardinality(Tracked) # 0 /\ Cardinality(Tracked) \in Nat
    BY <2>3, TrackedFinite, FS_EmptySet
  <2> QED BY <2>1, <2>4 DEF IInv, CountIsTracked
<1> QED BY <1>1, InvCorrect, PTL

\* The counter never knows less than it has been sent.
THEOREM LiveCounted == Spec => []LiveIsCounted
<1>1. IInv => LiveIsCounted
  BY DEF IInv, QInv, AliveInv, SentInv, Owing, LiveIsCounted
<1> QED BY <1>1, InvCorrect, PTL

\* No failure leaves the count too high for ever.
THEOREM NoLeak == Spec => []NoLeakedCount
<1>1. IInv => NoLeakedCount
  <2>1. SUFFICES ASSUME IInv, NEW r \in Tracked, Running, ~cancelled
                 PROVE  pc[r] \in Owing \/ Queued(ProcessDied(r))
    BY DEF NoLeakedCount, Owing
  <2>2. r \in Req /\ ledger[r] = "up" /\ counter # "returned"
    BY <2>1 DEF Tracked, IInv, CancelInv
  <2>3. pc[r] \notin Early /\ pc[r] \notin {"dropped", "unreported"}
    BY <2>1, <2>2 DEF IInv, QInv, LedgerInv, CancelInv
  <2>4. pc[r] \in Owing \cup {"reported"}
    BY <2>1, <2>2, <2>3 DEF IInv, TypeOK, PC, AtAwait, Early, Owing
  <2> QED BY <2>2, <2>4, <2>1 DEF IInv, QInv, SentInv
<1> QED BY <1>1, InvCorrect, PTL

\* No process of the sandbox outlives an orderly end of Init.
THEOREM NothingLeft == Spec => []NoneLeftBehind
<1>1. IInv => NoneLeftBehind
  BY DEF IInv, AliveInv, ExitInv, NoneLeftBehind, AtAwait
<1> QED BY <1>1, InvCorrect, PTL

-----------------------------------------------------------------------------
(* The last status. *)

Stopping == [state |-> "stopping", tracked |-> 0]

\* A subsystem is told Stopping only at zero, where the counter receives no more.
StopInv ==
  \A s \in Subsystem : shown[s].state = "stopping" =>
    shown[s] = Stopping /\ count = 0 /\ counter \in {"portal", "leaving", "returned"}

LEMMA StopInit == Init => StopInv
BY DEF Init, StopInv

LEMMA StopStep == TypeOK /\ StopInv /\ [Next]_vars =>
  StopInv' /\ \A s \in Subsystem : shown[s].state = "stopping" => shown'[s] = shown[s]
<1> SUFFICES ASSUME TypeOK, StopInv, Next \/ UNCHANGED vars
             PROVE  /\ StopInv'
                    /\ \A s \in Subsystem : shown[s].state = "stopping" => shown'[s] = shown[s]
  OBVIOUS
<1>1. CASE Initialise
  BY <1>1 DEF Initialise, Tell, StopInv, TypeOK, Subsystem
<1>2. CASE CounterReceives
  BY <1>2 DEF CounterReceives, Tell, SandboxStatus, Stopping, StopInv, TypeOK, Subsystem
<1>3. CASE PortalReplies
  <2>1. CASE count = 0
    BY <1>3, <2>1 DEF PortalReplies, LeaveAtZero, Tell, SandboxStatus, Stopping, StopInv, TypeOK,
       Subsystem
  <2>2. CASE count # 0
    BY <1>3, <2>2 DEF PortalReplies, LeaveAtZero, Tell, SandboxStatus, StopInv, TypeOK, Subsystem
  <2> QED BY <2>1, <2>2
<1>4. CASE CounterReturns
  BY <1>4 DEF CounterReturns, StopInv
<1>5. CASE UNCHANGED <<counter, count, shown>>
  BY <1>5 DEF StopInv
<1>6. ASSUME ~Initialise, ~CounterReceives, ~PortalReplies, ~CounterReturns
      PROVE  UNCHANGED <<counter, count, shown>>
  BY <1>6 DEF Next, StartFirst, Submit, SpawnerReceives, SpawnerReturns, ReplacerReturns, Task,
     CheckToken, Rewrite, Announce, Launch, Reap, StopWaiting, Report, ChildExits, Publish,
     Listen, Signal, SeeToken, RequestShutdown, DropTask, Exit, Ended, vars, counting
<1> QED BY <1>1, <1>2, <1>3, <1>4, <1>5, <1>6

\* Once told that the sandbox is stopping, a subsystem is told nothing else.
THEOREM StoppingFinal == Spec => StoppingIsFinal
<1>1. Spec => []StopInv
  BY StopInit, StopStep, TypeCorrect, PTL DEF Spec
<1>2. TypeOK /\ StopInv /\ [Next]_vars =>
        [\A s \in Subsystem : shown[s].state = "stopping" => shown'[s] = shown[s]]_vars
  BY StopStep
<1> QED BY <1>1, <1>2, TypeCorrect, PTL DEF Spec, StoppingIsFinal

-----------------------------------------------------------------------------
(* Nobody waits for what will not come. *)

\* Who stops serving, or is given up, does so after the cancellation.
LateInv ==
  /\ spawner = "returned" \/ replacer = "returned" => cancelled
  /\ \A r \in Req : pc[r] \in GivenUp => cancelled

\* An accepted request is in the spawner's channel.
AcceptedInv == \A r \in Req : pc[r] = "queued" => \E i \in 1 .. Len(spawnQ) : spawnQ[i] = r

\* A counter that receives at zero has counted nothing yet.
RestInv ==
  /\ counter = "initialising" => \A r \in Req : ledger[r] = "new"
  /\ counter = "receiving" /\ count = 0 => \A r \in Req : ledger[r] = "new"

WInv == IInv /\ LateInv /\ AcceptedInv /\ RestInv

LEMMA WaitInit == Init => LateInv /\ AcceptedInv /\ RestInv
BY DEF Init, LateInv, GivenUp, AcceptedInv, RestInv

LEMMA LateStep == TypeOK /\ SpawnQInv /\ CancelInv /\ LateInv /\ [Next]_vars => LateInv'
<1> SUFFICES ASSUME TypeOK, SpawnQInv, CancelInv, LateInv, [Next]_vars PROVE LateInv'
  OBVIOUS
<1> USE DEF LateInv, GivenUp, Goto
<1>0. /\ pc \in [Req -> PC] /\ cancelled \in BOOLEAN
      /\ spawner \in {"running", "returned"} /\ replacer \in {"running", "returned"}
  BY DEF TypeOK
<1>1. CASE StartFirst
  BY <1>0, <1>1 DEF StartFirst, Enqueue
<1>2. ASSUME NEW r \in Req, Submit(r) PROVE LateInv'
  BY <1>0, <1>2 DEF Submit, Enqueue, ending
<1>3. CASE SpawnerReceives
  BY <1>0, <1>3 DEF SpawnerReceives, ending
<1>4. CASE SpawnerReturns \/ ReplacerReturns
  BY <1>0, <1>4 DEF SpawnerReturns, ReplacerReturns, tasks, ending
<1>5. ASSUME NEW r \in Req, CheckToken(r) \/ Rewrite(r) \/ Reap(r) \/ StopWaiting(r) \/ DropTask(r)
      PROVE  LateInv'
  BY <1>0, <1>5 DEF CheckToken, Rewrite, Reap, StopWaiting, DropTask, services, ending, CancelInv
<1>6. ASSUME NEW r \in Req, Announce(r) \/ Report(r) PROVE LateInv'
  BY <1>0, <1>6 DEF Announce, SendStart, Report, SendDeath, services, ending, CancelInv
<1>7. ASSUME NEW r \in Req, Launch(r) PROVE LateInv'
  BY <1>0, <1>7 DEF Launch, FailLaunch, tasks, services
<1>8. CASE PortalReplies \/ Signal
  BY <1>0, <1>8 DEF PortalReplies, LeaveAtZero, Signal, tasks, services
<1>9. CASE UNCHANGED <<pc, spawner, replacer, cancelled>>
  BY <1>9
<1>10. ASSUME \/ Initialise \/ CounterReceives \/ CounterReturns \/ Publish \/ Listen \/ SeeToken
              \/ RequestShutdown \/ Exit \/ Ended \/ UNCHANGED vars \/ \E r \in Req : ChildExits(r)
       PROVE  UNCHANGED <<pc, spawner, replacer, cancelled>>
  BY <1>10 DEF Initialise, CounterReceives, CounterReturns, Publish, Listen, SeeToken,
     RequestShutdown, Exit, Ended, vars, ChildExits, tasks, services, ending
<1> QED BY <1>1, <1>2, <1>3, <1>4, <1>5, <1>6, <1>7, <1>8, <1>9, <1>10 DEF Next, Task

LEMMA AcceptedStep == TypeOK /\ AcceptedInv /\ [Next]_vars => AcceptedInv'
<1> SUFFICES ASSUME TypeOK, AcceptedInv, [Next]_vars, NEW q \in Req, pc'[q] = "queued"
             PROVE  \E i \in 1 .. Len(spawnQ') : spawnQ'[i] = q
  BY DEF AcceptedInv
<1>0. pc \in [Req -> PC] /\ spawnQ \in Seq(Req)
  BY DEF TypeOK
<1>1. ASSUME NEW r \in Req, Enqueue(r) PROVE \E i \in 1 .. Len(spawnQ') : spawnQ'[i] = q
  <2>1. /\ Len(spawnQ) \in Nat /\ Len(spawnQ') = Len(spawnQ) + 1 /\ spawnQ'[Len(spawnQ) + 1] = r
        /\ \A i \in 1 .. Len(spawnQ) : spawnQ'[i] = spawnQ[i]
    BY <1>0, <1>1, AppendIndexed DEF Enqueue
  <2>2. CASE q = r
    BY <2>1, <2>2
  <2>3. CASE q # r
    <3>1. pc[q] = "queued"
      BY <1>0, <1>1, <2>3 DEF Enqueue, Goto
    <3> QED BY <2>1, <3>1 DEF AcceptedInv
  <2> QED BY <2>2, <2>3
<1>2. CASE SpawnerReceives
  <2>1. /\ Len(spawnQ) \in Nat \ {0} /\ Len(spawnQ') = Len(spawnQ) - 1 /\ Head(spawnQ) = spawnQ[1]
        /\ \A i \in 1 .. Len(spawnQ) - 1 : spawnQ'[i] = spawnQ[i + 1]
    BY <1>0, <1>2, TailIndexed DEF SpawnerReceives
  <2>2. pc[q] = "queued" /\ q # spawnQ[1]
    BY <1>0, <1>2, <2>1 DEF SpawnerReceives, Goto
  <2>3. PICK i \in 1 .. Len(spawnQ) : spawnQ[i] = q
    BY <2>2 DEF AcceptedInv
  <2>4. i - 1 \in 1 .. Len(spawnQ') /\ (i - 1) + 1 = i
    BY <2>1, <2>2, <2>3
  <2> QED BY <2>1, <2>3, <2>4
<1>3. ASSUME UNCHANGED spawnQ, pc[q] = "queued" PROVE \E i \in 1 .. Len(spawnQ') : spawnQ'[i] = q
  BY <1>3 DEF AcceptedInv
<1>4. ASSUME NEW r \in Req, Submit(r), ~Enqueue(r) PROVE UNCHANGED spawnQ /\ pc[q] = "queued"
  BY <1>0, <1>4 DEF Submit, Goto
<1>5. ASSUME NEW r \in Req, Task(r) \/ DropTask(r) PROVE UNCHANGED spawnQ /\ pc[q] = "queued"
  BY <1>0, <1>5 DEF Task, CheckToken, Rewrite, Announce, SendStart, Launch, FailLaunch, Reap, StopWaiting,
     Report, SendDeath, DropTask, services, tasks, Goto
<1>6. ~SpawnerReturns
  BY <1>0 DEF SpawnerReturns
<1>7. ASSUME \/ ReplacerReturns \/ Initialise \/ CounterReceives \/ PortalReplies \/ CounterReturns
             \/ Publish \/ Listen \/ Signal \/ SeeToken \/ RequestShutdown \/ Exit \/ Ended
             \/ UNCHANGED vars \/ \E r \in Req : ChildExits(r)
      PROVE  UNCHANGED spawnQ /\ pc[q] = "queued"
  BY <1>7 DEF ReplacerReturns, Initialise, CounterReceives, PortalReplies, CounterReturns, Publish,
     Listen, Signal, SeeToken, RequestShutdown, Exit, Ended, vars, ChildExits, tasks, services
<1> QED BY ReqAssumption, <1>1, <1>2, <1>3, <1>4, <1>5, <1>6, <1>7 DEF Next, StartFirst

LEMMA RestStep == TypeOK /\ CancelInv /\ RestInv /\ [Next]_vars => RestInv'
<1> SUFFICES ASSUME TypeOK, CancelInv, RestInv, Next \/ UNCHANGED vars PROVE RestInv'
  OBVIOUS
<1>1. CASE Initialise \/ CounterReceives \/ PortalReplies \/ CounterReturns
  BY <1>1 DEF Initialise, CounterReceives, PortalReplies, LeaveAtZero, CounterReturns, RestInv
<1>2. CASE UNCHANGED <<counter, count, ledger>>
  BY <1>2 DEF RestInv
<1>3. ASSUME ~Initialise, ~CounterReceives, ~PortalReplies, ~CounterReturns
      PROVE  UNCHANGED <<counter, count, ledger>>
  BY <1>3 DEF Next, StartFirst, Submit, SpawnerReceives, SpawnerReturns, ReplacerReturns, Task,
     CheckToken, Rewrite, Announce, Launch, Reap, StopWaiting, Report, ChildExits, Publish,
     Listen, Signal, SeeToken, RequestShutdown, DropTask, Exit, Ended, vars, counting
<1> QED BY <1>1, <1>2, <1>3

LEMMA WaitCorrect == Spec => []WInv
<1>1. Init => WInv
  BY InvInit, WaitInit DEF WInv
<1>2. WInv /\ [Next]_vars => WInv'
  BY InvStep, LateStep, AcceptedStep, RestStep DEF WInv, IInv, QInv
<1> QED BY <1>1, <1>2, PTL DEF Spec

\* Until the cancellation each request is served, queued for someone who serves, or
\* at rest, and a counter at rest has a process to wait for (NoneStranded): what the
\* session needs to end by itself is never lost on the way.
THEOREM NobodyStranded == Spec => []NoneStranded
<1>1. WInv => NoneStranded
  <2> SUFFICES ASSUME WInv, Running, ~cancelled PROVE NoneStranded
    BY DEF NoneStranded
  <2>0. TypeOK /\ LedgerInv /\ SentInv /\ CancelInv /\ LateInv
    BY DEF WInv, IInv, QInv
  <2>1. /\ \A r \in Req : pc[r] \notin GivenUp
        /\ spawner = "running" /\ replacer = "running" /\ counter \notin {"leaving", "returned"}
    BY <2>0 DEF LateInv, CancelInv, TypeOK
  <2>2. ASSUME counter = "receiving", countQ = <<>>, NEW r \in Req,
               pc[r] \notin {"idle", "queued", "begun", "rewriting", "announcing"}
        PROVE  \E q \in Tracked : pc[q] \in Owing
    <3>1. \A m : ~Queued(m)
      BY <2>2 DEF Queued
    <3>2. pc[r] \in Owing \cup {"reported"}
      BY <2>0, <2>1, <2>2 DEF TypeOK, PC, AtAwait, GivenUp, Owing
    <3>3. CASE pc[r] \in Owing
      BY <2>0, <2>2, <3>1, <3>3 DEF SentInv, Tracked
    <3>4. CASE pc[r] = "reported"
      <4>1. ledger[r] = "down"
        BY <2>0, <2>2, <3>1, <3>4 DEF SentInv
      <4>2. count # 0 /\ count = Cardinality(Tracked)
        BY <2>2, <4>1 DEF WInv, RestInv, IInv, CountIsTracked
      <4>3. PICK q \in Tracked : TRUE
        BY <4>2, FS_EmptySet
      <4>4. q \in Req /\ ledger[q] = "up"
        BY <4>3 DEF Tracked
      <4>5. pc[q] \notin Early /\ pc[q] # "reported"
        BY <2>0, <2>2, <3>1, <4>4 DEF LedgerInv, SentInv
      <4>6. pc[q] \in Owing
        BY <2>0, <2>1, <4>4, <4>5 DEF TypeOK, PC, AtAwait, GivenUp, Owing, Early
      <4> QED BY <4>3, <4>6
    <3> QED BY <3>2, <3>3, <3>4
  <2> QED BY <2>1, <2>2 DEF NoneStranded, WInv, AcceptedInv, Owing
<1> QED BY <1>1, WaitCorrect, PTL

\* What QuietEnds needs at each moment: as long as a session at rest has not ended,
\* its counter has a message to receive or is in the middle of one.
THEOREM QuietGoesOn ==
  Spec => [](Quiet /\ Running /\ ~cancelled => countQ # <<>> \/ counter \in {"initialising", "portal"})
<1>1. TypeOK /\ NoneStranded => (Quiet /\ Running /\ ~cancelled =>
                                  countQ # <<>> \/ counter \in {"initialising", "portal"})
  <2> SUFFICES ASSUME TypeOK, NoneStranded, Quiet, Running, ~cancelled, countQ = <<>>,
                      counter \notin {"initialising", "portal"}
               PROVE  FALSE
    OBVIOUS
  <2>1. First \in Req /\ counter = "receiving"
    BY ReqAssumption DEF TypeOK, NoneStranded
  <2>2. CASE \A r \in Req : pc[r] \in {"idle", "queued", "begun", "rewriting", "announcing"}
    BY <2>1, <2>2 DEF Quiet, AtAwait
  <2>3. CASE \E r \in Tracked : pc[r] \in {"launching", "waiting", "reporting"}
    BY <2>3 DEF Tracked, Quiet, AtAwait
  <2> QED BY <2>1, <2>2, <2>3 DEF NoneStranded
<1> QED BY <1>1, NobodyStranded, TypeCorrect, PTL

-----------------------------------------------------------------------------
(* Closing. *)

\* The counter closes a session over no process it knows of, and it knows of every
\* process but those whose start it has not received yet (ClosesUncounted).
THEOREM ClosesOverNone == Spec => ClosesUncounted
<1>1. IInv /\ [Next]_vars => [~cancelled /\ cancelled' /\ ~signalled' =>
                               \A r \in Req : child[r] = "alive" => Queued(ProcessStarted(r))]_vars
  <2> SUFFICES ASSUME IInv, Next, ~cancelled, cancelled', ~signalled', NEW r \in Req, child[r] = "alive"
               PROVE  Queued(ProcessStarted(r))
    OBVIOUS
  <2>1. PortalReplies
    BY DEF Next, StartFirst, Submit, SpawnerReceives, SpawnerReturns, ReplacerReturns, Task,
       CheckToken, Rewrite, Announce, Launch, Reap, StopWaiting, Report, ChildExits, Initialise,
       CounterReceives, CounterReturns, Publish, Listen, Signal, SeeToken, RequestShutdown, DropTask,
       Exit, Ended, vars, ending
  <2>2. count = 0 /\ counter = "portal"
    BY <2>1 DEF PortalReplies, LeaveAtZero
  <2>3. Tracked = {}
    BY <2>2, TrackedFinite, FS_EmptySet DEF IInv, CountIsTracked
  <2>4. ledger[r] = "up" \/ Queued(ProcessStarted(r))
    BY <2>2 DEF IInv, QInv, AliveInv, SentInv, Owing
  <2> QED BY <2>3, <2>4 DEF Tracked
<1> QED BY <1>1, InvCorrect, PTL DEF Spec, ClosesUncounted
=============================================================================
