---------------------------- MODULE ProcessTracker ----------------------------
(***************************************************************************)
(* The life of a running sandbox: start requests travel from their callers *)
(* (main for the packaged program, a D-Bus handler for every other one)    *)
(* over the spawner's channel to one task each (spawn.rs); a task reports  *)
(* its process to the counter over a second channel (counter.rs); the      *)
(* counter cancels the shared token when it has counted down to zero; main *)
(* (main.rs) waits for the token or a signal, asks the daemon to stop and  *)
(* lets the runtime drop every task.                                       *)
(*                                                                         *)
(* All tasks run in parallel on a multi-threaded runtime: one action is    *)
(* one access to shared state (a channel, the token, a child process).     *)
(***************************************************************************)
EXTENDS Naturals, Sequences, FiniteSets

CONSTANTS
  Req,        \* the start requests of one run, each served by one task
  First,      \* the request main makes for the packaged program
  SpawnCap,   \* capacity of the spawner's channel (5 in spawn.rs:47)
  CountCap,   \* capacity of the counter's channel (16 in counter.rs:19)
  UsizeMax    \* largest value of the counter's usize

\* A request occupies memory, so there are not more of them than a usize counts.
ASSUME ReqAssumption ==
  First \in Req /\ IsFiniteSet(Req) /\ UsizeMax \in Nat /\ Cardinality(Req) <= UsizeMax
ASSUME CapAssumption == SpawnCap \in Nat \ {0} /\ CountCap \in Nat \ {0}

VARIABLES
  pc,         \* how far each request has come
  child,      \* the operating system process started for each request
  spawnQ,     \* the spawner's channel
  countQ,     \* the counter's channel; the request in a message is auxiliary
  spawner,    \* the task running spawn::run
  replacer,   \* the task running process_env::run
  counter,    \* the task running counter::start
  count,      \* its local variable
  shown,      \* what the status subsystems were last told
  cancelled,  \* the cancellation token
  main,       \* main, from the first start request on, and the process's end
  ledger,     \* history: which requests the counter has counted up and down
  signalled   \* history: SIGINT or SIGTERM has arrived

tasks == <<pc, child>>
services == <<spawner, replacer, spawnQ>>
counting == <<counter, countQ, count, shown, ledger>>
ending == <<cancelled, main, signalled>>
vars == <<tasks, services, counting, ending>>

-----------------------------------------------------------------------------
\* Where a task can be when the runtime drops it: it is queued or at an .await.
AtAwait == {"begun", "rewriting", "announcing", "waiting", "reporting"}

PC == AtAwait \cup
  {"idle",        \* not requested yet
   "refused",     \* the caller's send found the channel closed and panicked
   "queued",      \* in the spawner's channel
   "lost",        \* dropped with the spawner's channel
   "skipped",     \* the token was cancelled before the task looked
   "unwritten",   \* the replacer was gone: the task panicked
   "unannounced", \* the counter was gone: log_fatal
   "launching",   \* counted, its process not started yet
   "dropped",     \* the task ended at an .await because of the token or the runtime
   "reported",    \* the death was sent
   "unreported"}  \* the counter was gone: the task panicked

Child == {"none", "alive", "exited", "killed"}
Status == [state : {"unknown", "up", "ready", "stopping"}, tracked : 0 .. UsizeMax]
Subsystem == {"systemd", "portal"}
Message == [kind : {"ProcessStarted", "ProcessDied"}, req : Req]

ProcessStarted(r) == [kind |-> "ProcessStarted", req |-> r]
ProcessDied(r)    == [kind |-> "ProcessDied", req |-> r]
Queued(m) == \E i \in 1 .. Len(countQ) : countQ[i] = m

\* The requests the counter counts now.
Tracked == {r \in Req : ledger[r] = "up"}

Running == main \notin {"exited", "dead"}

TypeOK ==
  /\ pc \in [Req -> PC]
  /\ child \in [Req -> Child]
  /\ spawnQ \in Seq(Req) /\ Len(spawnQ) <= SpawnCap
  /\ countQ \in Seq(Message) /\ Len(countQ) <= CountCap
  /\ spawner \in {"running", "returned"}
  /\ replacer \in {"running", "returned"}
  /\ counter \in {"initialising", "receiving", "portal", "leaving", "returned"}
  /\ count \in 0 .. UsizeMax
  /\ shown \in [Subsystem -> Status]
  /\ cancelled \in BOOLEAN
  /\ main \in {"starting", "publishing", "published", "serving", "stopping",
              "teardown", "exited", "dead"}
  /\ ledger \in [Req -> {"new", "up", "down"}]
  /\ signalled \in BOOLEAN

Init ==
  /\ pc = [r \in Req |-> "idle"]
  /\ child = [r \in Req |-> "none"]
  /\ spawnQ = <<>> /\ countQ = <<>>
  /\ spawner = "running" /\ replacer = "running" /\ counter = "initialising"
  /\ count = 0
  /\ shown = [s \in Subsystem |-> [state |-> "unknown", tracked |-> 0]]
  /\ cancelled = FALSE
  /\ main = "starting"
  /\ ledger = [r \in Req |-> "new"]
  /\ signalled = FALSE

-----------------------------------------------------------------------------
(* The callers of Spawner::spawn and the spawner's loop. *)

Goto(r, where) == pc' = [pc EXCEPT ![r] = where]

\* Variant: an unbounded channel.
EnqueueUnbounded(r) ==
  spawner = "running" /\ spawnQ' = Append(spawnQ, r) /\ Goto(r, "queued")

\* self.tx.send(msg).await: waits while the channel is full.
Enqueue(r) ==
  /\ spawner = "running" /\ Len(spawnQ) < SpawnCap
  /\ spawnQ' = Append(spawnQ, r)
  /\ Goto(r, "queued")

\* main starts the packaged program before it publishes the D-Bus object. Nothing
\* can have cancelled the token yet, so this send finds the channel open.
StartFirst ==
  /\ main = "starting"
  /\ Enqueue(First)
  /\ main' = "publishing"
  /\ UNCHANGED <<child, spawner, replacer, counting, cancelled, signalled>>

\* A D-Bus handler passes a request on; the .unwrap() panics on a closed channel.
Submit(r) ==
  /\ main \in {"published", "serving", "stopping", "teardown"}
  /\ pc[r] = "idle"
  /\ \/ Enqueue(r)
     \/ spawner = "returned" /\ Goto(r, "refused") /\ UNCHANGED spawnQ
  /\ UNCHANGED <<child, spawner, replacer, counting, ending>>

\* Variant: the loop is left after its first message.
SpawnerReceivesOnce ==
  /\ Running
  /\ spawner = "running" /\ spawnQ # <<>>
  /\ Goto(Head(spawnQ), "begun")
  /\ spawnQ' = Tail(spawnQ) /\ spawner' = "returned"
  /\ UNCHANGED <<child, replacer, counting, ending>>

\* One turn of the loop: each message gets a task of its own.
SpawnerReceives ==
  /\ Running
  /\ spawner = "running" /\ spawnQ # <<>>
  /\ Goto(Head(spawnQ), "begun")
  /\ spawnQ' = Tail(spawnQ)
  /\ UNCHANGED <<child, spawner, replacer, counting, ending>>

\* The select! saw the token: the receiver is dropped with what it still held.
SpawnerReturns ==
  /\ Running
  /\ spawner = "running" /\ cancelled
  /\ spawner' = "returned"
  /\ spawnQ' = <<>>
  /\ pc' = [r \in Req |-> IF pc[r] = "queued" THEN "lost" ELSE pc[r]]
  /\ UNCHANGED <<child, replacer, counting, ending>>

ReplacerReturns ==
  /\ Running
  /\ replacer = "running" /\ cancelled
  /\ replacer' = "returned"
  /\ UNCHANGED <<tasks, spawner, spawnQ, counting, ending>>

-----------------------------------------------------------------------------
(* One spawned task. *)

CheckToken(r) ==
  /\ Running
  /\ pc[r] = "begun"
  /\ Goto(r, IF cancelled THEN "skipped" ELSE "rewriting")
  /\ UNCHANGED <<child, services, counting, ending>>

\* The replacer answers, or has returned and the task panics.
Rewrite(r) ==
  /\ Running
  /\ pc[r] = "rewriting"
  /\ Goto(r, IF replacer = "running" THEN "announcing" ELSE "unwritten")
  /\ UNCHANGED <<child, services, counting, ending>>

SendStart(r) == countQ' = Append(countQ, ProcessStarted(r)) /\ Goto(r, "launching")

\* counter_tx.send(ProcessStarted), before the process exists. A closed channel
\* is fatal: the whole of Init is killed by SIGABRT.
Announce(r) ==
  /\ Running
  /\ pc[r] = "announcing"
  /\ \/ /\ counter # "returned" /\ Len(countQ) < CountCap
        /\ SendStart(r)
        /\ UNCHANGED main
     \/ /\ counter = "returned"
        /\ Goto(r, "unannounced")
        /\ main' = "dead"
        /\ UNCHANGED countQ
  /\ UNCHANGED <<child, services, counter, count, shown, ledger, cancelled, signalled>>

\* Variant: a failed start ends the task only.
FailLaunchQuietly(r) == Goto(r, "dropped") /\ UNCHANGED <<child, main>>

FailLaunch(r) == main' = "dead" /\ UNCHANGED tasks

\* command.spawn(): the process starts, or log_fatal kills Init.
Launch(r) ==
  /\ Running
  /\ pc[r] = "launching"
  /\ \/ Goto(r, "waiting") /\ child' = [child EXCEPT ![r] = "alive"] /\ UNCHANGED main
     \/ FailLaunch(r)
  /\ UNCHANGED <<services, counting, cancelled, signalled>>

\* The process ends by itself (the operating system's step).
ChildExits(r) ==
  /\ Running
  /\ child[r] = "alive"
  /\ child' = [child EXCEPT ![r] = "exited"]
  /\ UNCHANGED <<pc, services, counting, ending>>

\* The select! saw the process's exit.
Reap(r) ==
  /\ Running
  /\ pc[r] = "waiting" /\ child[r] = "exited"
  /\ Goto(r, "reporting")
  /\ UNCHANGED <<child, services, counting, ending>>

\* Variant: kill_on_drop is not set.
DropChildAlive(r) == UNCHANGED child

\* command.kill_on_drop(true): dropping the handle kills a process that still runs.
DropChild(r) ==
  child' = [child EXCEPT ![r] = IF @ = "alive" THEN "killed" ELSE @]

\* The select! saw the token.
StopWaiting(r) ==
  /\ Running
  /\ pc[r] = "waiting" /\ cancelled
  /\ Goto(r, "dropped")
  /\ DropChild(r)
  /\ UNCHANGED <<services, counting, ending>>

\* Variant: the message is sent and then sent again.
SendDeathAgain(r) == countQ' = Append(countQ, ProcessDied(r)) /\ UNCHANGED pc

SendDeath(r) == countQ' = Append(countQ, ProcessDied(r)) /\ Goto(r, "reported")

\* counter_tx.send(ProcessDied): the .unwrap() panics on a closed channel.
Report(r) ==
  /\ Running
  /\ pc[r] = "reporting"
  /\ \/ /\ counter # "returned" /\ Len(countQ) < CountCap
        /\ SendDeath(r)
     \/ /\ counter = "returned"
        /\ Goto(r, "unreported")
        /\ UNCHANGED countQ
  /\ UNCHANGED <<child, services, counter, count, shown, ledger, ending>>

-----------------------------------------------------------------------------
(* The counter. *)

\* A status subsystem is told, or the update fails and is logged.
Tell(subsystem, status) == shown' \in {shown, [shown EXCEPT ![subsystem] = status]}

SandboxStatus(n) ==
  IF n = 0 THEN [state |-> "stopping", tracked |-> 0]
           ELSE [state |-> "ready", tracked |-> n]

\* READY=1 is sent before the first message is looked at.
Initialise ==
  /\ Running
  /\ counter = "initialising"
  /\ counter' = "receiving"
  /\ Tell("systemd", [state |-> "up", tracked |-> 0])
  /\ UNCHANGED <<tasks, services, countQ, count, ledger, ending>>

\* usize arithmetic of the release build: it wraps.
Counted(kind) ==
  IF kind = "ProcessStarted" THEN IF count = UsizeMax THEN 0 ELSE count + 1
                             ELSE IF count = 0 THEN UsizeMax ELSE count - 1

\* A message is counted and systemd told, with no .await in between.
CounterReceives ==
  /\ Running
  /\ counter = "receiving" /\ countQ # <<>>
  /\ LET m == Head(countQ) IN
       /\ count' = Counted(m.kind)
       /\ ledger' = [ledger EXCEPT ![m.req] =
                       IF m.kind = "ProcessStarted" THEN "up" ELSE "down"]
  /\ countQ' = Tail(countQ)
  /\ Tell("systemd", SandboxStatus(count'))
  /\ counter' = "portal"
  /\ UNCHANGED <<tasks, services, ending>>

\* Variants of what follows an update at zero: the counter goes on receiving; it
\* leaves without cancelling; it leaves with one request still counted.
LeaveNever == counter' = "receiving" /\ cancelled' = (cancelled \/ count = 0)
LeaveUncancelled ==
  counter' = (IF count = 0 THEN "leaving" ELSE "receiving") /\ UNCHANGED cancelled
LeaveEarly ==
  /\ counter' = IF count <= 1 THEN "leaving" ELSE "receiving"
  /\ cancelled' = (cancelled \/ count <= 1)

LeaveAtZero ==
  /\ counter' = IF count = 0 THEN "leaving" ELSE "receiving"
  /\ cancelled' = (cancelled \/ count = 0)

\* The portal's D-Bus reply arrives; at zero the counter then cancels the token
\* without looking at its channel again.
PortalReplies ==
  /\ Running
  /\ counter = "portal"
  /\ Tell("portal", SandboxStatus(count))
  /\ LeaveAtZero
  /\ UNCHANGED <<tasks, services, countQ, count, ledger, main, signalled>>

\* The receiver is dropped: on the way out after zero, because the select! saw the
\* token, or because the runtime dropped the task while it awaited the portal.
CounterReturns ==
  /\ Running
  /\ \/ counter = "leaving"
     \/ counter = "receiving" /\ cancelled
     \/ counter \in {"initialising", "portal"} /\ main = "teardown"
  /\ counter' = "returned"
  /\ countQ' = <<>>
  /\ UNCHANGED <<tasks, services, count, shown, ledger, ending>>

-----------------------------------------------------------------------------
(* main, from the first start request to the end of the process. *)

\* IPC::publish succeeds, or log_fatal kills Init.
Publish ==
  /\ main = "publishing"
  /\ main' \in {"published", "dead"}
  /\ UNCHANGED <<tasks, services, counting, cancelled, signalled>>

\* The signal listeners are installed. (Their panic is left out: tokio refuses only
\* signals that cannot be handled.)
Listen ==
  /\ main = "published"
  /\ main' = "serving"
  /\ UNCHANGED <<tasks, services, counting, cancelled, signalled>>

\* SIGINT or SIGTERM. The listeners exist once main serves; before that the
\* default action ends the process.
Signal ==
  /\ main \in {"starting", "publishing", "published", "serving"}
  /\ signalled' = TRUE
  /\ main' = IF main = "serving" THEN "stopping" ELSE "dead"
  /\ cancelled' = (cancelled \/ main = "serving")
  /\ UNCHANGED <<tasks, services, counting>>

\* Variant: main waits for signals only.
SeeTokenNever == FALSE

SeeToken ==
  /\ main = "serving" /\ cancelled
  /\ main' = "stopping"
  /\ UNCHANGED <<tasks, services, counting, cancelled, signalled>>

\* The daemon is asked to stop (a failure is only logged) and main returns.
RequestShutdown ==
  /\ main = "stopping"
  /\ main' = "teardown"
  /\ UNCHANGED <<tasks, services, counting, cancelled, signalled>>

\* The runtime drops a task where it awaits; its child handle goes with it.
DropTask(r) ==
  /\ main = "teardown"
  /\ pc[r] \in AtAwait
  /\ Goto(r, "dropped")
  /\ DropChild(r)
  /\ UNCHANGED <<services, counting, ending>>

\* The runtime is gone and main's exit code is returned.
Exit ==
  /\ main = "teardown"
  /\ spawner = "returned" /\ replacer = "returned" /\ counter = "returned"
  /\ \A r \in Req : pc[r] \notin AtAwait \cup {"launching"}
  /\ main' = "exited"
  /\ UNCHANGED <<tasks, services, counting, cancelled, signalled>>

\* The process has ended: no action is left, and this is not a deadlock.
Ended == ~Running /\ UNCHANGED vars

-----------------------------------------------------------------------------
Task(r) ==
  \/ CheckToken(r) \/ Rewrite(r) \/ Announce(r) \/ Launch(r)
  \/ Reap(r) \/ StopWaiting(r) \/ Report(r)

Next ==
  \/ StartFirst
  \/ \E r \in Req : Submit(r)
  \/ SpawnerReceives \/ SpawnerReturns \/ ReplacerReturns
  \/ \E r \in Req : Task(r)
  \/ \E r \in Req : ChildExits(r)
  \/ Initialise \/ CounterReceives \/ PortalReplies \/ CounterReturns
  \/ Publish \/ Listen \/ Signal \/ SeeToken \/ RequestShutdown
  \/ \E r \in Req : DropTask(r)
  \/ Exit
  \/ Ended

Spec == Init /\ [][Next]_vars

(***************************************************************************)
(* The runtime polls every task that can make progress, the bus answers    *)
(* Init's own calls, and the destructors run. Nothing is assumed of the    *)
(* user (Submit, Signal), of the processes (ChildExits) or of the portal.  *)
(***************************************************************************)
RuntimeFairness ==
  /\ WF_vars(StartFirst) /\ WF_vars(Publish) /\ WF_vars(Listen)
  /\ WF_vars(SeeToken) /\ WF_vars(RequestShutdown) /\ WF_vars(Exit)
  /\ WF_vars(SpawnerReceives) /\ WF_vars(SpawnerReturns) /\ WF_vars(ReplacerReturns)
  /\ WF_vars(Initialise) /\ WF_vars(CounterReceives) /\ WF_vars(CounterReturns)
  /\ \A r \in Req : WF_vars(Task(r)) /\ WF_vars(DropTask(r))

\* The portal answers SetStatus; nothing in the code bounds the wait for it.
PortalAnswers == WF_vars(PortalReplies)

LiveSpec == Spec /\ RuntimeFairness

-----------------------------------------------------------------------------
(* Safety. *)

\* The counter's variable is the number of requests counted up and not down, so
\* no message is counted twice and the usize never wraps.
CountIsTracked == count = Cardinality(Tracked)

\* A death is never the next message while nothing is counted: `count -= 1` does
\* not underflow, although starts and deaths of many tasks share one channel.
DeathFollowsStart ==
  countQ # <<>> /\ Head(countQ).kind = "ProcessDied" => count > 0

\* While the counter lives, a running process is counted or its start is still in
\* the channel: the counter never knows less than what it has been sent.
LiveIsCounted ==
  \A r \in Req : child[r] = "alive" /\ counter # "returned" =>
    ledger[r] = "up" \/ Queued(ProcessStarted(r))

\* A counted request still has someone to count it down, until the token is
\* cancelled or Init is killed: no failure leaves the count too high for ever.
NoLeakedCount ==
  \A r \in Tracked : Running /\ ~cancelled =>
    pc[r] \in {"launching", "waiting", "reporting"} \/ Queued(ProcessDied(r))

\* Until the token is cancelled nobody waits for what will not come: no request has
\* been given up, the spawner's channel still holds each one it has accepted, those
\* who receive do, and a counter at rest has a process whose death will wake it,
\* unless no request has come as far as the counter yet.
GivenUp == {"refused", "lost", "skipped", "unwritten", "unannounced", "dropped", "unreported"}
NoneStranded ==
  Running /\ ~cancelled =>
    /\ \A r \in Req : pc[r] \notin GivenUp
    /\ \A r \in Req : pc[r] = "queued" => \E i \in 1 .. Len(spawnQ) : spawnQ[i] = r
    /\ spawner = "running" /\ replacer = "running" /\ counter \notin {"leaving", "returned"}
    /\ counter = "receiving" /\ countQ = <<>> =>
         \/ \A r \in Req : pc[r] \in {"idle", "queued", "begun", "rewriting", "announcing"}
         \/ \E r \in Tracked : pc[r] \in {"launching", "waiting", "reporting"}

\* The counter closes the session from its count alone. It overlooks no process
\* except one whose start is in its channel at that moment.
ClosesUncounted ==
  [][~cancelled /\ cancelled' /\ ~signalled' =>
       \A r \in Req : child[r] = "alive" => Queued(ProcessStarted(r))]_vars

\* When main has returned in order, no process of the sandbox is left running.
NoneLeftBehind == main = "exited" => \A r \in Req : child[r] # "alive"

\* Once a subsystem was told that the sandbox is stopping, it is never told
\* anything else: the counter does not go back from zero.
StoppingIsFinal ==
  [][\A s \in Subsystem : shown[s].state = "stopping" => shown'[s] = shown[s]]_vars

\* The tracker implements the promise of Session.
Phase ==
  CASE main = "dead"           -> "crashed"
    [] main = "exited"         -> "closed"
    [] Running /\ cancelled    -> "closing"
    [] Running /\ ~cancelled   -> "open"

Promise == INSTANCE Session WITH phase <- Phase
SessionKept == Promise!Spec

-----------------------------------------------------------------------------
(* Liveness. *)

\* Cancelling the token ends Init, whatever the processes and the portal do.
CancelEnds == cancelled ~> ~Running

\* When every request has come to rest after the first was started, and no new
\* one comes, the session ends by itself, if the portal answers.
Quiet == pc[First] # "idle" /\ \A r \in Req : pc[r] \in PC \ ({"queued", "launching"} \cup AtAwait)
QuietEnds == PortalAnswers /\ <>[]Quiet => <>~Running

\* A request the spawner has accepted gets its process, unless the session ends,
\* also when the counter's channel was full on the way, if the portal answers.
AcceptedStarts ==
  PortalAnswers =>
    \A r \in Req : pc[r] = "queued" ~> (child[r] # "none" \/ cancelled \/ ~Running)

-----------------------------------------------------------------------------
(* Assertions of the source that the program does not keep. *)

\* spawn.rs:39 unwraps the send of a start request.
StartSendSucceeds == \A r \in Req : pc[r] # "refused"

\* spawn.rs:126-134 treats an unreachable counter as fatal.
StartSendReachesCounter == \A r \in Req : pc[r] # "unannounced"
=============================================================================
