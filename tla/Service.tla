-------------------------------- MODULE Service --------------------------------
(***************************************************************************)
(* The service as a whole: the D-Bus handlers of start requests (ipc.rs),  *)
(* the replacer and the process tracker, joined where the code joins them. *)
(* A handler adds its files and then submits the start; the task of the    *)
(* start has its arguments rewritten before it announces its process; all  *)
(* share the token and end with main. Three bounded channels lie on the    *)
(* way of one request.                                                     *)
(*                                                                         *)
(* Every action is one of a component, or one of each that are the same    *)
(* step of the program; `stage` is Replacer!pc, how far a request has come *)
(* with the replacer.                                                      *)
(***************************************************************************)
EXTENDS Naturals, Sequences, FiniteSets

CONSTANTS Req, First, SpawnCap, CountCap, UsizeMax,   \* see ProcessTracker
          Path, Cap, ConfArgs, FileMap, Extra, Arguments   \* see Replacer

VARIABLES
  pc, child, spawnQ, countQ, spawner, counter, count, shown, main, ledger, signalled,
  stage, extra, args, out, queue, mappings, sent, due,
  replacer, cancelled   \* of both

R == INSTANCE Replacer WITH pc <- stage

\* What the components assume of their constants.
ASSUME ServiceAssumption ==
  /\ IsFiniteSet(Req) /\ First \in Req /\ UsizeMax \in Nat /\ Cardinality(Req) <= UsizeMax
  /\ SpawnCap \in Nat \ {0} /\ CountCap \in Nat \ {0} /\ Cap \in Nat \ {0}
  /\ ConfArgs \in Seq(Path) /\ Arguments \subseteq Seq(Path)
  /\ FileMap \in R!PathMap /\ Extra \subseteq R!PathMap

\* To the tracker it is the same whether the replacer has returned or panicked.
T == INSTANCE ProcessTracker WITH
       replacer <- IF replacer = "running" THEN "running" ELSE "returned"

tracking == <<pc, child, spawnQ, countQ, spawner, counter, count, shown, main, ledger, signalled>>
rewriting == <<stage, extra, args, out, queue, mappings, sent, due>>
vars == <<tracking, rewriting, replacer, cancelled>>

Init == R!Init /\ T!Init

-----------------------------------------------------------------------------
(* Requests. *)

\* A step of the replacer and its callers that the tracker takes no part in.
Rewriting(action) == action /\ T!Running /\ UNCHANGED tracking

\* A step of the tracker that the replacer takes no part in.
Tracking(action) == UNCHANGED <<rewriting, replacer>> /\ action

\* main adds the configured map before anything else that is modelled here.
PrepareFirst ==
  /\ main = "starting"
  /\ Rewriting(R!CallFirst \/ R!SendAdd(First))

StartFirst ==
  /\ stage[First] = "spawned"
  /\ Tracking(T!StartFirst)

\* A call arrives at the published object, which main's end does not take away.
Call(r) ==
  /\ main \in {"published", "serving", "stopping", "teardown"}
  /\ Rewriting(R!Call(r))

AddFiles(r) == r # First /\ Rewriting(R!SendAdd(r))

\* The handler goes on only when its files were added.
Submit(r) ==
  /\ r # First /\ stage[r] = "spawned"
  /\ Tracking(T!Submit(r))

-----------------------------------------------------------------------------
(* The task of a request and the replacer. *)

\* The task goes on when it has its answer, or panics when it gets none.
SendRewrite(r) ==
  /\ pc[r] = "rewriting"
  /\ R!SendRewrite(r) /\ T!Running
  /\ IF stage'[r] = "failed" THEN T!Rewrite(r) ELSE UNCHANGED tracking

\* Variant: the task goes on with the arguments it has.
LoseAnswerKeeping(r) ==
  /\ R!LoseAnswer(r) /\ pc[r] = "rewriting"
  /\ pc' = [pc EXCEPT ![r] = "announcing"]
  /\ UNCHANGED <<child, spawnQ, countQ, spawner, counter, count, shown, main, ledger, signalled>>

LoseAnswer(r) == R!LoseAnswer(r) /\ T!Rewrite(r)

ServeAdd == Rewriting(R!ServeAdd)

\* A rewriting is answered, or the replacer cancels the token and panics over a task
\* that was dropped. (That this is then a step of the tracker is for TrackerKept.)
ServeRewrite ==
  /\ R!ServeRewrite /\ T!Running
  /\ IF replacer' = "running" THEN T!Rewrite(Head(queue).req) ELSE UNCHANGED tracking

ReplacerReturns == R!Return /\ T!ReplacerReturns

\* Variant: a task gives the rewriting up after a time.
DropTaskInTime(r) ==
  /\ T!Running /\ pc[r] = "rewriting" /\ stage[r] = "rewriting"
  /\ pc' = [pc EXCEPT ![r] = "dropped"] /\ stage' = [stage EXCEPT ![r] = "dropped"]
  /\ UNCHANGED <<child, spawnQ, countQ, spawner, counter, count, shown, main, ledger,
                 signalled, extra, args, out, queue, mappings, sent, due, replacer, cancelled>>

\* The runtime drops a task, and with it the receiver of the answer it waits for.
DropTask(r) ==
  /\ IF stage[r] \in {"spawned", "rewriting"} THEN R!DropTask(r)
                                              ELSE UNCHANGED <<rewriting, replacer>>
  /\ T!DropTask(r)

-----------------------------------------------------------------------------
Task(r) ==
  Tracking(\/ T!CheckToken(r) \/ T!Announce(r) \/ T!Launch(r)
           \/ T!Reap(r) \/ T!StopWaiting(r) \/ T!Report(r))

Counter == Tracking(T!Initialise \/ T!CounterReceives \/ T!CounterReturns)
Spawner == Tracking(T!SpawnerReceives \/ T!SpawnerReturns)
Main == Tracking(T!Publish \/ T!Listen \/ T!SeeToken \/ T!RequestShutdown \/ T!Exit)

Ended == ~T!Running /\ UNCHANGED vars

Next ==
  \/ PrepareFirst \/ StartFirst
  \/ \E r \in Req : Call(r) \/ AddFiles(r) \/ Submit(r)
  \/ \E r \in Req : SendRewrite(r) \/ LoseAnswer(r)
  \/ ServeAdd \/ ServeRewrite \/ ReplacerReturns
  \/ Spawner \/ Counter \/ Main
  \/ \E r \in Req : Task(r) \/ DropTask(r)
  \/ Tracking(T!PortalReplies)
  \/ Tracking(T!Signal)
  \/ \E r \in Req : Tracking(T!ChildExits(r))
  \/ Ended

Spec == Init /\ [][Next]_vars

\* As in the components: tasks run, the bus answers Init, destructors run, and here
\* also the portal answers. Nothing is assumed of users and processes.
Fairness ==
  /\ WF_vars(PrepareFirst) /\ WF_vars(StartFirst) /\ WF_vars(Main)
  /\ WF_vars(ServeAdd) /\ WF_vars(ServeRewrite) /\ WF_vars(ReplacerReturns)
  /\ WF_vars(Tracking(T!SpawnerReceives)) /\ WF_vars(Tracking(T!SpawnerReturns))
  /\ WF_vars(Counter) /\ WF_vars(Tracking(T!PortalReplies))
  /\ \A r \in Req : WF_vars(SendRewrite(r) \/ LoseAnswer(r)) /\ WF_vars(Task(r)) /\ WF_vars(DropTask(r))

LiveSpec == Spec /\ Fairness

-----------------------------------------------------------------------------
\* Both components, put together, behave as they were specified one by one: neither
\* does to the other what that one was assumed to be spared.
TrackerKept == T!Spec
ReplacerKept == R!Spec

\* A process is never started with other arguments than the caller's, rewritten by
\* all entries that were sent before: not with unrewritten ones when the replacer
\* ends, nor before the caller's own files are in the map.
StartedAsAsked ==
  \A r \in Req : child[r] # "none" => stage[r] = "answered" /\ out[r] = due[r]

\* The replacer cancels the token when an answer finds no taker. That never ends a
\* session that was not ending: nobody stops waiting for an answer before.
ReplacerNeverEnds == [][replacer' = "panicked" => cancelled]_vars

\* A request that was accepted gets its process, or the session ends, although on
\* its way the tasks of all requests fill three bounded channels.
AcceptedStarts == \A r \in Req : pc[r] = "queued" ~> (child[r] # "none" \/ cancelled \/ ~T!Running)
=============================================================================
