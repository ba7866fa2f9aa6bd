---------------------------- MODULE ServiceProofs ----------------------------
(***************************************************************************)
(* The components keep to their specifications when they are composed:     *)
(* each step of Service is a step of the replacer's module or leaves it    *)
(* alone, and the same for the tracker's. The first needs nothing but the  *)
(* type of the token; the second the replacer's own invariant, from the    *)
(* first: the replacer ends the session for no one.                        *)
(***************************************************************************)
EXTENDS Service, TLAPS

RP == INSTANCE ReplacerProofs WITH pc <- stage

SP == INSTANCE SessionProofs WITH
        replacer <- IF replacer = "running" THEN "running" ELSE "returned"

CancelType == cancelled \in BOOLEAN

-----------------------------------------------------------------------------
(* The replacer. *)

\* No step of the tracker takes a cancellation back.
LEMMA TrackerCancels ==
  ASSUME CancelType, [T!Next]_T!vars
  PROVE  CancelType' /\ (cancelled => cancelled')
BY DEF CancelType, T!Next, T!vars, T!tasks, T!services, T!counting, T!ending, T!StartFirst, T!Submit,
   T!SpawnerReceives, T!SpawnerReturns, T!ReplacerReturns, T!Task, T!CheckToken, T!Rewrite,
   T!Announce, T!Launch, T!FailLaunch, T!Reap, T!StopWaiting, T!Report, T!ChildExits, T!Initialise,
   T!CounterReceives, T!PortalReplies, T!LeaveAtZero, T!CounterReturns, T!Publish, T!Listen, T!Signal,
   T!SeeToken, T!RequestShutdown, T!DropTask, T!Exit, T!Ended

\* A step of the tracker alone is one of whoever cancels the token, or none.
LEMMA TrackingMaps ==
  ASSUME CancelType, UNCHANGED <<rewriting, replacer>>, [T!Next]_T!vars
  PROVE  CancelType' /\ [R!Next]_R!vars
<1>1. CancelType' /\ (cancelled => cancelled')
  BY TrackerCancels
<1>2. CASE cancelled' = cancelled
  BY <1>1, <1>2 DEF rewriting, R!vars, R!callers
<1>3. CASE cancelled' # cancelled
  <2>1. ~cancelled /\ cancelled' = TRUE
    BY <1>1, <1>3 DEF CancelType
  <2>2. R!Cancel
    BY <2>1 DEF R!Cancel, R!callers, rewriting
  <2> QED BY <1>1, <2>2 DEF R!Next
<1> QED BY <1>2, <1>3

\* No step of the replacer or its callers leaves another value in the token.
LEMMA ReplacerCancels ==
  ASSUME CancelType, R!Next
  PROVE  CancelType'
BY DEF CancelType, R!Next, R!CallFirst, R!Call, R!SendAdd, R!SendRewrite, R!LoseAnswer, R!DropTask,
   R!ServeAdd, R!ServeRewrite, R!Return, R!Cancel, R!Ended, R!vars

LEMMA ReplacerStep ==
  ASSUME CancelType, [Next]_vars
  PROVE  CancelType' /\ [R!Next]_R!vars
<1>1. CASE PrepareFirst
  <2>1. First \in Req
    BY ServiceAssumption
  <2> QED BY <1>1, <2>1, ReplacerCancels DEF PrepareFirst, Rewriting, R!Next
<1>2. CASE StartFirst
  BY <1>2, TrackingMaps DEF StartFirst, Tracking, T!Next
<1>3. ASSUME NEW r \in Req, Call(r) \/ AddFiles(r) \/ SendRewrite(r) \/ LoseAnswer(r)
      PROVE  CancelType' /\ [R!Next]_R!vars
  BY <1>3, ReplacerCancels DEF Call, AddFiles, SendRewrite, LoseAnswer, Rewriting, R!Next
<1>4. ASSUME NEW r \in Req, Submit(r) \/ Task(r) \/ Tracking(T!ChildExits(r))
      PROVE  CancelType' /\ [R!Next]_R!vars
  BY <1>4, TrackingMaps DEF Submit, Task, Tracking, T!Next, T!Task
<1>5. CASE ServeAdd \/ ServeRewrite \/ ReplacerReturns
  BY <1>5, ReplacerCancels DEF ServeAdd, ServeRewrite, ReplacerReturns, Rewriting, R!Next
<1>6. CASE Spawner \/ Counter \/ Main \/ Tracking(T!PortalReplies) \/ Tracking(T!Signal)
  BY <1>6, TrackingMaps DEF Spawner, Counter, Main, Tracking, T!Next
<1>7. ASSUME NEW r \in Req, DropTask(r) PROVE CancelType' /\ [R!Next]_R!vars
  <2>1. CASE R!DropTask(r)
    BY <2>1, ReplacerCancels DEF R!Next
  <2>2. CASE UNCHANGED <<rewriting, replacer>>
    BY <1>7, <2>2, TrackingMaps DEF DropTask, T!Next
  <2> QED BY <1>7, <2>1, <2>2 DEF DropTask
<1>8. CASE Ended \/ UNCHANGED vars
  BY <1>8 DEF Ended, vars, rewriting, R!vars, R!callers, CancelType
<1> QED BY <1>1, <1>2, <1>3, <1>4, <1>5, <1>6, <1>7, <1>8 DEF Next

\* What the handlers, the tracker and main do to the replacer is what its module
\* allows its environment (ReplacerKept).
THEOREM ReplacerRefined == Spec => ReplacerKept
<1>1. Init => CancelType /\ R!Init
  BY DEF Init, R!Init, CancelType
<1>2. CancelType /\ [Next]_vars => CancelType' /\ [R!Next]_R!vars
  BY ReplacerStep
<1> QED BY <1>1, <1>2, PTL DEF Spec, ReplacerKept, R!Spec

-----------------------------------------------------------------------------
(* The replacer's theorems hold of the composition. *)

LEMMA SameInit == R!Init => RP!Init
BY DEF R!Init, RP!Init, R!Empty, RP!Empty

LEMMA SameNext == [R!Next]_R!vars => [RP!Next]_RP!vars
BY DEF
  R!Next, R!CallFirst, R!Call, R!SendAdd, R!SendRewrite, R!LoseAnswer, R!DropTask, R!ServeAdd,
  R!ServeRewrite, R!Return, R!Cancel, R!Ended, R!Goto, R!Open, R!Add, R!Rewrite, R!Overlay,
  R!Rewritten, R!Empty, R!vars, R!callers, RP!Next, RP!CallFirst, RP!Call, RP!SendAdd,
  RP!SendRewrite, RP!LoseAnswer, RP!DropTask, RP!ServeAdd, RP!ServeRewrite, RP!Return, RP!Cancel,
  RP!Ended, RP!Goto, RP!Open, RP!Add, RP!Rewrite, RP!Overlay, RP!Rewritten, RP!Empty, RP!vars,
  RP!callers

LEMMA ReplacerWaits == Spec => []RP!WaitInv
<1>1. RP!Spec => []RP!WaitInv
  BY ServiceAssumption, RP!WaitersKnown DEF R!PathMap, RP!PathMap
<1> QED BY <1>1, ReplacerRefined, SameInit, SameNext, PTL DEF ReplacerKept, R!Spec, RP!Spec

LEMMA ReplacerAnswers == Spec => []RP!AnswersAsSent
<1>1. RP!Spec => []RP!AnswersAsSent
  BY ServiceAssumption, RP!AnswersCorrect DEF R!PathMap, RP!PathMap
<1> QED BY <1>1, ReplacerRefined, SameInit, SameNext, PTL DEF ReplacerKept, R!Spec, RP!Spec

LEMMA SameAtomic ==
  /\ RP!Atomic!Init => R!Atomic!Init
  /\ [RP!Atomic!Next]_RP!Atomic!vars => [R!Atomic!Next]_R!Atomic!vars
BY DEF
   R!Atomic!Init, R!Atomic!Next, R!Atomic!Call, R!Atomic!Add, R!Atomic!Ask, R!Atomic!Answer,
   R!Atomic!GiveUp, R!Atomic!Close, R!Atomic!Advance, R!Atomic!Inside, R!Atomic!vars, R!Stage,
   R!Seen, RP!Atomic!Init, RP!Atomic!Next, RP!Atomic!Call, RP!Atomic!Add, RP!Atomic!Ask,
   RP!Atomic!Answer, RP!Atomic!GiveUp, RP!Atomic!Close, RP!Atomic!Advance, RP!Atomic!Inside,
   RP!Atomic!vars, RP!Stage, RP!Seen

\* The handlers and tasks of the whole service see one map that changes when an Add is
\* sent: it keeps the promise of AtomicMap.
THEOREM ServiceIsAtomicMap == Spec => R!AtomicMapKept
<1>1. RP!Spec => RP!AtomicMapKept
  BY ServiceAssumption, RP!AtomicRefined DEF R!PathMap, RP!PathMap
<1> QED BY <1>1, ReplacerRefined, SameInit, SameNext, SameAtomic, PTL
     DEF ReplacerKept, R!Spec, RP!Spec, RP!AtomicMapKept, R!AtomicMapKept, RP!Atomic!Spec, R!Atomic!Spec

-----------------------------------------------------------------------------
(* The tracker. *)

\* An answer that finds no taker comes after the cancellation: its task was dropped.
LEMMA PanicsLate ==
  ASSUME RP!WaitInv, R!ServeRewrite, replacer' # "running"
  PROVE  cancelled = TRUE /\ cancelled' = TRUE /\ replacer = "running" /\ replacer' = "panicked"
<1> DEFINE r == Head(queue).req
<1>1. /\ replacer = "running" /\ queue # <<>> /\ Head(queue).op = "Rewrite" /\ stage[r] # "rewriting"
      /\ replacer' = "panicked" /\ cancelled' = TRUE
  BY DEF R!ServeRewrite
<1>2. /\ queue \in Seq(RP!Command) /\ cancelled \in BOOLEAN
      /\ \A c \in RP!Command : c.op = "Rewrite" => c.req \in Req
  BY DEF RP!WaitInv, RP!TypeOK, RP!Command
<1>3. 1 \in 1 .. Len(queue) /\ Head(queue) = queue[1] /\ queue[1] \in RP!Command
  BY <1>1, <1>2
<1>4. r \in Req /\ stage[r] = "dropped"
  BY <1>1, <1>2, <1>3 DEF RP!WaitInv, RP!AskersWait, RP!Asks
<1> QED BY <1>1, <1>2, <1>4 DEF RP!WaitInv, RP!LateInv

LEMMA RewritingStutters ==
  ASSUME UNCHANGED <<tracking, replacer, cancelled>>
  PROVE  UNCHANGED T!vars
BY DEF tracking, T!vars, T!tasks, T!services, T!counting, T!ending

LEMMA TrackerStep ==
  ASSUME RP!WaitInv, [Next]_vars
  PROVE  [T!Next]_T!vars
<1>1. CASE PrepareFirst
  <2>1. UNCHANGED <<tracking, replacer, cancelled>>
    BY <1>1 DEF PrepareFirst, Rewriting, R!CallFirst, R!SendAdd
  <2> QED BY <2>1, RewritingStutters
<1>2. ASSUME NEW r \in Req, Call(r) \/ AddFiles(r) PROVE [T!Next]_T!vars
  <2>1. UNCHANGED <<tracking, replacer, cancelled>>
    BY <1>2 DEF Call, AddFiles, Rewriting, R!Call, R!SendAdd
  <2> QED BY <2>1, RewritingStutters
<1>3. ASSUME NEW r \in Req, SendRewrite(r) PROVE [T!Next]_T!vars
  <2>1. CASE T!Rewrite(r)
    BY <2>1 DEF T!Next, T!Task
  <2>2. CASE UNCHANGED tracking
    <3>1. UNCHANGED <<replacer, cancelled>>
      BY <1>3 DEF SendRewrite, R!SendRewrite
    <3> QED BY <2>2, <3>1, RewritingStutters
  <2> QED BY <1>3, <2>1, <2>2 DEF SendRewrite
<1>4. CASE ServeAdd
  <2>1. UNCHANGED <<tracking, replacer, cancelled>>
    BY <1>4 DEF ServeAdd, Rewriting, R!ServeAdd
  <2> QED BY <2>1, RewritingStutters
<1>5. CASE ServeRewrite
  <2>1. CASE replacer' = "running"
    <3>1. Head(queue).req \in Req
      <4>1. queue \in Seq(RP!Command) /\ queue # <<>> /\ Head(queue).op = "Rewrite"
        BY <1>5 DEF ServeRewrite, R!ServeRewrite, RP!WaitInv, RP!TypeOK
      <4>2. Head(queue) \in RP!Command
        BY <4>1
      <4> QED BY <4>1, <4>2 DEF RP!Command
    <3>2. T!Rewrite(Head(queue).req)
      BY <1>5, <2>1 DEF ServeRewrite
    <3> QED BY <3>1, <3>2 DEF T!Next, T!Task
  <2>2. CASE replacer' # "running"
    <3>1. /\ cancelled = TRUE /\ cancelled' = TRUE /\ replacer = "running" /\ replacer' = "panicked"
          /\ T!Running /\ UNCHANGED tracking
      BY <1>5, <2>2, PanicsLate DEF ServeRewrite
    <3>2. T!ReplacerReturns
      BY <3>1 DEF T!ReplacerReturns, tracking, T!tasks, T!counting, T!ending
    <3> QED BY <3>2 DEF T!Next
  <2> QED BY <2>1, <2>2
<1>6. CASE StartFirst \/ ReplacerReturns \/ Spawner \/ Counter \/ Main
           \/ Tracking(T!PortalReplies) \/ Tracking(T!Signal)
  BY <1>6 DEF StartFirst, ReplacerReturns, Spawner, Counter, Main, Tracking, T!Next
<1>7. ASSUME NEW r \in Req, Submit(r) \/ LoseAnswer(r) \/ Task(r) \/ DropTask(r) \/ Tracking(T!ChildExits(r))
      PROVE  [T!Next]_T!vars
  BY <1>7 DEF Submit, LoseAnswer, Task, DropTask, Tracking, T!Next, T!Task
<1>8. CASE Ended \/ UNCHANGED vars
  BY <1>8, RewritingStutters DEF Ended, vars
<1> QED BY <1>1, <1>2, <1>3, <1>4, <1>5, <1>6, <1>7, <1>8 DEF Next

\* What the handlers and the replacer do to the tracker is what its module allows its
\* environment (TrackerKept): the theorems about it hold of the whole service.
THEOREM TrackerRefined == Spec => TrackerKept
<1>1. Init => T!Init
  BY DEF Init
<1>2. RP!WaitInv /\ [Next]_vars => [T!Next]_T!vars
  BY TrackerStep
<1> QED BY <1>1, <1>2, ReplacerWaits, PTL DEF Spec, TrackerKept, T!Spec

\* The replacer panics only in a session that was ending (ReplacerNeverEnds), although
\* it cancels the token when it does (process_env.rs:144).
THEOREM NeverEnds == Spec => ReplacerNeverEnds
<1>1. RP!WaitInv /\ [Next]_vars => [replacer' = "panicked" => cancelled]_vars
  <2> SUFFICES ASSUME RP!WaitInv, Next, replacer' = "panicked" PROVE cancelled
    OBVIOUS
  <2>1. CASE replacer = "panicked"
    BY <2>1 DEF RP!WaitInv, RP!LateInv
  <2>2. CASE replacer # "panicked"
    <3>1. ServeRewrite
      BY <2>2 DEF Next, PrepareFirst, StartFirst, Call, AddFiles, Submit, SendRewrite, LoseAnswer,
         ServeAdd, ReplacerReturns, Spawner, Counter, Main, Task, DropTask, Tracking, Rewriting, Ended,
         R!CallFirst, R!SendAdd, R!Call, R!SendRewrite, R!LoseAnswer, R!ServeAdd, R!Return,
         R!DropTask, vars
    <3> QED BY <3>1, PanicsLate DEF ServeRewrite
  <2> QED BY <2>1, <2>2
<1> QED BY <1>1, ReplacerWaits, PTL DEF Spec, ReplacerNeverEnds

-----------------------------------------------------------------------------
(* The tracker's theorems hold of the composition. *)

LEMMA SameTrackerInit == T!Init => SP!Init
BY DEF T!Init, SP!Init, T!Subsystem, SP!Subsystem

LEMMA SameTrackerNext == [T!Next]_T!vars => [SP!Next]_SP!vars
BY DEF
   T!StartFirst, T!Submit, T!SpawnerReceives, T!SpawnerReturns, T!ReplacerReturns, T!Task,
   T!CheckToken, T!Rewrite, T!Announce, T!SendStart, T!Launch, T!FailLaunch, T!Reap, T!StopWaiting,
   T!Report, T!SendDeath, T!ChildExits, T!Initialise, T!CounterReceives, T!PortalReplies,
   T!CounterReturns, T!Publish, T!Listen, T!Signal, T!SeeToken, T!RequestShutdown, T!DropTask,
   T!Exit, T!Ended, T!Goto, T!Enqueue, T!DropChild, T!Tell, T!SandboxStatus, T!Counted,
   T!LeaveAtZero, T!ProcessStarted, T!ProcessDied, T!Running, T!AtAwait, T!vars, T!tasks, T!services,
   T!counting, T!ending, T!Next, SP!StartFirst, SP!Submit, SP!SpawnerReceives, SP!SpawnerReturns,
   SP!ReplacerReturns, SP!Task, SP!CheckToken, SP!Rewrite, SP!Announce, SP!SendStart, SP!Launch,
   SP!FailLaunch, SP!Reap, SP!StopWaiting, SP!Report, SP!SendDeath, SP!ChildExits, SP!Initialise,
   SP!CounterReceives, SP!PortalReplies, SP!CounterReturns, SP!Publish, SP!Listen, SP!Signal,
   SP!SeeToken, SP!RequestShutdown, SP!DropTask, SP!Exit, SP!Ended, SP!Goto, SP!Enqueue,
   SP!DropChild, SP!Tell, SP!SandboxStatus, SP!Counted, SP!LeaveAtZero, SP!ProcessStarted,
   SP!ProcessDied, SP!Running, SP!AtAwait, SP!vars, SP!tasks, SP!services, SP!counting, SP!ending,
   SP!Next

LEMMA TrackerSpec == Spec => SP!Spec
BY TrackerRefined, SameTrackerInit, SameTrackerNext, PTL DEF TrackerKept, T!Spec, SP!Spec

\* The tracker's assumptions on its constants.
LEMMA TrackerConstants ==
  /\ First \in Req /\ SP!IsFiniteSet(Req) /\ UsizeMax \in Nat /\ SP!Cardinality(Req) <= UsizeMax
  /\ SpawnCap \in Nat \ {0} /\ CountCap \in Nat \ {0}
BY ServiceAssumption DEF IsFiniteSet, SP!IsFiniteSet, Cardinality, SP!Cardinality

LEMMA SamePromise ==
  /\ SP!Promise!Init => T!Promise!Init
  /\ [SP!Promise!Next]_SP!Promise!vars => [T!Promise!Next]_T!Promise!vars
BY DEF
   T!Promise!Init, T!Promise!Next, T!Promise!Up, T!Promise!CountUp, T!Promise!Start,
   T!Promise!Finish, T!Promise!CountDown, T!Promise!CloseEmpty, T!Promise!CloseOnSignal,
   T!Promise!Kill, T!Promise!Close, T!Promise!Crash, T!Promise!vars, T!Phase, T!Running,
   SP!Promise!Init, SP!Promise!Next, SP!Promise!Up, SP!Promise!CountUp, SP!Promise!Start,
   SP!Promise!Finish, SP!Promise!CountDown, SP!Promise!CloseEmpty, SP!Promise!CloseOnSignal,
   SP!Promise!Kill, SP!Promise!Close, SP!Promise!Crash, SP!Promise!vars, SP!Phase, SP!Running

\* The whole service, with its handlers and its replacer, keeps the promise of Session:
\* it closes itself only at a count of zero, kills only while it closes, and ends in
\* order only when no process is left.
THEOREM ServiceIsSession == Spec => T!SessionKept
<1>1. SP!Spec => SP!SessionKept
  BY TrackerConstants, SP!Refines
<1> QED BY <1>1, TrackerSpec, SamePromise, PTL DEF SP!SessionKept, T!SessionKept, SP!Promise!Spec, T!Promise!Spec

\* No process of the sandbox outlives an orderly end of the service.
THEOREM ServiceLeavesNone == Spec => []T!NoneLeftBehind
<1>1. SP!Spec => []SP!NoneLeftBehind
  BY TrackerConstants, SP!NothingLeft
<1>2. SP!NoneLeftBehind => T!NoneLeftBehind
  BY DEF SP!NoneLeftBehind, T!NoneLeftBehind
<1> QED BY <1>1, <1>2, TrackerSpec, PTL

\* Until the token is cancelled no request of the service is given up, and none waits
\* for what will not come.
THEOREM ServiceStrandsNone == Spec => []T!NoneStranded
<1>1. SP!Spec => []SP!NoneStranded
  BY TrackerConstants, SP!NobodyStranded
<1>2. SP!NoneStranded => T!NoneStranded
  BY DEF SP!NoneStranded, T!NoneStranded, SP!GivenUp, T!GivenUp, SP!Tracked, T!Tracked,
     SP!Running, T!Running
<1> QED BY <1>1, <1>2, TrackerSpec, PTL

-----------------------------------------------------------------------------
(* The arguments of a process. *)

After == {"announcing", "unannounced", "launching", "waiting", "reporting", "reported", "unreported"}

\* A task that is past its rewriting, or has a process, has had its answer.
StartInv ==
  /\ pc \in [Req -> T!PC] /\ child \in [Req -> T!Child]
  /\ \A r \in Req : pc[r] \in After \/ child[r] # "none" => stage[r] = "answered"

LEMMA StartInit == Init => StartInv
BY DEF Init, T!Init, StartInv, T!PC, T!AtAwait, T!Child, After

LEMMA StartStep == RP!TypeOK /\ StartInv /\ [Next]_vars => StartInv'
<1> SUFFICES ASSUME RP!TypeOK, StartInv, [Next]_vars PROVE StartInv'
  OBVIOUS
<1> DEFINE Answers == {"idle", "adding", "spawned", "rewriting", "answered", "rejected", "failed", "dropped"}
<1>1. stage \in [Req -> Answers] /\ pc \in [Req -> T!PC] /\ child \in [Req -> T!Child]
  BY DEF RP!TypeOK, StartInv
<1> HIDE DEF Answers
<1> USE DEF StartInv, After, T!PC, T!AtAwait, T!Child, T!Goto, R!Goto
<1>2. CASE PrepareFirst
  <2>1. PICK r \in Req : stage[r] # "answered" /\ \E where : stage' = [stage EXCEPT ![r] = where]
    BY <1>2, ServiceAssumption DEF PrepareFirst, Rewriting, R!CallFirst, R!SendAdd
  <2> QED BY <1>1, <1>2, <2>1 DEF PrepareFirst, Rewriting, tracking
<1>3. ASSUME NEW r \in Req, Call(r) \/ AddFiles(r) PROVE StartInv'
  <2>1. stage[r] # "answered" /\ \E where : stage' = [stage EXCEPT ![r] = where]
    BY <1>3 DEF Call, AddFiles, Rewriting, R!Call, R!SendAdd
  <2> QED BY <1>1, <1>3, <2>1 DEF Call, AddFiles, Rewriting, tracking
<1>4. ASSUME NEW r \in Req, SendRewrite(r) \/ LoseAnswer(r) PROVE StartInv'
  <2>1. stage[r] # "answered" /\ \E where : stage' = [stage EXCEPT ![r] = where]
    BY <1>4 DEF SendRewrite, LoseAnswer, R!SendRewrite, R!LoseAnswer
  <2>2. CASE UNCHANGED tracking
    BY <1>1, <2>1, <2>2 DEF tracking
  <2>3. CASE T!Rewrite(r) /\ replacer # "running"
    <3>1. pc' = [pc EXCEPT ![r] = "unwritten"] /\ UNCHANGED child
      BY <2>3 DEF T!Rewrite
    <3> QED BY <1>1, <2>1, <3>1
  <2>4. SendRewrite(r) /\ stage'[r] = "failed" => replacer # "running"
    BY <1>1 DEF SendRewrite, R!SendRewrite
  <2> QED BY <1>4, <2>2, <2>3, <2>4 DEF SendRewrite, LoseAnswer, R!LoseAnswer
<1>5. CASE ServeAdd \/ ReplacerReturns
  BY <1>5 DEF ServeAdd, ReplacerReturns, Rewriting, R!ServeAdd, R!Return, R!callers, tracking,
     T!ReplacerReturns, T!tasks
<1>6. CASE ServeRewrite
  <2> DEFINE r == Head(queue).req
  <2>1. CASE replacer' = "running"
    <3>1. stage' = [stage EXCEPT ![r] = "answered"]
      BY <1>6, <2>1 DEF ServeRewrite, R!ServeRewrite
    <3>2. pc' = [pc EXCEPT ![r] = IF replacer = "running" THEN "announcing" ELSE "unwritten"] /\ UNCHANGED child
      BY <1>6, <2>1 DEF ServeRewrite, T!Rewrite
    <3> QED BY <1>1, <3>1, <3>2
  <2>2. CASE replacer' # "running"
    BY <1>6, <2>2 DEF ServeRewrite, R!ServeRewrite, tracking
  <2> QED BY <2>1, <2>2
<1>7. ASSUME UNCHANGED stage, UNCHANGED child \/ \E r \in Req, s \in T!Child : pc[r] \in After
                                                       /\ child' = [child EXCEPT ![r] = s],
             \A q \in Req : pc'[q] \in After => pc[q] \in After, pc' \in [Req -> T!PC]
      PROVE  StartInv'
  BY <1>1, <1>7
<1>8. CASE StartFirst \/ Spawner
  <2>1. UNCHANGED <<stage, child>> /\ \A q \in Req : pc'[q] = pc[q] \/ pc'[q] \in {"queued", "begun", "lost"}
    BY <1>1, <1>8 DEF StartFirst, Spawner, Tracking, rewriting, T!StartFirst, T!Enqueue, T!SpawnerReceives,
       T!SpawnerReturns
  <2>2. pc' \in [Req -> T!PC]
    BY <1>1, <1>8 DEF StartFirst, Spawner, Tracking, T!StartFirst, T!Enqueue, T!SpawnerReceives,
       T!SpawnerReturns
  <2> QED BY <1>7, <2>1, <2>2
<1>9. ASSUME NEW r \in Req, Submit(r) PROVE StartInv'
  BY <1>1, <1>9 DEF Submit, Tracking, rewriting, T!Submit, T!Enqueue
<1>10. ASSUME NEW r \in Req, Task(r) PROVE StartInv'
  <2>1. UNCHANGED stage
    BY <1>10 DEF Task, Tracking, rewriting
  <2>2. CASE T!CheckToken(r) \/ T!Announce(r) \/ T!Reap(r) \/ T!Report(r)
    BY <1>1, <2>1, <2>2 DEF T!CheckToken, T!Announce, T!SendStart, T!Reap, T!Report, T!SendDeath
  <2>3. CASE T!Launch(r)
    BY <1>1, <2>1, <2>3 DEF T!Launch, T!FailLaunch, T!tasks
  <2>4. CASE T!StopWaiting(r)
    BY <1>1, <2>1, <2>4 DEF T!StopWaiting, T!DropChild
  <2> QED BY <1>10, <2>2, <2>3, <2>4 DEF Task, Tracking
<1>11. ASSUME NEW r \in Req, DropTask(r) PROVE StartInv'
  <2>1. /\ pc' = [pc EXCEPT ![r] = "dropped"]
        /\ child' = [child EXCEPT ![r] = IF @ = "alive" THEN "killed" ELSE @]
    BY <1>11 DEF DropTask, T!DropTask, T!DropChild
  <2>2. \/ UNCHANGED stage
        \/ stage[r] # "answered" /\ stage' = [stage EXCEPT ![r] = "dropped"]
    BY <1>11 DEF DropTask, R!DropTask, rewriting
  <2> QED BY <1>1, <2>1, <2>2
<1>12. ASSUME NEW r \in Req, Tracking(T!ChildExits(r)) PROVE StartInv'
  BY <1>1, <1>12 DEF Tracking, rewriting, T!ChildExits
<1>13. CASE Counter \/ Main \/ Tracking(T!PortalReplies) \/ Tracking(T!Signal) \/ Ended \/ UNCHANGED vars
  <2>1. UNCHANGED <<pc, child, stage>>
    BY <1>13 DEF Counter, Main, Tracking, rewriting, vars, tracking, Ended, T!Initialise, T!CounterReceives,
       T!CounterReturns, T!PortalReplies, T!Publish, T!Listen, T!Signal, T!SeeToken, T!RequestShutdown,
       T!Exit, T!tasks
  <2> QED BY <2>1
<1> QED BY <1>2, <1>3, <1>4, <1>5, <1>6, <1>8, <1>9, <1>10, <1>11, <1>12, <1>13 DEF Next

\* Every process that was started had the arguments its caller gave, rewritten by the
\* map with all entries sent before (StartedAsAsked), whatever else happened meanwhile.
THEOREM StartedRight == Spec => []StartedAsAsked
<1>1. RP!WaitInv => RP!TypeOK
  BY DEF RP!WaitInv
<1>2. StartInv /\ RP!AnswersAsSent => StartedAsAsked
  BY DEF StartInv, RP!AnswersAsSent, StartedAsAsked
<1> QED BY <1>1, <1>2, StartInit, StartStep, ReplacerWaits, ReplacerAnswers, PTL DEF Spec

-----------------------------------------------------------------------------
(* Nobody waits for an answer that is not coming. *)

\* How far a request has come with the replacer while its task has yet to go on.
StageInv ==
  \A r \in Req : /\ pc[r] \in {"queued", "begun"} => stage[r] = "spawned"
                 /\ pc[r] = "rewriting" => stage[r] \in {"spawned", "rewriting"}

LEMMA StageStep == RP!TypeOK /\ StartInv /\ SP!TypeOK /\ SP!SpawnQInv /\ StageInv /\ [Next]_vars => StageInv'
<1> SUFFICES ASSUME RP!TypeOK, StartInv, SP!TypeOK, SP!SpawnQInv, StageInv, [Next]_vars PROVE StageInv'
  OBVIOUS
<1> DEFINE Answers == {"idle", "adding", "spawned", "rewriting", "answered", "rejected", "failed", "dropped"}
<1>1. stage \in [Req -> Answers] /\ pc \in [Req -> T!PC]
  BY DEF RP!TypeOK, StartInv
<1> HIDE DEF Answers
<1> USE DEF StageInv, T!Goto, R!Goto
\* A request is in the tracker only once its files were added.
<1>2. ASSUME NEW r \in Req, stage[r] \in {"idle", "adding"}, UNCHANGED pc,
             \E where : stage' = [stage EXCEPT ![r] = where]
      PROVE  StageInv'
  BY <1>1, <1>2
<1>3. CASE PrepareFirst
  BY <1>2, <1>3, ServiceAssumption DEF PrepareFirst, Rewriting, R!CallFirst, R!SendAdd, tracking
<1>4. ASSUME NEW r \in Req, Call(r) \/ AddFiles(r) PROVE StageInv'
  <2>1. stage[r] \in {"idle", "adding"} /\ \E where : stage' = [stage EXCEPT ![r] = where]
    BY <1>4 DEF Call, AddFiles, Rewriting, R!Call, R!SendAdd
  <2> QED BY <1>2, <1>4, <2>1 DEF Call, AddFiles, Rewriting, tracking
<1>5. ASSUME NEW r \in Req, SendRewrite(r) \/ LoseAnswer(r) PROVE StageInv'
  <2>1. CASE T!Rewrite(r) /\ replacer # "running"
    <3>1. pc' = [pc EXCEPT ![r] = "unwritten"] /\ \E where : stage' = [stage EXCEPT ![r] = where]
      BY <1>5, <2>1 DEF T!Rewrite, SendRewrite, LoseAnswer, R!SendRewrite, R!LoseAnswer
    <3> QED BY <1>1, <3>1
  <2>2. CASE UNCHANGED pc /\ pc[r] = "rewriting" /\ stage' = [stage EXCEPT ![r] = "rewriting"]
    BY <1>1, <2>2
  <2>3. LoseAnswer(r) => T!Rewrite(r) /\ replacer # "running"
    BY DEF LoseAnswer, R!LoseAnswer
  <2>4. SendRewrite(r) => \/ T!Rewrite(r) /\ replacer # "running"
                          \/ UNCHANGED pc /\ pc[r] = "rewriting" /\ stage' = [stage EXCEPT ![r] = "rewriting"]
    BY <1>1 DEF SendRewrite, R!SendRewrite, tracking
  <2> QED BY <1>5, <2>1, <2>2, <2>3, <2>4
<1>6. CASE ServeAdd \/ ReplacerReturns
  BY <1>6 DEF ServeAdd, ReplacerReturns, Rewriting, R!ServeAdd, R!Return, R!callers, tracking,
     T!ReplacerReturns, T!tasks
<1>7. CASE ServeRewrite
  <2> DEFINE r == Head(queue).req
  <2>1. CASE replacer' = "running"
    <3>1. stage' = [stage EXCEPT ![r] = "answered"] /\ replacer = "running"
      BY <1>7, <2>1 DEF ServeRewrite, R!ServeRewrite
    <3>2. pc' = [pc EXCEPT ![r] = "announcing"]
      BY <1>7, <2>1, <3>1 DEF ServeRewrite, T!Rewrite
    <3> QED BY <1>1, <3>1, <3>2
  <2>2. CASE replacer' # "running"
    BY <1>7, <2>2 DEF ServeRewrite, R!ServeRewrite, tracking
  <2> QED BY <2>1, <2>2
<1>8. CASE StartFirst
  BY <1>1, <1>8, ServiceAssumption DEF StartFirst, Tracking, rewriting, T!StartFirst, T!Enqueue
<1>9. ASSUME NEW r \in Req, Submit(r) PROVE StageInv'
  BY <1>1, <1>9 DEF Submit, Tracking, rewriting, T!Submit, T!Enqueue
<1>10. CASE Spawner
  <2>1. UNCHANGED stage
    BY <1>10 DEF Spawner, Tracking, rewriting
  <2>2. CASE T!SpawnerReceives
    <3>1. Head(spawnQ) \in Req /\ pc[Head(spawnQ)] = "queued" /\ pc' = [pc EXCEPT ![Head(spawnQ)] = "begun"]
      BY <2>2, TrackerConstants, SP!HeadQueued DEF T!SpawnerReceives
    <3> QED BY <1>1, <2>1, <3>1
  <2>3. CASE T!SpawnerReturns
    BY <1>1, <2>1, <2>3 DEF T!SpawnerReturns
  <2> QED BY <1>10, <2>2, <2>3 DEF Spawner, Tracking
<1>11. ASSUME NEW r \in Req, Task(r) PROVE StageInv'
  <2>1. UNCHANGED stage
    BY <1>11 DEF Task, Tracking, rewriting
  <2>2. CASE T!CheckToken(r)
    BY <1>1, <2>1, <2>2 DEF T!CheckToken
  <2>3. CASE T!Launch(r)
    BY <1>1, <2>1, <2>3 DEF T!Launch, T!FailLaunch, T!tasks
  <2>4. CASE T!Announce(r) \/ T!Reap(r) \/ T!StopWaiting(r) \/ T!Report(r)
    BY <1>1, <2>1, <2>4 DEF T!Announce, T!SendStart, T!Reap, T!StopWaiting, T!Report, T!SendDeath
  <2> QED BY <1>11, <2>2, <2>3, <2>4 DEF Task, Tracking
<1>12. ASSUME NEW r \in Req, DropTask(r) PROVE StageInv'
  <2>1. /\ pc' = [pc EXCEPT ![r] = "dropped"]
        /\ UNCHANGED stage \/ stage' = [stage EXCEPT ![r] = "dropped"]
    BY <1>12 DEF DropTask, R!DropTask, T!DropTask, rewriting
  <2> QED BY <1>1, <2>1
<1>13. CASE Counter \/ Main \/ Tracking(T!PortalReplies) \/ Tracking(T!Signal) \/ Ended \/ UNCHANGED vars
            \/ \E r \in Req : Tracking(T!ChildExits(r))
  <2>1. UNCHANGED <<pc, stage>>
    BY <1>13 DEF Counter, Main, Tracking, rewriting, vars, tracking, Ended, T!Initialise, T!CounterReceives,
       T!CounterReturns, T!PortalReplies, T!Publish, T!Listen, T!Signal, T!SeeToken, T!RequestShutdown,
       T!Exit, T!ChildExits, T!tasks
  <2> QED BY <2>1
<1> QED BY <1>3, <1>4, <1>5, <1>6, <1>7, <1>8, <1>9, <1>10, <1>11, <1>12, <1>13 DEF Next

\* A task waits for the replacer only as long as that serves: it is about to send its
\* command, or has it in the replacer's channel.
RewritesServed ==
  T!Running /\ ~cancelled =>
    \A r \in Req : pc[r] = "rewriting" =>
      /\ replacer = "running"
      /\ stage[r] = "spawned" \/ \E i \in 1 .. Len(queue) : queue[i].op = "Rewrite" /\ queue[i].req = r

\* In an uncancelled session the way of an accepted request through the three channels
\* is open to its end: with ServiceStrandsNone, what AcceptedStarts needs at each moment.
THEOREM RewritesAreServed == Spec => []RewritesServed
<1>1. Init => StageInv
  BY DEF Init, T!Init, StageInv
<1>2. SP!Spec => []SP!IInv
  BY TrackerConstants, SP!InvCorrect
<1>3. SP!IInv => SP!TypeOK /\ SP!SpawnQInv
  BY DEF SP!IInv, SP!QInv
<1>4. RP!WaitInv => RP!TypeOK
  BY DEF RP!WaitInv
<1>5. RP!Spec => []RP!AwaitInv
  BY ServiceAssumption, RP!WaitersServed DEF R!PathMap, RP!PathMap
<1>6. RP!WaitInv /\ RP!AwaitInv /\ StageInv => RewritesServed
  BY DEF RP!WaitInv, RP!LateInv, RP!AwaitInv, RP!Asks, StageInv, RewritesServed
<1> QED BY <1>1, <1>2, <1>3, <1>4, <1>5, <1>6, StartInit, StartStep, StageStep, TrackerSpec, ReplacerWaits,
     ReplacerRefined, SameInit, SameNext, PTL DEF Spec, ReplacerKept, R!Spec, RP!Spec
=============================================================================
