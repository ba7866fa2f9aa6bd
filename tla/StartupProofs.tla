----------------------------- MODULE StartupProofs -----------------------------
(***************************************************************************)
(* Proofs about Startup: what confines the process is in place before the  *)
(* packaged program is requested, and not before the clamp is written.     *)
(***************************************************************************)
EXTENDS Startup, TLAPS

\* Until main spawns the tasks there is nothing to wait for.
Early == {"config", "connecting", "asking", "streaming", "spawning"}

NothingYet ==
  main \in Early => ~uclampReady /\ ~domain /\ clampEnd = "none" /\ \A t \in Task : task[t] = "none"

\* What the progress of a task says about the kernel.
FilterFollows ==
  /\ task["seccomp"] \in {"loaded", "done"} => filter
  /\ task["seccomp"] = "done" => unotify

DomainFollows == task["landlock"] = "done" /\ enabled => domain

\* The order of the two tasks: clamp, token, domain.
ClampFirst ==
  /\ uclampReady => task["uclamp"] = "done"
  /\ task["landlock"] = "released" => uclampReady
  /\ domain => uclampReady

JoinedBefore == main \in {"starting", "started"} => \A t \in Joined : task[t] = "done"

IInv ==
  /\ TypeOK /\ NothingYet /\ FilterFollows /\ DomainFollows /\ ClampFirst /\ JoinedBefore
  /\ LandlockSparesUclamp

\* The tasks take only the steps TypeOK knows, one task at a time.
LEMMA AdvanceMoves ==
  ASSUME IInv, NEW t \in Task, NEW from, NEW to, Advance(t, from, to)
  PROVE  /\ main \notin Final /\ task[t] = from /\ task'[t] = to
         /\ \A u \in Task \ {t} : task'[u] = task[u]
         /\ DOMAIN task' = Task
         /\ to \in Steps[t] => \A u \in Task : task'[u] \in Steps[u]
         /\ from # "none" => main \notin Early
BY DEF Advance, IInv, TypeOK, NothingYet

LEMMA TaskNames ==
  /\ Task = {"replacer", "seccomp", "uclamp", "landlock", "counter", "filemap"}
  /\ Joined = {"seccomp", "landlock", "filemap"}
  /\ \A t \in Task : {"none", "begun", "done"} \subseteq Steps[t]
  /\ {"compiled", "loaded", "failed"} \subseteq Steps["seccomp"]
  /\ {"compiled", "released", "failed"} \subseteq Steps["landlock"]
  /\ {"maxOpen", "maxWritten", "minOpen", "over"} \subseteq Steps["uclamp"]
  /\ DOMAIN Steps = Task
BY DEF Task, Started, Joined, Steps

LEMMA InitHolds == Init => IInv
<1> SUFFICES ASSUME Init PROVE IInv
  OBVIOUS
<1>1. TypeOK
  BY TaskNames DEF Init, TypeOK
<1> QED
  BY <1>1, TaskNames DEF Init, IInv, NothingYet, FilterFollows, DomainFollows, ClampFirst,
                         JoinedBefore, LandlockSparesUclamp, Early

\* A step that moves one task: what is left to show is what that task is about.
LEMMA TaskStep ==
  ASSUME IInv, NEW t \in Task, NEW from, NEW to, Advance(t, from, to), from \notin {"none", "done"},
         to \in Steps[t], UNCHANGED conf, TypeOK', ClampFirst', LandlockSparesUclamp',
         main' = main \/ main' = "dead",
         t = "seccomp" => FilterFollows',
         t # "seccomp" => UNCHANGED <<filter, unotify>>,
         t = "landlock" => DomainFollows',
         t # "landlock" => UNCHANGED domain
  PROVE  IInv'
<1>1. /\ main \notin Final /\ task[t] = from /\ task'[t] = to /\ main \notin Early
      /\ \A u \in Task \ {t} : task'[u] = task[u]
  BY AdvanceMoves
<1>2. NothingYet'
  BY <1>1 DEF NothingYet, Early
<1>3. FilterFollows'
  BY <1>1, TaskNames DEF IInv, FilterFollows
<1>4. DomainFollows'
  BY <1>1, TaskNames DEF IInv, DomainFollows, conf
<1>5. JoinedBefore'
  BY <1>1, TaskNames DEF IInv, JoinedBefore, Final
<1> QED BY <1>2, <1>3, <1>4, <1>5 DEF IInv

LEMMA StepHolds == IInv /\ [Next]_vars => IInv'
<1> SUFFICES ASSUME IInv, [Next]_vars PROVE IInv'
  OBVIOUS
<1>1. TypeOK /\ DOMAIN task = Task /\ \A t \in Task : task[t] \in Steps[t]
  BY DEF IInv, TypeOK
<1> USE DEF conf, clamping, kernel
<1>2. CASE Configure
  <2>1. /\ main \in Early /\ main' \in Early \cup {"dead"}
        /\ UNCHANGED <<task, clamping, uclampReady, unotify, kernel>>
        /\ enabled' \in BOOLEAN /\ flatpak' \in BOOLEAN
    BY <1>1, <1>2 DEF Configure, ReadAppId, Connect, GetInfo, StreamPty, Configuring, Early, TypeOK
  <2>2. TypeOK'
    BY <1>1, <2>1 DEF TypeOK, Early
  <2>3. NothingYet' /\ FilterFollows' /\ ClampFirst' /\ LandlockSparesUclamp' /\ JoinedBefore'
    BY <2>1 DEF IInv, NothingYet, FilterFollows, ClampFirst, LandlockSparesUclamp, JoinedBefore, Early
  <2>4. DomainFollows'
    BY <2>1, TaskNames DEF IInv, NothingYet, DomainFollows
  <2> QED BY <2>2, <2>3, <2>4 DEF IInv
<1>3. CASE SpawnTasks
  <2>1. /\ main \in Early /\ main' = "replacer" /\ DOMAIN task' = Task
        /\ UNCHANGED <<conf, clamping, uclampReady, unotify, kernel>>
        /\ \A t \in Task : task'[t] \in {"none", "begun"}
    BY <1>3 DEF SpawnTasks, Early
  <2>2. TypeOK'
    BY <1>1, <2>1, TaskNames DEF TypeOK
  <2>3. NothingYet' /\ FilterFollows' /\ ClampFirst' /\ LandlockSparesUclamp' /\ JoinedBefore'
    BY <2>1, TaskNames
    DEF IInv, NothingYet, FilterFollows, ClampFirst, LandlockSparesUclamp, JoinedBefore, Early
  <2>4. DomainFollows'
    BY <2>1, TaskNames DEF DomainFollows
  <2> QED BY <2>2, <2>3, <2>4 DEF IInv
<1>4. CASE AwaitReplacer
  <2>1. /\ main \notin Early /\ main' = "counter" /\ DOMAIN task' = Task
        /\ UNCHANGED <<conf, clamping, uclampReady, unotify, kernel>>
        /\ task'["filemap"] = "begun" /\ \A t \in Task \ {"filemap"} : task'[t] = task[t]
    BY <1>1, <1>4, TaskNames DEF AwaitReplacer, Early
  <2>2. TypeOK'
    BY <1>1, <2>1, TaskNames DEF TypeOK
  <2>3. NothingYet' /\ FilterFollows' /\ ClampFirst' /\ LandlockSparesUclamp' /\ JoinedBefore'
    BY <2>1, TaskNames
    DEF IInv, NothingYet, FilterFollows, ClampFirst, LandlockSparesUclamp, JoinedBefore, Early
  <2>4. DomainFollows'
    BY <2>1, TaskNames DEF IInv, DomainFollows
  <2> QED BY <2>2, <2>3, <2>4 DEF IInv
<1>5. CASE AwaitCounter \/ Join \/ StartFirst \/ Signal
  <2>1. /\ UNCHANGED <<conf, task, clamping, uclampReady, unotify, kernel>>
        /\ main' \in {"join", "starting", "started", "panicked", "dead"}
    BY <1>5 DEF AwaitCounter, Join, StartFirst, Signal
  <2>2. JoinedBefore'
    BY <1>5 DEF AwaitCounter, Join, StartFirst, Signal, IInv, JoinedBefore
  <2>3. TypeOK'
    BY <1>1, <2>1 DEF TypeOK
  <2>4. NothingYet' /\ FilterFollows' /\ ClampFirst' /\ LandlockSparesUclamp' /\ DomainFollows'
    BY <2>1 DEF IInv, NothingYet, FilterFollows, ClampFirst, LandlockSparesUclamp, DomainFollows, Early
  <2> QED BY <2>2, <2>3, <2>4 DEF IInv
<1>6. CASE Constructors
  <2>1. PICK t \in {"replacer", "counter", "filemap"} : Advance(t, "begun", "done")
    BY <1>6 DEF Constructors, ReplacerNew, CounterNew, AddFileMap
  <2>2. UNCHANGED <<main, conf, clamping, uclampReady, unotify, kernel>>
    BY <1>6 DEF Constructors, ReplacerNew, CounterNew, AddFileMap
  <2>3. /\ \A u \in Task \ {t} : task'[u] = task[u]
        /\ DOMAIN task' = Task /\ \A u \in Task : task'[u] \in Steps[u]
    BY <2>1, AdvanceMoves, TaskNames
  <2>4. TypeOK'
    BY <1>1, <2>2, <2>3 DEF TypeOK
  <2>5. ClampFirst' /\ LandlockSparesUclamp'
    BY <2>2, <2>3, TaskNames DEF IInv, ClampFirst, LandlockSparesUclamp
  <2> QED BY <2>1, <2>2, <2>4, <2>5, TaskStep, TaskNames
<1>7. CASE Seccomp
  <2>1. PICK from \in {"begun", "compiled", "loaded"}, to \in {"compiled", "loaded", "failed", "done"} :
          /\ Advance("seccomp", from, to)
          /\ to = "loaded" => filter'
          /\ to = "done" => from = "loaded" /\ unotify'
          /\ filter' \in BOOLEAN /\ unotify' \in BOOLEAN /\ (filter => filter')
    BY <1>1, <1>7 DEF Seccomp, CompileFilter, LoadFilter, StartUnotify, TypeOK
  <2>2. UNCHANGED <<main, conf, clamping, uclampReady, domain>>
    BY <1>7 DEF Seccomp, CompileFilter, LoadFilter, StartUnotify
  <2>3. /\ \A u \in Task \ {"seccomp"} : task'[u] = task[u]
        /\ task["seccomp"] = from /\ task'["seccomp"] = to
        /\ DOMAIN task' = Task /\ \A u \in Task : task'[u] \in Steps[u]
    BY <2>1, AdvanceMoves, TaskNames
  <2>4. TypeOK'
    BY <1>1, <2>1, <2>2, <2>3 DEF TypeOK
  <2>5. ClampFirst' /\ LandlockSparesUclamp'
    BY <2>2, <2>3, TaskNames DEF IInv, ClampFirst, LandlockSparesUclamp
  <2>6. FilterFollows'
    BY <1>1, <2>1, <2>3 DEF IInv, FilterFollows, TypeOK
  <2> QED BY <2>1, <2>2, <2>4, <2>5, <2>6, TaskStep, TaskNames
<1>8. CASE ApplyUclamp
  <2>1. PICK from \in {"begun", "maxOpen", "maxWritten", "minOpen"},
             to \in {"maxOpen", "maxWritten", "minOpen", "over"} :
          /\ Advance("uclamp", from, to)
          /\ clampEnd' = "denied" => Refused \/ clampEnd = "denied"
          /\ clampEnd' \in {clampEnd, "none", "ok", "error", "denied"}
    BY <1>8 DEF ApplyUclamp, OpenClamp, WriteClamp
  <2>2. UNCHANGED <<main, conf, uclampReady, unotify, filter, domain>>
    BY <1>8 DEF ApplyUclamp
  <2>3. clamp' \in [{"max", "min"} -> {"none", "pending", "set", "failed"}]
    BY <1>1, <1>8 DEF ApplyUclamp, OpenClamp, WriteClamp, TypeOK
  <2>4. /\ \A u \in Task \ {"uclamp"} : task'[u] = task[u]
        /\ task["uclamp"] = from /\ task'["uclamp"] = to
        /\ DOMAIN task' = Task /\ \A u \in Task : task'[u] \in Steps[u]
    BY <2>1, AdvanceMoves, TaskNames
  <2>5. TypeOK'
    BY <1>1, <2>1, <2>2, <2>3, <2>4 DEF TypeOK
  <2>6. ~uclampReady /\ ~domain
    BY <2>4 DEF IInv, ClampFirst
  <2>7. ClampFirst' /\ LandlockSparesUclamp'
    BY <2>1, <2>2, <2>4, <2>6, TaskNames DEF IInv, ClampFirst, LandlockSparesUclamp, Refused
  <2> QED BY <2>1, <2>2, <2>5, <2>7, TaskStep, TaskNames
<1>9. CASE ReleaseLandlock
  <2>1. Advance("uclamp", "over", "done") /\ uclampReady' = TRUE
        /\ UNCHANGED <<main, conf, clamping, unotify, kernel>>
    BY <1>9 DEF ReleaseLandlock
  <2>2. /\ \A u \in Task \ {"uclamp"} : task'[u] = task[u]
        /\ task'["uclamp"] = "done"
        /\ DOMAIN task' = Task /\ \A u \in Task : task'[u] \in Steps[u]
    BY <2>1, AdvanceMoves, TaskNames
  <2>3. TypeOK' /\ ClampFirst' /\ LandlockSparesUclamp'
    BY <1>1, <2>1, <2>2 DEF IInv, TypeOK, ClampFirst, LandlockSparesUclamp
  <2> QED BY <2>1, <2>3, TaskStep, TaskNames
<1>10. CASE Writes
  <2>1. /\ clamp' \in [{"max", "min"} -> {"none", "pending", "set", "failed"}]
        /\ UNCHANGED <<main, conf, task, clampEnd, uclampReady, unotify, kernel>>
    BY <1>1, <1>10 DEF Writes, WriteHappens, TypeOK
  <2>2. TypeOK'
    BY <1>1, <2>1 DEF TypeOK
  <2> QED BY <2>1, <2>2
      DEF IInv, NothingYet, FilterFollows, ClampFirst, LandlockSparesUclamp, JoinedBefore, DomainFollows
<1>11. CASE Landlock
  <2>1. PICK from \in {"begun", "compiled", "released"}, to \in {"compiled", "released", "failed", "done"} :
          /\ Advance("landlock", from, to)
          /\ to = "released" => uclampReady
          /\ to = "done" => ~enabled \/ domain'
          /\ from # "released" => UNCHANGED domain
          /\ main' = main \/ main' = "dead"
          /\ domain' \in BOOLEAN
    BY <1>1, <1>11 DEF Landlock, CompileLandlock, AwaitUclamp, LoadLandlock, TypeOK
  <2>2. UNCHANGED <<conf, clamping, uclampReady, unotify, filter>>
    BY <1>11 DEF Landlock, CompileLandlock, AwaitUclamp, LoadLandlock
  <2>3. /\ \A u \in Task \ {"landlock"} : task'[u] = task[u]
        /\ task["landlock"] = from /\ task'["landlock"] = to
        /\ DOMAIN task' = Task /\ \A u \in Task : task'[u] \in Steps[u]
    BY <2>1, AdvanceMoves, TaskNames
  <2>4. TypeOK'
    BY <1>1, <2>1, <2>2, <2>3 DEF TypeOK
  <2>5. ClampFirst' /\ LandlockSparesUclamp'
    BY <2>1, <2>2, <2>3, TaskNames DEF IInv, ClampFirst, LandlockSparesUclamp
  <2>6. DomainFollows'
    BY <2>1, <2>2, <2>3 DEF DomainFollows
  <2> QED BY <2>1, <2>2, <2>3, <2>4, <2>5, <2>6, TaskStep, TaskNames
<1>12. CASE UNCHANGED vars
  BY <1>12 DEF vars, IInv, TypeOK, NothingYet, FilterFollows, ClampFirst, LandlockSparesUclamp,
               JoinedBefore, DomainFollows
<1> QED
  BY <1>2, <1>3, <1>4, <1>5, <1>6, <1>7, <1>8, <1>9, <1>10, <1>11, <1>12
  DEF Next, Main, Uclamp, Ended

-----------------------------------------------------------------------------
\* Every variable keeps its type, every task to its own steps.
THEOREM TypeCorrect == Spec => []TypeOK
<1>1. IInv => TypeOK
  BY DEF IInv
<1> QED BY <1>1, InitHolds, StepHolds, PTL DEF Spec

\* The packaged program is requested only behind the filter, its answering thread,
\* the wanted domain and the file map (ConfinedBeforeStart).
THEOREM Confined == Spec => []ConfinedBeforeStart
<1>1. IInv => ConfinedBeforeStart
  BY TaskNames DEF IInv, FilterFollows, DomainFollows, JoinedBefore, ConfinedBeforeStart
<1> QED BY <1>1, InitHolds, StepHolds, PTL DEF Spec

\* The domain never keeps Init from opening the files of the clamp (LandlockSparesUclamp).
THEOREM UclampSpared == Spec => []LandlockSparesUclamp
<1>1. IInv => LandlockSparesUclamp
  BY DEF IInv
<1> QED BY <1>1, InitHolds, StepHolds, PTL DEF Spec

\* No rule grants writing to the files of the clamp, in either form of the rules.
LEMMA NoRuleWritesClamp ==
  ASSUME NEW b \in BOOLEAN PROVE "WriteFile" \notin Granted(b, Place, "/sys/fs/cgroup")
<1>1. Above("/sys/fs/cgroup") = {"/", "/sys/fs/cgroup", "/sys", "/sys/fs"}
  BY DEF Above
<1>2. SUFFICES ASSUME NEW kind \in Kind,
                      NEW path \in DefinedRules(b)[kind] \cap Above("/sys/fs/cgroup")
               PROVE  "WriteFile" \notin RuleAccess(kind, path)
  BY DEF Granted
<1>3. kind \in {"ro", "read_dir"}
  BY <1>1 DEF DefinedRules, Kind
<1>4. "WriteFile" \notin Access(kind)
  BY <1>3 DEF Access
<1> QED BY <1>4 DEF RuleAccess

\* The started program cannot change the clamp (ClampOutOfReach).
THEOREM ClampKept == Spec => []ClampOutOfReach
<1>1. IInv => ClampOutOfReach
  BY NoRuleWritesClamp DEF IInv, TypeOK, ClampOutOfReach
<1> QED BY <1>1, InitHolds, StepHolds, PTL DEF Spec

-----------------------------------------------------------------------------
(* Nobody waits for one that has given up: what StartupEnds needs beside   *)
(* the tasks' being polled.                                                *)

Underway == main \notin Early \cup Final

Spawned ==
  Underway => /\ \A t \in Started : task[t] # "none"
              /\ main # "replacer" => task["filemap"] # "none"
              /\ task["uclamp"] = "done" => uclampReady

NoneWaitsInVain ==
  Underway =>
    /\ main = "replacer" => task["replacer"] \in {"begun", "done"}
    /\ main = "counter" => task["counter"] \in {"begun", "done"}
    /\ main = "join" => \A t \in Joined : task[t] # "none"
    /\ task["landlock"] = "compiled" => uclampReady \/ task["uclamp"] \notin {"none", "done"}

\* A task that moves neither vanishes nor moves another.
LEMMA SpawnedStays ==
  ASSUME IInv, Spawned, NEW t \in Task, NEW from, NEW to, Advance(t, from, to), to # "none",
         main' = main \/ main' = "dead", uclampReady => uclampReady',
         t = "uclamp" /\ to = "done" => uclampReady'
  PROVE  Spawned'
<1>1. /\ task'[t] = to /\ \A u \in Task \ {t} : task'[u] = task[u]
  BY AdvanceMoves
<1>2. Started \subseteq Task /\ {"uclamp", "filemap"} \subseteq Task
  BY DEF Task, Started, Joined
<1> QED BY <1>1, <1>2 DEF Spawned, Underway, Final

LEMMA SpawnedStep == IInv /\ Spawned /\ [Next]_vars => Spawned'
<1> SUFFICES ASSUME IInv, Spawned, [Next]_vars PROVE Spawned'
  OBVIOUS
<1> USE DEF conf, clamping, kernel
<1>1. {"replacer", "counter", "filemap", "seccomp", "uclamp", "landlock"} \subseteq Task
  BY TaskNames
<1>2. CASE Configure \/ Signal
  BY <1>2 DEF Configure, ReadAppId, Connect, GetInfo, StreamPty, Configuring, Signal, Spawned, Underway,
              Early, Final
<1>3. CASE SpawnTasks
  BY <1>3 DEF SpawnTasks, Spawned, Underway, Task, Started, Joined
<1>4. CASE AwaitReplacer
  <2>1. /\ task' = [task EXCEPT !["filemap"] = "begun"] /\ DOMAIN task = Task /\ UNCHANGED uclampReady
        /\ main = "replacer" /\ main' = "counter"
    BY <1>4 DEF AwaitReplacer, IInv, TypeOK
  <2> QED BY <2>1, TaskNames DEF Spawned, Underway, Early, Final, Started
<1>5. CASE AwaitCounter \/ Join \/ StartFirst
  BY <1>5 DEF AwaitCounter, Join, StartFirst, Spawned, Underway, Early, Final
<1>6. CASE Constructors
  <2>1. UNCHANGED <<main, uclampReady>> /\ \E t \in Task \ {"uclamp"} : Advance(t, "begun", "done")
    BY <1>1, <1>6 DEF Constructors, ReplacerNew, CounterNew, AddFileMap
  <2> QED BY <2>1, SpawnedStays
<1>7. CASE Seccomp
  <2>1. /\ UNCHANGED <<main, uclampReady>>
        /\ \E from, to : Advance("seccomp", from, to) /\ to # "none"
    BY <1>7 DEF Seccomp, CompileFilter, LoadFilter, StartUnotify
  <2> QED BY <1>1, <2>1, SpawnedStays
<1>8. CASE ApplyUclamp
  <2>1. /\ UNCHANGED <<main, uclampReady>>
        /\ \E from, to : Advance("uclamp", from, to) /\ to \notin {"none", "done"}
    BY <1>8 DEF ApplyUclamp, OpenClamp, WriteClamp
  <2> QED BY <1>1, <2>1, SpawnedStays
<1>9. CASE ReleaseLandlock
  <2>1. UNCHANGED main /\ uclampReady' /\ Advance("uclamp", "over", "done")
    BY <1>9 DEF ReleaseLandlock
  <2> QED BY <1>1, <2>1, SpawnedStays
<1>10. CASE Landlock
  <2>1. (main' = main \/ main' = "dead") /\ UNCHANGED uclampReady
    BY <1>10 DEF Landlock, CompileLandlock, AwaitUclamp, LoadLandlock
  <2>2. \E from, to : Advance("landlock", from, to) /\ to # "none"
    BY <1>10 DEF Landlock, CompileLandlock, AwaitUclamp, LoadLandlock
  <2> QED BY <1>1, <2>1, <2>2, SpawnedStays
<1>11. CASE Writes \/ UNCHANGED vars
  BY <1>11 DEF Writes, WriteHappens, vars, Spawned, Underway
<1> QED BY <1>2, <1>3, <1>4, <1>5, <1>6, <1>7, <1>8, <1>9, <1>10, <1>11 DEF Next, Main, Uclamp, Ended

\* While startup is under way, whatever main or the Landlock task waits for is there, or
\* its task is still on the way to it: no failure of another task can leave them hanging,
\* because the clamp task cancels the token in every case and a joined task always ends.
THEOREM NobodyWaitsInVain == Spec => []NoneWaitsInVain
<1>1. Init => IInv /\ Spawned
  BY InitHolds DEF Init, Spawned, Underway, Early
<1>2. IInv /\ Spawned /\ [Next]_vars => (IInv /\ Spawned)'
  BY StepHolds, SpawnedStep
<1>3. IInv /\ Spawned => NoneWaitsInVain
  <2> SUFFICES ASSUME IInv, Spawned, Underway PROVE NoneWaitsInVain
    BY DEF NoneWaitsInVain
  <2>1. \A t \in Started : task[t] # "none"
    BY DEF Spawned
  <2>2. main = "join" => \A t \in Joined : task[t] # "none"
    BY <2>1 DEF Spawned, Started, Joined
  <2>3. {"replacer", "counter"} \subseteq Task
        /\ \A t \in {"replacer", "counter"} : Steps[t] = {"none", "begun", "done"}
    BY DEF Steps, Task, Started, Joined
  <2>4. task["replacer"] \in {"begun", "done"} /\ task["counter"] \in {"begun", "done"}
    BY <2>1, <2>3 DEF IInv, TypeOK, Started
  <2>5. task["uclamp"] # "none" /\ (task["uclamp"] = "done" => uclampReady)
    BY <2>1 DEF Spawned, Started
  <2> QED BY <2>2, <2>4, <2>5 DEF NoneWaitsInVain
<1> QED BY <1>1, <1>2, <1>3, PTL DEF Spec
=============================================================================
