-------------------------------- MODULE Startup --------------------------------
(***************************************************************************)
(* From the configuration to the first start request (main.rs): main       *)
(* starts one task per part of the sandbox, the tasks confine the process  *)
(* in parallel with each other (seccomp filter, Landlock domain) and with  *)
(* the writing of the cgroup's clamp, and main joins them before it sends  *)
(* the packaged program to the spawner. Both confinements apply to every   *)
(* thread of Init, so to whatever it starts afterwards, and the Landlock   *)
(* domain forbids what the clamp task has yet to open.                     *)
(***************************************************************************)
EXTENDS LandlockRules

VARIABLES
  main,       \* how far main has come
  enabled,    \* ConfigOpts.landlock
  flatpak,    \* ConfigOpts.has_flatpak_info
  task,       \* the tasks main starts
  clampEnd,   \* how apply_uclamp ended
  clamp,      \* what became of the write to each of the cgroup's two files
  uclampReady,\* the token the Landlock task waits for
  filter,     \* the seccomp filter is in the kernel
  unotify,    \* the thread that answers the filter's notifications runs
  domain      \* the Landlock domain is enforced

kernel == <<filter, domain>>
conf == <<enabled, flatpak>>
clamping == <<clampEnd, clamp>>
vars == <<main, conf, task, clamping, uclampReady, unotify, kernel>>

Started == {"replacer", "seccomp", "uclamp", "landlock", "counter"}
Joined == {"seccomp", "landlock", "filemap"}
Task == Started \cup Joined

\* What the tasks that cannot fail are in, beside the states of the others.
Steps == [t \in Task |->
  {"none", "begun", "done"} \cup
    CASE t = "seccomp"  -> {"compiled", "loaded", "failed"}
      [] t = "landlock" -> {"compiled", "released", "failed"}
      [] t = "uclamp"   -> {"maxOpen", "maxWritten", "minOpen", "over"}
      [] OTHER          -> {}]

TypeOK ==
  /\ main \in {"config", "connecting", "asking", "streaming", "spawning", "replacer", "counter", "join",
              "starting", "started", "panicked", "dead"}
  /\ enabled \in BOOLEAN /\ flatpak \in BOOLEAN
  /\ DOMAIN task = Task /\ \A t \in Task : task[t] \in Steps[t]
  /\ clampEnd \in {"none", "ok", "error", "denied"}
  /\ clamp \in [{"max", "min"} -> {"none", "pending", "set", "failed"}]
  /\ uclampReady \in BOOLEAN /\ filter \in BOOLEAN /\ unotify \in BOOLEAN /\ domain \in BOOLEAN

Init ==
  /\ main = "config"
  /\ enabled = FALSE /\ flatpak = FALSE
  /\ task = [t \in Task |-> "none"]
  /\ clampEnd = "none" /\ uclampReady = FALSE /\ clamp = [f \in {"max", "min"} |-> "none"]
  /\ filter = FALSE /\ unotify = FALSE /\ domain = FALSE

Final == {"started", "panicked", "dead"}

\* Task t goes from one of its steps to the next while the process lives.
Advance(t, from, to) ==
  /\ main \notin Final
  /\ task[t] = from
  /\ task' = [task EXCEPT ![t] = to]

-----------------------------------------------------------------------------
(* main. *)

\* A step of envs::get; its failure is fatal (log_fatal).
Configuring(from, to) ==
  /\ main = from /\ main' \in to \cup {"dead"}
  /\ UNCHANGED <<task, clamping, uclampReady, unotify, kernel>>

\* The one argument, and the connection to the session bus.
ReadAppId == Configuring("config", {"connecting"}) /\ UNCHANGED conf
Connect == Configuring("connecting", {"asking"}) /\ UNCHANGED conf

\* The daemon answers GetInfo; it says whether a terminal is to be asked for.
GetInfo ==
  /\ Configuring("asking", {"streaming", "spawning"})
  /\ enabled' \in BOOLEAN /\ flatpak' \in BOOLEAN

StreamPty == Configuring("streaming", {"spawning"}) /\ UNCHANGED conf

\* The five tokio::spawn in a row, without an .await.
SpawnTasks ==
  /\ main = "spawning" /\ main' = "replacer"
  /\ task' = [t \in Task |-> IF t \in Started THEN "begun" ELSE "none"]
  /\ UNCHANGED <<conf, clamping, uclampReady, unotify, kernel>>

\* The replacer's handle arrives, and the task that adds the file map is started.
AwaitReplacer ==
  /\ main = "replacer" /\ task["replacer"] = "done"
  /\ main' = "counter"
  /\ task' = [task EXCEPT !["filemap"] = "begun"]
  /\ UNCHANGED <<conf, clamping, uclampReady, unotify, kernel>>

\* The counter's handle arrives, and the spawner is made.
AwaitCounter ==
  /\ main = "counter" /\ task["counter"] = "done"
  /\ main' = "join"
  /\ UNCHANGED <<conf, task, clamping, uclampReady, unotify, kernel>>

\* Every joined task ends before any result is looked at; each .expect panics on
\* an error or on the task's own panic, and main with it.
Join ==
  /\ main = "join"
  /\ \A t \in Joined : task[t] \in {"done", "failed"}
  /\ main' = IF \A t \in Joined : task[t] = "done" THEN "starting" ELSE "panicked"
  /\ UNCHANGED <<conf, task, clamping, uclampReady, unotify, kernel>>

StartFirst ==
  /\ main = "starting" /\ main' = "started"
  /\ UNCHANGED <<conf, task, clamping, uclampReady, unotify, kernel>>

\* SIGINT or SIGTERM: no listener is installed yet.
Signal ==
  /\ main \notin Final /\ main' = "dead"
  /\ UNCHANGED <<conf, task, clamping, uclampReady, unotify, kernel>>

-----------------------------------------------------------------------------
(* Replacer::new, Counter::new and the task that adds ConfigOpts.file_map. *)

ReplacerNew ==
  /\ Advance("replacer", "begun", "done")
  /\ UNCHANGED <<main, conf, clamping, uclampReady, unotify, kernel>>

\* Variant: the counter's construction can fail.
CounterNewFails ==
  /\ \E end \in {"done", "failed"} : Advance("counter", "begun", end)
  /\ UNCHANGED <<main, conf, clamping, uclampReady, unotify, kernel>>

CounterNew ==
  /\ Advance("counter", "begun", "done")
  /\ UNCHANGED <<main, conf, clamping, uclampReady, unotify, kernel>>

\* The replacer lives and its channel is empty, so the send neither fails nor waits.
AddFileMap ==
  /\ Advance("filemap", "begun", "done")
  /\ UNCHANGED <<main, conf, clamping, uclampReady, unotify, kernel>>

-----------------------------------------------------------------------------
(* seccomp::load. *)

CompileFilter ==
  /\ \E end \in {"compiled", "failed"} : Advance("seccomp", "begun", end)
  /\ UNCHANGED <<main, conf, clamping, uclampReady, unotify, kernel>>

LoadFilter ==
  /\ \/ Advance("seccomp", "compiled", "loaded") /\ filter' = TRUE
     \/ Advance("seccomp", "compiled", "failed") /\ UNCHANGED filter
  /\ UNCHANGED <<main, conf, clamping, uclampReady, unotify, domain>>

\* The notification descriptor is taken, or not, and its thread started.
StartUnotify ==
  /\ \/ Advance("seccomp", "loaded", "done") /\ unotify' = TRUE
     \/ Advance("seccomp", "loaded", "failed") /\ UNCHANGED unotify
  /\ UNCHANGED <<main, conf, clamping, uclampReady, kernel>>

-----------------------------------------------------------------------------
(* The clamp task. Opening a file can fail, and does so under a domain that does
   not let Init write there (all the paths of the rules are taken to exist). *)

Refused == domain /\ "WriteFile" \notin Granted(flatpak, Place, "/sys/fs/cgroup")

OpenClamp(from, to) ==
  /\ \/ ~Refused /\ Advance("uclamp", from, to) /\ UNCHANGED clampEnd
     \/ Advance("uclamp", from, "over") /\ clampEnd' = IF Refused THEN "denied" ELSE "error"
  /\ UNCHANGED clamp

\* write().await of a tokio File hands the bytes to a blocking thread and returns; how
\* that one fares would be seen by the next call on the file, and there is none.
WriteClamp(from, f, to, end) ==
  /\ Advance("uclamp", from, to) /\ clampEnd' = end
  /\ clamp' = [clamp EXCEPT ![f] = "pending"]

ApplyUclamp ==
  /\ \/ OpenClamp("begun", "maxOpen")
     \/ WriteClamp("maxOpen", "max", "maxWritten", "none")
     \/ OpenClamp("maxWritten", "minOpen")
     \/ WriteClamp("minOpen", "min", "over", "ok")
  /\ UNCHANGED <<main, conf, uclampReady, unotify, filter, domain>>

\* The blocking thread, in parallel with all else; the domain spares an open file.
WriteHappens(f) ==
  /\ main \notin Final
  /\ clamp[f] = "pending"
  /\ \E end \in {"set", "failed"} : clamp' = [clamp EXCEPT ![f] = end]
  /\ UNCHANGED <<main, conf, task, clampEnd, uclampReady, unotify, kernel>>

\* Variant: an error ends the task before it cancels the token.
ReleaseLandlockOnSuccess ==
  /\ Advance("uclamp", "over", "done")
  /\ uclampReady' = (clampEnd = "ok")
  /\ UNCHANGED <<main, conf, clamping, unotify, kernel>>

\* An error is only logged; the token is cancelled in either case.
ReleaseLandlock ==
  /\ Advance("uclamp", "over", "done")
  /\ uclampReady' = TRUE
  /\ UNCHANGED <<main, conf, clamping, unotify, kernel>>

-----------------------------------------------------------------------------
(* The Landlock task. *)

\* Nothing to do, or the rules are compiled, or log_fatal.
CompileLandlock ==
  /\ \/ ~enabled /\ Advance("landlock", "begun", "done") /\ UNCHANGED main
     \/ enabled /\ Advance("landlock", "begun", "compiled") /\ UNCHANGED main
     \/ enabled /\ Advance("landlock", "begun", "failed") /\ main' = "dead"
  /\ UNCHANGED <<conf, clamping, uclampReady, unotify, kernel>>

\* Variant: no waiting.
AwaitUclampNot ==
  /\ Advance("landlock", "compiled", "released")
  /\ UNCHANGED <<main, conf, clamping, uclampReady, unotify, kernel>>

AwaitUclamp ==
  /\ uclampReady
  /\ Advance("landlock", "compiled", "released")
  /\ UNCHANGED <<main, conf, clamping, uclampReady, unotify, kernel>>

\* Variant: a ruleset the kernel did not enforce is accepted.
LoadLandlockUnenforced ==
  /\ Advance("landlock", "released", "done")
  /\ domain' \in BOOLEAN
  /\ UNCHANGED <<main, conf, clamping, uclampReady, unotify, filter>>

\* restrict_self fails, or enforces nothing, a part (both errors) or all.
LoadLandlock ==
  /\ \/ Advance("landlock", "released", "done") /\ domain' = TRUE
     \/ Advance("landlock", "released", "failed") /\ domain' \in BOOLEAN
  /\ UNCHANGED <<main, conf, clamping, uclampReady, unotify, filter>>

-----------------------------------------------------------------------------
\* The program has been started or Init has ended; not a deadlock.
Ended == main \in Final /\ UNCHANGED vars

Configure == ReadAppId \/ Connect \/ GetInfo \/ StreamPty
Main == Configure \/ SpawnTasks \/ AwaitReplacer \/ AwaitCounter \/ Join \/ StartFirst
Constructors == ReplacerNew \/ CounterNew \/ AddFileMap
Seccomp == CompileFilter \/ LoadFilter \/ StartUnotify
Uclamp == ApplyUclamp \/ ReleaseLandlock
Writes == \E f \in {"max", "min"} : WriteHappens(f)
Landlock == CompileLandlock \/ AwaitUclamp \/ LoadLandlock

Next == Main \/ Constructors \/ Seccomp \/ Uclamp \/ Writes \/ Landlock \/ Signal \/ Ended

Spec == Init /\ [][Next]_vars

\* The bus and the daemon answer, main and every task are polled when they can make
\* progress; signals may not come.
LiveSpec ==
  /\ Spec
  /\ WF_vars(Main) /\ WF_vars(ReplacerNew) /\ WF_vars(CounterNew) /\ WF_vars(AddFileMap)
  /\ WF_vars(Seccomp) /\ WF_vars(Uclamp) /\ WF_vars(Landlock)

-----------------------------------------------------------------------------
\* The packaged program is requested only when the filter is loaded and answered
\* for, the domain is enforced if the configuration wants one, and the file map is
\* on its way to the replacer: none of the tasks may be forgotten or fail unseen.
ConfinedBeforeStart ==
  main = "started" =>
    /\ filter /\ unotify
    /\ enabled => domain
    /\ task["filemap"] = "done"

\* main.rs:87: Landlock waits for the clamp, because it would break it. No opening
\* of a clamp file is refused by the domain.
LandlockSparesUclamp == clampEnd # "denied"

\* The domain that lets the clamp through while starting keeps the started program from
\* changing it, whichever directory above the files a rule grants something.
ClampOutOfReach ==
  main = "started" /\ enabled => "WriteFile" \notin Granted(flatpak, Place, "/sys/fs/cgroup")

\* Whatever fails, startup comes to an end: no task waits for another that has
\* given up.
StartupEnds == <>(main \in Final)

-----------------------------------------------------------------------------
\* main.rs:54-59 and uclamp.rs:9-10: a failed write is an error of apply_uclamp, which
\* otherwise has set the clamp.
WriteErrorsReported == clampEnd = "ok" => \A f \in {"max", "min"} : clamp[f] # "failed"
=============================================================================
