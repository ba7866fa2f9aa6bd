# A model of Init

Init is the first program inside a *Portable* sandbox. It asks the daemon outside for
its configuration over D-Bus, confines itself (seccomp, Landlock), starts the packaged
program, starts further programs when it is asked to over D-Bus, counts what it has
started and shuts the sandbox down when nothing is left. It is written in Rust as a set
of tokio tasks that share channels and one cancellation token. This directory holds TLA+
modules of it, TLC configurations, and proofs.

## The system

| Part | Source | State | Operations |
|---|---|---|---|
| Startup | `main.rs` 13-204 | handles of the tasks it starts | start tasks, await handles, join, request the packaged program |
| Service and shutdown | `main.rs` 206-271 | bus connection, signal listeners | publish, wait for token or signal, ask the daemon to stop, return |
| Spawner | `spawn.rs` | channel of 5 requests, one task each | `spawn`, loop; per task: check token, rewrite, announce, start process, wait, report |
| Counter | `counter.rs`, `counter/` | channel of 16 messages, `count` | initialise systemd, count, tell systemd and the portal, cancel at zero |
| Replacer | `process_env.rs` | channel of 5 commands, map of paths | `add`, `rewrite`, loop |
| D-Bus interface | `ipc.rs` | clones of the replacer and the spawner | `AuxStart3`, `AuxStart3Silent`, `AuxStart2` (an error), `RequestFSAccess`, `Version` (a constant); publish, stop, close |
| Shared directory | `ipc.rs` 203-355, `cleaner.rs` | links in `~/Shared` | link chosen files, map them, remove broken links in a thread |
| Clamp | `uclamp.rs` | two cgroup files, a token | write max, then min; cancel the token |
| Landlock | `landlock.rs` | ruleset, the process's domain | compile, wait for the clamp, enforce |
| Seccomp | `seccomp.rs`, `seccomp/` | lists, filter, notification descriptor | compile, load for all threads, answer notifications in a thread |
| Inhibition | `inhibit.rs` | one portal request | inhibit, close after the token |
| Configuration | `envs.rs`, `envs/` | none | get the application's name, connect, ask the daemon (`GetInfo`, `StreamPty`), decode its answer |
| Logger | `logger.rs` | none | print; `log_fatal` aborts |

How they interact. A request (main's own, or one a D-Bus handler serves) first sends its
files to the replacer and is then sent to the spawner. The spawner gives each request a
task. The task has the replacer rewrite the arguments and waits for the answer, sends
`ProcessStarted` to the counter, starts the process, waits for its exit and sends
`ProcessDied`. The counter cancels the token when it has counted down to zero. The
spawner, the replacer, the counter, the waiting tasks, the inhibition and main all watch
the token. When main returns, the runtime drops every task at its next `.await`.

What is hard: the messages of many tasks share bounded channels and do not name their
request, and one request passes three of these channels; the counter awaits a D-Bus reply
without a timeout between two messages; the token can be cancelled between any two steps
of any task, and each part then returns in its own time, so that the others find closed
channels or lose the answer they wait for; some failures abort the process (`log_fatal`),
some only end a task (a panic); startup confines the process in three tasks whose order
matters; `~/Shared` is changed by requests, by threads that outlive them, by the sandboxed
programs and by whatever happens to the files outside, one system call at a time; the
thread that answers notified system calls ends on its own while callers wait, and its
filter is in force for Init's own threads.
`PROJECT.json` lists each such place as a hazard.

What makes each part correct:

* Spawner and counter: the count is right whatever the order of the tasks; nothing it
  counts is forgotten; no process is left when Init has ended in order; the session ends
  when, and only when, it should; the last status is Stopping.
* Replacer: an answer reflects exactly the Adds sent before its Rewrite; nobody waits for
  ever; when it has to give up, the session was ending anyway.
* Startup: nothing starts unconfined; Landlock does not break the clamp and then keeps it
  out of the program's reach; startup ends.
* Shared directory: a mapped path leads to the file that was chosen; a link is known to the
  replacer; two requests and their cleaners never lose a link that works (a program, a file
  that comes back or a third request can make a cleaner remove one); no broken link is
  overlooked, unless a system call on it failed.
* Seccomp: each native system call that has a name has the action the lists intend, for each
  configuration; foreign calls are killed with a whitelist and let through without, and
  unnamed ones that are notified are let through; each notification is answered while the
  thread receives; no call of Init's own is notified, so Init can always end.
* Ending: the daemon is told before the connection closes; idling is inhibited exactly
  until the session ends.

## Modules

* **`ProcessTracker`** (the core): `spawn.rs`, `counter.rs` and `main.rs` from the first
  request on. `pc[r]` is how far the task of request `r` has come; `spawnQ` and `countQ`
  are the channels; `spawner`, `replacer`, `counter`, `main` are the control states of the
  tasks; `count`, `cancelled` and `child` are the program's; `shown` is what systemd and
  the portal were last told. One action is one access to shared state: a send, a receive,
  a look at the token, a process operation. A send waits for room and fails on a closed
  channel; a failed send is what the code makes of it (a panic ends the task, `log_fatal`
  ends Init). The request in a message of `countQ` and the `ledger` (what has been counted
  up and down) are auxiliary: no guard reads them. `SIGABRT` is taken to end the process.
* **`Session`**: what the tracker promises, without channels, tasks or a counter: close
  only when nothing is counted or a signal came, count a request down only after its
  process has exited, kill only while closing, end in order only with no process left.
  `ProcessTracker!SessionKept` is the refinement, with `phase` computed from `main` and
  `cancelled`.
* **`Replacer`**: `process_env.rs` with its callers. `queue` is the channel, `mappings`
  the task's map. `sent` and `due` are history: the map with every Add sent so far, and
  the answer each request is owed, fixed when its Rewrite is sent. `view` in a command
  is auxiliary.
* **`AtomicMap`**: what the replacer promises, without a channel or a task: one map that
  takes a request's files in at once, a rewriting that is decided in the step of asking and
  given once, and nobody who goes without unless Init is ending. `Replacer!AtomicMapKept` is
  the refinement: the abstract map is `sent`, the decision is `due`, `Stage` hides which
  channel a request waits at.
* **`Service`**: the two modules above joined where the code joins them, with the D-Bus
  handlers. Each action is an action of one component, or one action of each that are the
  same step of the program (a rewriting that is answered, a task that is dropped with the
  receiver it waits on). `stage` is the replacer's `pc`. `TrackerKept` and `ReplacerKept`
  are the two refinements: neither component does to the other what that one was assumed
  to be spared. In particular the replacer's panic over a dropped receiver, which cancels
  the token, must be the tracker's `ReplacerReturns`, whose guard is the cancellation.
* **`Startup`**: `main.rs` up to the first request: the argument, the connection, the
  daemon's answers (`envs.rs`), the tasks, the steps of `uclamp.rs` file by file (the bytes
  are left to a blocking thread, `WriteHappens`), loading of the filter and of the domain,
  each of which can fail.
* **`LandlockRules`**: the rules of `landlock.rs` as a function of the configuration, and
  what they grant in a place: the rights of all rules for the directories above add up.
  `Startup` uses it to decide whether the clamp files can be opened and written.
* **`SharedDir`**: `RequestFSAccess` from the portal's answer on, and `cleaner.rs`. An action
  is one system call (`metadata`, `create_dir`, `symlink`, reading the directory, looking at
  an entry, removing it) or the one message to the replacer, each with its failure: a
  listing that breaks off (`ReadEntryFails`), an entry that cannot be looked at (`Inspect`), a
  link that works but cannot be followed (`Look`), a removal that is refused (`KeepEntry`).
  The directory's first state is whatever an earlier run left. Programs rename files of their
  own onto a name and remove links; files outside vanish and come back. `maker`, `unlinked`,
  `window`, `fresh` are history: `window[c]` says who interfered while cleaner `c` dealt with a
  name (other cleaners by their request, anything outside Init as `NoRequest`), `fresh` which
  names a cleaner failed at or whose file has gone since a cleaner looked.
* **`SyscallFilter`**: `list.rs` and `filter.rs` as functions: the groups, the four lists,
  the rules for each of the two switches, and the action the kernel then takes. A group
  stands for its members; a call that is treated on its own is listed besides.
  `Permitted` is the reference: what the lists are for.
* **`Unotify`**: callers under that filter, the kernel's list of notifications, the thread
  of `unotify.rs`, the end of Init. Callers are threads of programs and, since the filter is
  loaded for all threads (`set_ctl_tsync`), threads of Init (`InitThread`), which make only
  calls of Init's architecture in the permitted groups (`InitCall`: files, sockets, polling,
  processes). libseccomp may lack any one name, except those of Init's calls.
* **`Ending`**: the end of `main.rs` on the two D-Bus connections: Stop, return,
  `graceful_shutdown` as a task of its own, and the inhibition task with what the portal
  sees of it, in the order it was written.
* **`MCProcessTracker`**, **`MCReplacer`**, **`MCService`**, **`MCSharedDir`**: constants
  for TLC.
* **`ProcessTrackerProofs`**, **`SessionProofs`**, **`ReplacerProofs`**, **`ServiceProofs`**,
  **`StartupProofs`**, **`SharedDirProofs`**, **`UnotifyProofs`**, **`EndingProofs`**: the
  proofs, one module per specification.

Definitions whose comment begins "Variant" are plausible bugs. No specification uses
them: each shows, put in the place of the definition it follows, that some property
notices the bug.

## Runs

| Run | Checks | Bounds |
|---|---|---|
| `tracker_safety` | types and capacities, the count, no leak, nobody stranded or left behind, Stopping is final, what a session is closed over, refinement of `Session` | 3 requests, channels of 1 and 2; main's request fixed, the others symmetric |
| `tracker_liveness` | cancelling ends Init, a quiet session ends, accepted requests get their process | 2 requests, channels of 2 and 1 |
| `start_send` | violation: `spawn.rs:39` unwraps a send that fails | 2 requests |
| `start_message` | violation: `spawn.rs:126` aborts Init in an ordinary shutdown | 2 requests |
| `replacer` | refinement of `AtomicMap` (answers follow the sends), own files are replaced, every Rewrite returns | 3 requests, channel of 2, two keys and four maps that overlap |
| `service` | both components keep to their specifications, processes get the rewritten arguments, the replacer ends no session, requests are not stuck between three channels | 2 requests, all channels of 1, one map |
| `startup` | confinement before the first start, clamp before Landlock and out of reach after, startup ends | none needed: finite |
| `clamp_write` | violation: `uclamp.rs:9` declares an error that is never returned | as `startup` |
| `shared_dir` | mapped paths, known links, whose interference can lose a link, no broken link overlooked, requests and cleaners end | 2 requests with their cleaners, two files of one name |
| `existing_dir` | violation: `ipc.rs:283` gives a selection up although the directory exists | as `shared_dir` |
| `unotify` | refused calls never run, permitted ones are direct, notified ones return, the cancellation ends Init although it is under its own filter | 3 callers, one of Init; five calls that stand for the kinds of rule; all four configurations; every name missing in turn |
| `ending` | Stop before close, inhibition held and lifted | none needed: finite, as a connection ends once |

Why the bounds are enough. The channels' real capacities (5, 16, 5) are constants here.
Full, empty and closed channels, a sender that waits and messages of different
requests in either order all happen with capacities of one and two and three requests;
larger ones only lengthen the waiting line. Three requests let one be counted, one be in a
channel and one be at its token check at the same moment. `UsizeMax` is the number of
requests, the least value the assumption allows, so that wrapping is within reach. The
safety properties of the tracker are proved for all values besides. `Service` is run with
two requests and channels of one: a request that is rewritten while the other waits for
room, or is dropped, is what the composition adds to its components.

`SharedDir` needs two files of one name (the later one finds the name taken), two requests
(each finds a link the other has made and not sent, or has yet to be cleaned) and their two
cleaners (each may remove what the other has looked at); a second name would only repeat
the first, as the code looks at one entry at a time. What three requests add is known: two
cleaners find one link broken, the first removes it, the third request links its file under
that name, and the second cleaner removes that. `RemovalJustified` names this case and no
other between requests, and `RemovalsJustified` proves that for any number of them; with two
requests the run shows that the case does not arise. `Unotify`'s five calls are one that is
always permitted, one that is always refused, a debugging call, one with an answer of its
own and the one without a name; the other groups go through the same branch of
`compile_filter`, and the theorems are about all of them. Two threads of programs can be
suspended at once, in either order; one thread of Init is enough to keep it from ending.

The violations. In `start_send` a signal cancels the token, the spawner returns, and a
D-Bus request that arrives before the process ends panics in its handler; its caller gets
no answer of the interface's own. In `start_message` a task has passed its only token
check when the counter returns; its failed send aborts Init, so the daemon is not asked
to stop and running processes are not killed. In `clamp_write` the kernel refuses a write
that `write().await` has handed to a blocking thread; the file is dropped without a flush
and `apply_uclamp` returns Ok. In `existing_dir` two requests find no directory, one makes
it, and the other's `create_dir` fails.

Fairness. `RuntimeFairness` is weak fairness of the steps of main, of the loops and of
each task: the multi-threaded runtime polls whatever can make progress, the bus answers
Init's own calls, and teardown drops what waits. A `select!` with two ready branches takes
one at random; no property assumes which. Nothing is assumed of users, of signals or of
processes. That the portal answers is a separate assumption (`PortalAnswers`) written in
front of the two properties that need it; `CancelEnds` does without. Deadlock is checked
in every run; the states in which Init has ended stutter explicitly.

The other modules assume the same of tasks and threads, and besides: `Startup`, that the
bus and the daemon answer `GetInfo` and `StreamPty` one way or the other, and that blocking
threads write; `Service`, that the portal answers; `Unotify`, that Init ends after the
cancellation, which is `CancelEnds` of the tracker, *as long as the kernel suspends none of
its threads* (that it never does is what `EndsDespiteFilter` shows); `SharedDir`, nothing of the user, who
may never answer the portal's dialogue, nor of programs and files; `Ending`, only that
main runs, that the runtime drops tasks and that the portal notices a closed connection,
not that it answers a call.

## Proofs

`ProcessTrackerProofs` proves, for any finite set of requests, any positive capacities
and a `usize` that can count the requests (`ReqAssumption`, `CapAssumption`):

* `TypeCorrect`: `Spec => []TypeOK`.
* `InvCorrect`: `Spec => []IInv`, and from it `CountCorrect`, `NoLeak` and `NothingLeft`,
  invariants of `tracker_safety`, and two corollaries no run checks again: `NoUnderflow`
  (a death is never received at zero) and `LiveCounted` (while the counter lives, a process
  that runs is counted or its start is in the channel).
* `NobodyStranded`: `Spec => []NoneStranded`, from `WInv`, and from it `QuietGoesOn`.
* `StoppingFinal`: `Spec => StoppingIsFinal`, from the invariant `StopInv`.
* `ClosesOverNone`: `Spec => ClosesUncounted`, from `IInv`: the decision at zero is taken from
  the count alone, and the theorem says what the count then knows.

`CountIsTracked` is not inductive: the counter adds and subtracts one without knowing for
whom. `IInv` follows each request: it is in the spawner's channel at most once
(`SpawnQInv`), so it has one task; the task's start is in the counter's channel only while
the ledger is new to it (`StartQInv`), its death only after its start (`DeathQInv`), each
once (`OnceQInv`); a task that has not sent its start is unknown to the ledger and one that
owes its death is not counted down (`LedgerInv`); while the counter lives, what was sent
is counted or still in the channel (`SentInv`). `CancelInv` says that whoever gives up does
so after the cancellation, `AliveInv` that a running process has a waiting task,
`StartInv` and `ExitInv` fix the two ends. The proof has a lemma for each kind of step on
the channels (`EnqueueKeeps`, `ReceiveKeeps`, `StartKeeps`, `DeathKeeps`, `CountKeeps`),
two for steps that leave them alone (`MoveKeeps`, `RestKeeps`), and `CountStep` for the
cardinality; `InvStep` puts them together, one step per action.

`NoneStranded` says of a session nobody has cancelled: every accepted request is in the channel
or has a task, the loops it needs serve, none was given up, and a counter with nothing to
receive has never been told of a process or has one to wait for. `WInv` adds three parts to
`IInv`: a loop that has returned, or a request given up, means that the token was cancelled
(`LateInv`); a request that was accepted and has no task is in the spawner's channel
(`AcceptedInv`); and a counter that receives at zero has counted nothing yet, because at any
later zero it leaves (`RestInv`).

**Session** (`SessionProofs`, `Refines`: `Spec => SessionKept`). The mapping needs `IInv`, that
a task's process follows its control state (`ChildInv`: none before the launch, exited when
the death is reported) and that the counter talks to the portal only after it has counted
(`PortalInv`, so that a count of zero is a count *back* to zero). Then each kind of step is
a step of `Session` or leaves its four variables alone.

**Replacer** (`ReplacerProofs`). `AnswersAsSent` is not inductive: between the send and the
answer the map is neither in `mappings` nor in `out`. `IInv` chains the views: the view
of each command is what the task's map will be after it (`ViewsFollow`), the last is `sent`
(`SentIsLast`), and what a waiting request is owed is by the view of its command
(`DueInQueue`). `OwnInv` says that what was sent is some request's entry and that a request's
own keys have been sent before it is spawned. `WaitInv` (`WaitersKnown`): a Rewrite in the
channel is its task's only one, and that task waits unless the token was cancelled.

`AtomicRefined` (`Spec => AtomicMapKept`) maps each send to a step of the map and each
answer to a step of `AtomicMap`; the replacer's own steps on its map are stutters. Its one
hard step is the answer: that what the task computes from `mappings` is `due`, which is
`AnswersCorrect`. `WaitersServed` (`AwaitInv`) adds the converse of `WaitInv`: a task that
waits has its Rewrite in the channel, or the channel is closed.

**Service** (`ServiceProofs`). Every step is a step of the replacer's module or leaves it
alone (`ReplacerRefined`); hence the theorems of `ReplacerProofs` hold in the composition.
With `WaitInv` every step is one of the tracker's module (`TrackerRefined`), and its
theorems hold too; `NeverEnds` is the same argument about the panic. So the service keeps
the promises of `Session` and `AtomicMap` (`ServiceIsSession`, `ServiceIsAtomicMap`), leaves no
process (`ServiceLeavesNone`) and strands no request (`ServiceStrandsNone`); the proofs cite
the theorems of the components, instantiated as the components are, and bridge the two
instances by expanding both. `RewritesAreServed` closes the gap the tracker alone leaves
open: its `Rewrite` awaits an answer, and in the service that answer is on its way. `StartedRight` adds
that a task past its rewriting, or with a process, has had its answer.

**Startup** (`StartupProofs`). From what each task has done follows what is in force
(`FilterFollows`, `DomainFollows`), the clamp is over before the domain is enforced
(`ClampFirst`), and main requests the program only after the joins (`JoinedBefore`). No rule
above the cgroup grants writing, which with the enforced domain is `ClampOutOfReach`.
`NobodyWaitsInVain`: what main or the Landlock task waits for is there, or its task has been
started and has not ended (`Spawned`); the clamp task in particular has cancelled its token
when it is done, however it got there.

**SharedDir** (`SharedDirProofs`), for any files, names and requests: a file that is mapped, or
that a request has linked and not sent yet, has its link unless someone took it away
(`LinksLead`); what a cleaner looks at is a link, and one it will remove is broken, as long as
nobody touched it in between (`UntouchedIsBroken`); a name that is broken and not `fresh` is
expected by a cleaner, or by a request that will start one (`BrokenIsExpected`).
`WorkEnds` gives the measure: a request's phase and the paths it has left, a cleaner's names
left and then its phase, which every step of theirs lowers and no other step raises. It needs
that a cleaner is started once, by a request that has then returned (`Returned`). For
`RemovalsJustified`, `UntouchedIsBroken` says more: if only other cleaners interfered, what is
there now is broken, or nothing, or the link of a request that is neither the cleaner's own
nor one of theirs, because a request that has returned (`Returned`) links nothing any more.

**Unotify** (`UnotifyProofs`), for any callers, calls and missing names: the list holds
callers that wait, each once (`QueueOfWaiting`), the thread has a request when it answers
(`HasRequest`), and for a call that libseccomp can name the filter allows exactly what is
permitted, which is a fact about `SyscallFilter` alone (`FilterDecides`).
`NotificationsAreKept`: who waits to be received is on the list, also after others were taken
off it (`WithoutKeeps`), who was received is the thread's request, and after the end of Init
nobody waits. A call without a name meets the default action (`UnnamedByDefault`), a foreign
one the action for its architecture; these are the exceptions `RefusedNeverRuns` and
`PermittedIsDirect` state. `InitIsNeverSuspended` (`InitGoesOn`) follows from `FilterDecides`:
what Init calls is permitted and has a name, so it is never notified.

**Ending** (`EndingProofs`): the connection is closed only after main has returned
(`ConnInv`); a `Close` on the portal's wire was written after the cancellation, a
disconnection is there only when Init is gone (`WireInv`). `InhibitionsAreUndone`: when Init is
gone, its disconnection is the last message on the wire, or has been seen and nothing is
inhibited, so that an Inhibit still unread is undone.

What the proofs assume is what the modules state as `ASSUME`: positive capacities, inputs of
the right type, distinct markers, and a counter that can hold the number of requests. Of the
properties the runs check, all invariants, all action properties and the four refinements are
proved. Only model-checked is liveness (`CancelEnds`, `QuietEnds`, `AcceptedStarts`,
`RewriteReturns`, `StartupEnds`, `Settles`, `NotifiedReturns`, `EndsDespiteFilter`,
`InhibitionLifted`): TLAPS has no rules for fairness and ENABLED. For all but the first there
is a theorem about the safety half, what must hold at each moment for the property not
to be lost: that who waits can still be served, or that the work left decreases.

| Liveness | Safety half |
|---|---|
| `QuietEnds` | `NobodyStranded`, `QuietGoesOn` |
| `AcceptedStarts` | `NobodyStranded`; in the service `ServiceStrandsNone`, `RewritesAreServed` |
| `RewriteReturns` | `WaitersServed` |
| `StartupEnds` | `NobodyWaitsInVain` |
| `Settles` | `WorkEnds` |
| `NotifiedReturns` | `NotificationsAreKept` |
| `EndsDespiteFilter` | `InitIsNeverSuspended` |
| `InhibitionLifted` | `InhibitionsAreUndone` |

## Not modelled

* Wording of logs and statuses, systemd's and the portal's protocols; the terminal set-up of
  a child (part of `Launch`'s success or failure).
* Copying the fields of the daemon's reply into the configuration (no state, no branch); what
  the switches in it decide is in the modules that read them.
* `AuxStart2`, which answers an error, and `Version`, which answers a constant.
* Panics of `signal()` (tokio refuses only signals that cannot be handled). `None => continue`
  in `counter.rs:62` and the `None` branches of the other loops: the senders live as long
  as the loops.
* The members of the groups of system calls, one by one. The allow list names four calls
  twice (`close`, `capget`, `times`, `sched_yield`); the model's lists are sets, as libseccomp
  takes an identical rule again. No name is in two lists except where the model lists
  it on its own. `chroot` is in an allowed group, so the answer the thread has ready for it
  (`unotify.rs`) is never needed; the `selective` list never becomes rules.
* Landlock: the user's home is taken to lie in none of the other places, and the paths of
  the rules in `Startup` to exist (a missing path has no rule and grants less).
* A failed reception ends the notification thread (`unotify.rs` logs and returns). That is in
  the model (`ReceiveFails`) and excepted in `NotifiedReturns`: who waits then, waits for the
  end of Init.
* What becomes of an old map entry whose link a cleaner, or a program, has removed and whose
  name is then linked to another file: no command takes entries out of the map, so it leads
  to the new file. `NeverAnotherFile` is about links nobody has taken away.
* The `unwrap`s in `ipc.rs` 341-342, between the link and its entry. The chosen paths are made
  from strings, so only a `$HOME` that is not UTF-8 makes them panic; `$HOME` is taken to be
  UTF-8.
* A call of Init's own that libseccomp has no name for: with a whitelist it would be notified,
  and one that is made when the notification thread has returned would keep Init from ending.
  `Unotify` takes the names of the calls Init makes as known to libseccomp (`named`).
* Several runs of Init over one home at the same time.

## Plan

The core (`ProcessTracker`, `Session`) came first, so that the count and the end of a session
did; then `Replacer` and `Startup`; then `SharedDir`, `SyscallFilter`, `Unotify`, `Ending`,
`LandlockRules`, and the composition `Service`; then the proofs of their invariants and
refinements; then `AtomicMap`, the theorems of the whole service, and the safety halves of
the liveness properties. What remains worth doing:

1. Join `SharedDir`'s one message with the replacer of `Service`, so that links and rewriting
   are one system (today each has its own view of the map).
2. Derive the lists of `SyscallFilter` name by name, if the lists begin to overlap.
3. A measure for `CancelEnds` (each part of Init that is left after the cancellation), as
   `WorkEnds` is for `Settles`.
4. Restate the liveness properties by their enabledness lemmas, should TLAPS learn ENABLED.
