------------------------------- MODULE Replacer -------------------------------
(***************************************************************************)
(* The replacer task (process_env.rs) owns the map from the paths outside  *)
(* the sandbox to the paths inside it. Callers add entries and have        *)
(* argument lists rewritten over one bounded channel; an Add returns as    *)
(* soon as it is queued, a Rewrite when the answer arrives. A request      *)
(* first adds its own files and only then is spawned (ipc.rs; main.rs for  *)
(* the packaged program), and its task asks for the rewritten arguments    *)
(* some time later (spawn.rs).                                             *)
(***************************************************************************)
EXTENDS Naturals, Sequences

CONSTANTS
  Path,       \* argument words, of which some are paths
  Req,        \* the requests of one run
  First,      \* main's own request, for the packaged program
  Cap,        \* capacity of the channel (5 in process_env.rs:37)
  ConfArgs,   \* the packaged program's arguments (ConfigOpts.args)
  FileMap,    \* the configured file map (ConfigOpts.file_map)
  Extra,      \* the extra_files maps callers may pass
  Arguments   \* the argument lists callers may pass

PathMap == UNION {[S -> Path] : S \in SUBSET Path}

ASSUME CapAssumption == Cap \in Nat \ {0}
ASSUME InputAssumption ==
  /\ First \in Req
  /\ ConfArgs \in Seq(Path) /\ Arguments \subseteq Seq(Path)
  /\ FileMap \in PathMap /\ Extra \subseteq PathMap

VARIABLES
  pc,         \* how far each request has come
  extra,      \* the files it adds
  args,       \* the arguments it is to be started with
  out,        \* the arguments the replacer answered
  queue,      \* the channel; `view` in a command is auxiliary
  mappings,   \* the replacer's map
  replacer,   \* the task running process_env::run
  cancelled,  \* the cancellation token
  sent,       \* history: the map with every Add sent so far
  due         \* history: the rewriting of args by the map sent before its Rewrite

callers == <<pc, extra, args>>
vars == <<callers, out, queue, mappings, replacer, cancelled, sent, due>>

Empty == [x \in {} |-> x]

\* The entries of an Add replace those with the same key.
Overlay(old, new) ==
  [x \in DOMAIN old \cup DOMAIN new |-> IF x \in DOMAIN new THEN new[x] ELSE old[x]]

\* One pass, word by word.
Rewritten(m, words) ==
  [i \in DOMAIN words |-> IF words[i] \in DOMAIN m THEN m[words[i]] ELSE words[i]]

Add(m, v) == [op |-> "Add", map |-> m, view |-> v]
Rewrite(r, v) == [op |-> "Rewrite", req |-> r, view |-> v]

Command == [op : {"Add"}, map : PathMap, view : PathMap] \cup
           [op : {"Rewrite"}, req : Req, view : PathMap]

TypeOK ==
  /\ pc \in [Req -> {"idle", "adding", "spawned", "rewriting",
                     "answered", "rejected", "failed", "dropped"}]
  /\ extra \in [Req -> PathMap]
  /\ args \in [Req -> Seq(Path)] /\ out \in [Req -> Seq(Path)] /\ due \in [Req -> Seq(Path)]
  /\ queue \in Seq(Command) /\ Len(queue) <= Cap
  /\ mappings \in PathMap /\ sent \in PathMap
  /\ replacer \in {"running", "returned", "panicked"}
  /\ cancelled \in BOOLEAN

Init ==
  /\ pc = [r \in Req |-> "idle"]
  /\ extra = [r \in Req |-> Empty]
  /\ args = [r \in Req |-> <<>>] /\ out = [r \in Req |-> <<>>] /\ due = [r \in Req |-> <<>>]
  /\ queue = <<>> /\ mappings = Empty /\ sent = Empty
  /\ replacer = "running" /\ cancelled = FALSE

\* Variant: an unbounded channel.
OpenAlways == replacer = "running"

Open == replacer = "running" /\ Len(queue) < Cap
Goto(r, where) == pc' = [pc EXCEPT ![r] = where]

-----------------------------------------------------------------------------
(* The callers. *)

\* main adds the configured map whatever it holds, and joins that before it spawns.
CallFirst ==
  /\ pc[First] = "idle"
  /\ Goto(First, "adding")
  /\ extra' = [extra EXCEPT ![First] = FileMap]
  /\ args' = [args EXCEPT ![First] = ConfArgs]
  /\ UNCHANGED <<out, queue, mappings, replacer, cancelled, sent, due>>

\* AuxStart3 and AuxStart3Silent: an empty extra_files adds nothing, and the
\* caller's arguments may follow the configured ones.
Call(r) ==
  /\ pc[r] = "idle" /\ r # First
  /\ pc[First] \notin {"idle", "adding"}
  /\ \E files \in Extra, words \in Arguments, append \in BOOLEAN :
       /\ extra' = [extra EXCEPT ![r] = files]
       /\ args' = [args EXCEPT ![r] = IF append THEN ConfArgs \o words ELSE words]
       /\ Goto(r, IF files = Empty THEN "spawned" ELSE "adding")
  /\ UNCHANGED <<out, queue, mappings, replacer, cancelled, sent, due>>

\* Variant: the request is spawned without waiting for the send.
SendAddLater(r) ==
  /\ pc[r] = "adding"
  /\ Goto(r, "spawned")
  /\ UNCHANGED <<extra, args, out, queue, mappings, replacer, cancelled, sent, due>>

\* Replacer::add returns when the command is queued, or fails on a closed channel.
SendAdd(r) ==
  /\ pc[r] = "adding"
  /\ \/ /\ Open
        /\ sent' = Overlay(sent, extra[r])
        /\ queue' = Append(queue, Add(extra[r], sent'))
        /\ Goto(r, "spawned")
     \/ /\ replacer # "running"
        /\ Goto(r, "rejected")
        /\ UNCHANGED <<queue, sent>>
  /\ UNCHANGED <<extra, args, out, mappings, replacer, cancelled, due>>

\* Variant: the command is not sent while the channel is full.
SendRewriteTrying(r) ==
  /\ pc[r] = "spawned" /\ replacer = "running"
  /\ queue' = IF Open THEN Append(queue, Rewrite(r, sent)) ELSE queue
  /\ due' = [due EXCEPT ![r] = Rewritten(sent, args[r])]
  /\ Goto(r, "rewriting")
  /\ UNCHANGED <<extra, args, out, mappings, replacer, cancelled, sent>>

\* Replacer::rewrite sends the command; the task panics on a closed channel.
SendRewrite(r) ==
  /\ pc[r] = "spawned"
  /\ \/ /\ Open
        /\ queue' = Append(queue, Rewrite(r, sent))
        /\ due' = [due EXCEPT ![r] = Rewritten(sent, args[r])]
        /\ Goto(r, "rewriting")
     \/ /\ replacer # "running"
        /\ Goto(r, "failed")
        /\ UNCHANGED <<queue, due>>
  /\ UNCHANGED <<extra, args, out, mappings, replacer, cancelled, sent>>

\* Variant: the oneshot sender outlives the channel.
LoseAnswerNever(r) == FALSE

\* The oneshot sender was dropped with the channel: the task panics.
LoseAnswer(r) ==
  /\ pc[r] = "rewriting" /\ replacer # "running"
  /\ Goto(r, "failed")
  /\ UNCHANGED <<extra, args, out, queue, mappings, replacer, cancelled, sent, due>>

\* The runtime drops the waiting task, which it does only after the token was cancelled.
DropTask(r) ==
  /\ cancelled
  /\ pc[r] \in {"spawned", "rewriting"}
  /\ Goto(r, "dropped")
  /\ UNCHANGED <<extra, args, out, queue, mappings, replacer, cancelled, sent, due>>

-----------------------------------------------------------------------------
(* The task. *)

\* Variant: an entry the map already has is kept.
ServeAddKeeping ==
  /\ replacer = "running" /\ queue # <<>> /\ Head(queue).op = "Add"
  /\ mappings' = Overlay(Head(queue).map, mappings)
  /\ queue' = Tail(queue)
  /\ UNCHANGED <<callers, out, replacer, cancelled, sent, due>>

ServeAdd ==
  /\ replacer = "running" /\ queue # <<>> /\ Head(queue).op = "Add"
  /\ mappings' = Overlay(mappings, Head(queue).map)
  /\ queue' = Tail(queue)
  /\ UNCHANGED <<callers, out, replacer, cancelled, sent, due>>

\* responder.send fails when the receiver was dropped: the token is cancelled and
\* the task panics.
ServeRewrite ==
  /\ replacer = "running" /\ queue # <<>> /\ Head(queue).op = "Rewrite"
  /\ LET r == Head(queue).req IN
       IF pc[r] = "rewriting"
         THEN /\ out' = [out EXCEPT ![r] = Rewritten(mappings, args[r])]
              /\ Goto(r, "answered")
              /\ queue' = Tail(queue)
              /\ UNCHANGED <<replacer, cancelled>>
         ELSE /\ replacer' = "panicked" /\ cancelled' = TRUE
              /\ queue' = <<>>
              /\ UNCHANGED <<pc, out>>
  /\ UNCHANGED <<extra, args, mappings, sent, due>>

\* The select! saw the token: the receiver is dropped with what it still held.
Return ==
  /\ replacer = "running" /\ cancelled
  /\ replacer' = "returned" /\ queue' = <<>>
  /\ UNCHANGED <<callers, out, mappings, cancelled, sent, due>>

\* Any part of Init cancels the token.
Cancel ==
  /\ ~cancelled /\ cancelled' = TRUE
  /\ UNCHANGED <<callers, out, queue, mappings, replacer, sent, due>>

\* Every request has come to an end and the task is gone.
Ended ==
  /\ replacer # "running"
  /\ \A r \in Req : pc[r] \in {"answered", "rejected", "failed", "dropped"}
  /\ UNCHANGED vars

Next ==
  \/ CallFirst
  \/ \E r \in Req : Call(r) \/ SendAdd(r) \/ SendRewrite(r) \/ LoseAnswer(r) \/ DropTask(r)
  \/ ServeAdd \/ ServeRewrite \/ Return \/ Cancel
  \/ Ended

Spec == Init /\ [][Next]_vars

\* Tasks that can make progress are polled; callers and Cancel may never come.
Fairness ==
  /\ WF_vars(ServeAdd) /\ WF_vars(ServeRewrite) /\ WF_vars(Return)
  /\ \A r \in Req : WF_vars(SendAdd(r)) /\ WF_vars(SendRewrite(r)) /\ WF_vars(LoseAnswer(r))

LiveSpec == Spec /\ Fairness

-----------------------------------------------------------------------------
\* An answer is the rewriting of the arguments by all the entries whose Add was
\* sent before the Rewrite, and by no other: although an Add returns before it has
\* any effect, callers see one map that changes at the moment of each send.
AnswersAsSent == \A r \in Req : pc[r] = "answered" => out[r] = due[r]

\* What callers see is what they would see of a map without a queue: AtomicMap.
Seen(where) ==
  CASE where = "adding"    -> "called"
    [] where = "spawned"   -> "ready"
    [] where = "rewriting" -> "asked"
    [] where \in {"idle", "answered"} -> where
    [] where \in {"rejected", "failed", "dropped"} -> "gone"
Stage == [r \in Req |-> Seen(pc[r])]

Atomic == INSTANCE AtomicMap WITH stage <- Stage, map <- sent, decided <- due, closing <- cancelled
AtomicMapKept == Atomic!Spec

\* A request's own files are never left as they were in its arguments: each such
\* word has become what some request that was made mapped it to.
OwnFilesReplaced ==
  \A r \in Req : pc[r] = "answered" =>
    \A i \in DOMAIN args[r] : args[r][i] \in DOMAIN extra[r] =>
      \E q \in Req : args[r][i] \in DOMAIN extra[q] /\ out[r][i] = extra[q][args[r][i]]

\* A task that waits for its answer is not left waiting, also when the replacer
\* returns or panics with the command in its channel.
RewriteReturns == \A r \in Req : pc[r] = "rewriting" ~> pc[r] # "rewriting"
=============================================================================
