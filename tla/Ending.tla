-------------------------------- MODULE Ending --------------------------------
(***************************************************************************)
(* How a session ends on the two D-Bus connections Init has: over its own, *)
(* main asks the daemon to stop and then has a task close the connection   *)
(* (main.rs, ipc.rs); over that of the portal library, the inhibition task *)
(* of a package that asks for it (inhibit.rs) inhibits idling, holds that  *)
(* until the token is cancelled, and lifts it. The runtime drops both      *)
(* tasks when main returns, wherever they are.                             *)
(***************************************************************************)
EXTENDS Sequences

VARIABLES
  inhibit,    \* ConfigOpts.inhibit
  cancelled,  \* the cancellation token
  main,       \* main, from the publication of the D-Bus object on
  stop,       \* what became of the Stop to the daemon
  conn,       \* Init's own connection
  closer,     \* the task running graceful_shutdown
  inhibitor,  \* the task running inhibit_suspend
  wire,       \* what the portal is still to see of its connection
  reply,      \* the portal's reply to the task's call
  inhibited   \* whether the portal inhibits idling for Init

bus == <<stop, conn>>
portal == <<wire, reply, inhibited>>
vars == <<inhibit, cancelled, main, bus, closer, inhibitor, portal>>

Running == main \notin {"gone", "dead"}

TypeOK ==
  /\ inhibit \in BOOLEAN /\ cancelled \in BOOLEAN /\ inhibited \in BOOLEAN
  /\ main \in {"published", "unlistening", "serving", "stopping", "stopped",
              "teardown", "gone", "dead"}
  /\ stop \in {"none", "sent", "failed"} /\ conn \in {"open", "closed"}
  /\ closer \in {"none", "ready", "done", "dropped"}
  /\ inhibitor \in {"none", "connecting", "asking", "holding", "closing", "done", "dropped"}
  /\ wire \in Seq({"Inhibit", "Close", "Disconnected"})
  /\ reply \in {"none", "ok", "error"}

Init ==
  /\ inhibit \in BOOLEAN
  /\ cancelled = FALSE /\ main = "published"
  /\ stop = "none" /\ conn = "open" /\ closer = "none" /\ inhibitor = "none"
  /\ wire = <<>> /\ reply = "none" /\ inhibited = FALSE

-----------------------------------------------------------------------------
(* main. *)

StartInhibition ==
  /\ main = "published" /\ main' = "unlistening"
  /\ inhibitor' = IF inhibit THEN "connecting" ELSE "none"
  /\ UNCHANGED <<inhibit, cancelled, bus, closer, portal>>

Listen ==
  /\ main = "unlistening" /\ main' = "serving"
  /\ UNCHANGED <<inhibit, cancelled, bus, closer, inhibitor, portal>>

\* Another part of Init cancels the token.
Cancel ==
  /\ Running /\ ~cancelled /\ cancelled' = TRUE
  /\ UNCHANGED <<inhibit, main, bus, closer, inhibitor, portal>>

SeeToken ==
  /\ main = "serving" /\ cancelled /\ main' = "stopping"
  /\ UNCHANGED <<inhibit, cancelled, bus, closer, inhibitor, portal>>

\* SIGINT or SIGTERM, once main listens.
SeeSignal ==
  /\ main = "serving" /\ main' = "stopping"
  /\ cancelled' = TRUE
  /\ UNCHANGED <<inhibit, bus, closer, inhibitor, portal>>

\* The end of the process, in order or not, closes its connections.
Vanish(how) ==
  /\ main' = how
  /\ conn' = "closed" /\ wire' = Append(wire, "Disconnected")
  /\ UNCHANGED <<inhibit, cancelled, stop, closer, inhibitor, reply, inhibited>>

\* log_fatal, or a signal before main listens.
Die == Running /\ Vanish("dead")

\* Variant: the connection is closed by the task while main still needs it.
RequestShutdownLast ==
  \/ /\ main = "stopping" /\ main' = "stopped"
     /\ closer' = "ready" /\ UNCHANGED stop
     /\ UNCHANGED <<inhibit, cancelled, conn, inhibitor, portal>>
  \/ /\ main = "stopped" /\ stop = "none" /\ stop' \in {"sent", "failed"}
     /\ UNCHANGED <<inhibit, cancelled, main, conn, closer, inhibitor, portal>>

\* call_noreply returns when the message is written, or fails, which is logged.
RequestShutdown ==
  /\ main = "stopping" /\ main' = "stopped"
  /\ stop' \in {"sent", "failed"}
  /\ UNCHANGED <<inhibit, cancelled, conn, closer, inhibitor, portal>>

\* tokio::spawn(graceful_shutdown()), after which main returns without waiting for it.
Return ==
  /\ main = "stopped" /\ main' = "teardown"
  /\ closer' = "ready"
  /\ UNCHANGED <<inhibit, cancelled, bus, inhibitor, portal>>

GracefulShutdown ==
  /\ Running /\ closer = "ready" /\ closer' = "done"
  /\ conn' = "closed"
  /\ UNCHANGED <<inhibit, cancelled, main, stop, inhibitor, portal>>

DropCloser ==
  /\ main = "teardown" /\ closer = "ready" /\ closer' = "dropped"
  /\ UNCHANGED <<inhibit, cancelled, main, bus, inhibitor, portal>>

DropInhibitor ==
  /\ main = "teardown" /\ inhibitor \in {"connecting", "asking", "holding", "closing"}
  /\ inhibitor' = "dropped"
  /\ UNCHANGED <<inhibit, cancelled, main, bus, closer, portal>>

\* Variant: main waits for the inhibition to be lifted.
ExitJoined ==
  /\ main = "teardown" /\ closer \in {"done", "dropped"} /\ inhibitor \in {"none", "done"}
  /\ Vanish("gone")

Exit ==
  /\ main = "teardown"
  /\ closer \in {"done", "dropped"} /\ inhibitor \in {"none", "done", "dropped"}
  /\ Vanish("gone")

-----------------------------------------------------------------------------
(* The inhibition task. *)

\* The proxy is created and Inhibit called, or the task is over.
Ask ==
  /\ Running /\ inhibitor = "connecting"
  /\ \/ inhibitor' = "asking" /\ wire' = Append(wire, "Inhibit")
     \/ inhibitor' = "done" /\ UNCHANGED wire
  /\ UNCHANGED <<inhibit, cancelled, main, bus, closer, reply, inhibited>>

\* Variant: a refusal is unwrapped.
GetReplyUnwrapping ==
  /\ Running /\ inhibitor = "asking" /\ reply # "none"
  /\ inhibitor' = IF reply = "ok" THEN "holding" ELSE "panicked"
  /\ reply' = "none"
  /\ UNCHANGED <<inhibit, cancelled, main, bus, closer, wire, inhibited>>

GetReply ==
  /\ Running /\ inhibitor = "asking" /\ reply # "none"
  /\ inhibitor' = IF reply = "ok" THEN "holding" ELSE "done"
  /\ reply' = "none"
  /\ UNCHANGED <<inhibit, cancelled, main, bus, closer, wire, inhibited>>

\* Variant: the token is not waited for.
LiftAtOnce ==
  /\ Running /\ inhibitor = "holding" /\ inhibitor' = "closing"
  /\ wire' = Append(wire, "Close")
  /\ UNCHANGED <<inhibit, cancelled, main, bus, closer, reply, inhibited>>

Lift ==
  /\ Running /\ inhibitor = "holding" /\ cancelled /\ inhibitor' = "closing"
  /\ wire' = Append(wire, "Close")
  /\ UNCHANGED <<inhibit, cancelled, main, bus, closer, reply, inhibited>>

\* close() returns; an error is only logged.
Lifted ==
  /\ Running /\ inhibitor = "closing" /\ reply # "none"
  /\ inhibitor' = "done" /\ reply' = "none"
  /\ UNCHANGED <<inhibit, cancelled, main, bus, closer, wire, inhibited>>

-----------------------------------------------------------------------------
\* The portal sees calls in the order they were written, may refuse them, and drops
\* the inhibitions of a connection that is gone.
PortalActs ==
  /\ wire # <<>> /\ wire' = Tail(wire)
  /\ \/ /\ Head(wire) # "Disconnected"
        /\ \/ inhibited' = (Head(wire) = "Inhibit") /\ reply' = "ok"
           \/ reply' = "error" /\ UNCHANGED inhibited
     \/ /\ Head(wire) = "Disconnected"
        /\ inhibited' = FALSE /\ UNCHANGED reply
  /\ UNCHANGED <<inhibit, cancelled, main, bus, closer, inhibitor>>

Ended == ~Running /\ wire = <<>> /\ UNCHANGED vars

Main == StartInhibition \/ Listen \/ SeeToken \/ RequestShutdown \/ Return \/ Exit
Drop == DropCloser \/ DropInhibitor

Next ==
  \/ Main \/ Cancel \/ SeeSignal \/ Die
  \/ GracefulShutdown \/ Drop
  \/ Ask \/ GetReply \/ Lift \/ Lifted
  \/ PortalActs
  \/ Ended

Spec == Init /\ [][Next]_vars

\* main runs and the runtime drops its tasks. The portal may keep Init waiting; what
\* it is assumed to do is to notice that Init is gone.
PortalSeesEnd == main \in {"gone", "dead"} /\ PortalActs
LiveSpec == Spec /\ WF_vars(Main) /\ WF_vars(Drop) /\ WF_vars(PortalSeesEnd)

-----------------------------------------------------------------------------
\* The task that closes the connection does not overtake the Stop on it.
StopPrecedesClose == [][stop' # stop => conn = "open"]_vars

\* An inhibition the portal granted lasts until the token is cancelled or Init dies:
\* neither the task's end nor a dropped handle lifts it before.
HeldUntilToken == [][inhibited /\ ~inhibited' => cancelled \/ ~Running]_vars

\* After the cancellation idling is not inhibited for good, although the task may be
\* dropped before it lifts the inhibition, or before it has even been granted.
InhibitionLifted == cancelled ~> []~inhibited
=============================================================================
