-------------------------------- MODULE Unotify --------------------------------
(***************************************************************************)
(* System calls of sandboxed programs under the filter, and the thread of  *)
(* Init that answers the notified ones (seccomp/unotify.rs). The kernel    *)
(* suspends a notified caller until the answer arrives, the caller is      *)
(* interrupted, or the descriptor is closed, which Init never does before  *)
(* it ends. The filter is loaded for all threads of Init, so their own     *)
(* calls pass it too.                                                      *)
(***************************************************************************)
EXTENDS SyscallFilter, Naturals, Sequences

CONSTANTS
  Caller,     \* threads under the filter
  InitThread, \* those of Init; the others are of sandboxed programs
  Made,       \* the system calls they make
  InitCall,   \* those Init makes: files, sockets, polling, processes
  Nobody

ASSUME MadeAssumption == Made \subseteq Call /\ Made # {} /\ Nobody \notin Caller

ASSUME InitAssumption ==
  /\ InitThread \subseteq Caller /\ InitCall \subseteq Made
  /\ \A c \in InitCall : GroupOf(c) \in AllowedGroup

VARIABLES
  conf,       \* ConfigOpts.seccomp_whitelist and .debugging
  named,      \* the calls the installed libseccomp has names for
  call,       \* the last call of each caller (any, before the first), and whether its
              \* architecture is Init's
  native,
  result,     \* how it ended
  wait,       \* whether it waits: for the thread to receive, or to answer
  queue,      \* the notifications to be received
  thread,     \* how far the thread has come
  request,    \* the notification it deals with
  cancelled   \* the cancellation token

config == <<conf, named>>
calls == <<call, native, result>>
kernel == <<wait, queue>>
vars == <<config, calls, kernel, thread, request, cancelled>>

TypeOK ==
  /\ conf \in Config /\ named \subseteq Call
  /\ call \in [Caller -> Made] /\ native \in [Caller -> BOOLEAN]
  /\ result \in [Caller -> {"none", "ran", "enosys", "faked", "killed", "interrupted"}]
  /\ wait \in [Caller -> {"none", "queued", "taken"}]
  /\ queue \in Seq(Caller)
  /\ thread \in {"starting", "receiving", "received", "failed", "answering", "returned", "gone"}
  /\ request \in Caller \cup {Nobody}
  /\ cancelled \in BOOLEAN

\* libseccomp knows every call of the lists, or is too old for one of them that Init
\* does without.
Init ==
  /\ conf \in Config
  /\ named \in {Call \ {"65535"}} \cup {Call \ {"65535", c} : c \in Made \ InitCall}
  /\ call = [t \in Caller |-> CHOOSE c \in Made : TRUE] /\ native = [t \in Caller |-> TRUE]
  /\ result = [t \in Caller |-> "none"]
  /\ wait = [t \in Caller |-> "none"] /\ queue = <<>>
  /\ thread = "starting" /\ request = Nobody
  /\ cancelled = FALSE

Filter == Compiled(conf, SyscallList(named))

-----------------------------------------------------------------------------
(* Callers and kernel. *)

Ends(t, how) == result' = [result EXCEPT ![t] = how]

\* A call the filter notifies waits; without a descriptor to read it from it fails.
MakeCall(t) ==
  /\ wait[t] = "none" /\ result[t] # "killed"
  /\ t \in InitThread => thread # "gone"
  /\ \E c \in Made, own \in BOOLEAN :
       /\ t \in InitThread => c \in InitCall /\ own
       /\ call' = [call EXCEPT ![t] = c] /\ native' = [native EXCEPT ![t] = own]
       /\ LET action == ActionOn(Filter, c, own) IN
            IF action = "Notify" /\ thread # "gone"
              THEN /\ Ends(t, "none")
                   /\ wait' = [wait EXCEPT ![t] = "queued"]
                   /\ queue' = Append(queue, t)
              ELSE /\ Ends(t, CASE action = "Allow"      -> "ran"
                                [] action = "KillThread" -> "killed"
                                [] action = "Notify"     -> "enosys")
                   /\ UNCHANGED kernel
  /\ UNCHANGED <<config, thread, request, cancelled>>

\* The notifications but the one of caller t, which may be on the list or not.
Without(q, t) ==
  IF \A i \in DOMAIN q : q[i] # t THEN q
  ELSE LET at == CHOOSE i \in DOMAIN q : q[i] = t
       IN [i \in 1 .. Len(q) - 1 |-> IF i < at THEN q[i] ELSE q[i + 1]]

\* A signal ends a waiting call; its notification, received or not, is void.
Interrupt(t) ==
  /\ wait[t] # "none"
  /\ Ends(t, "interrupted")
  /\ wait' = [wait EXCEPT ![t] = "none"]
  /\ queue' = Without(queue, t)
  /\ UNCHANGED <<config, call, native, thread, request, cancelled>>

-----------------------------------------------------------------------------
(* The thread. *)

ThreadStarts ==
  /\ thread = "starting" /\ thread' = "receiving"
  /\ UNCHANGED <<config, calls, kernel, request, cancelled>>

\* ScmpNotifReq::receive takes the oldest notification.
Receive ==
  /\ thread = "receiving" /\ queue # <<>>
  /\ thread' = "received" /\ request' = Head(queue)
  /\ wait' = [wait EXCEPT ![Head(queue)] = "taken"]
  /\ queue' = Tail(queue)
  /\ UNCHANGED <<config, calls, cancelled>>

\* It fails when a signal arrives, or when the caller is gone in between.
ReceiveFails ==
  /\ thread = "receiving" /\ thread' = "failed"
  /\ UNCHANGED <<config, calls, kernel, request, cancelled>>

\* Variant: the result is unwrapped.
CheckTokenUnwrapping ==
  /\ thread \in {"received", "failed"}
  /\ thread' = CASE cancelled -> "returned" [] thread = "failed" -> "panicked" [] OTHER -> "answering"
  /\ UNCHANGED <<config, calls, kernel, request, cancelled>>

\* The token is looked at between the reception and the answer. The thread returns
\* without an answer when it is cancelled, and after a failure.
CheckToken ==
  /\ thread \in {"received", "failed"}
  /\ thread' = IF cancelled \/ thread = "failed" THEN "returned" ELSE "answering"
  /\ UNCHANGED <<config, calls, kernel, request, cancelled>>

\* Variant: a call without a name is left alone.
AnswerNamed ==
  /\ thread = "answering" /\ thread' = "receiving" /\ request' = Nobody
  /\ IF wait[request] = "taken" /\ call[request] \in named
       THEN /\ Ends(request, IF call[request] \in {"chroot", "setfsuid"} THEN "faked" ELSE "enosys")
            /\ wait' = [wait EXCEPT ![request] = "none"]
       ELSE UNCHANGED <<result, wait>>
  /\ UNCHANGED <<config, call, native, queue, cancelled>>

\* A call without a name runs after all, two are said to have succeeded, all others
\* get ENOSYS.
Response(c) ==
  CASE c \notin named              -> "ran"
    [] c \in {"chroot", "setfsuid"} -> "faked"
    [] OTHER                       -> "enosys"

\* respond fails, and is logged, when the notification is void.
Answer ==
  /\ thread = "answering" /\ thread' = "receiving" /\ request' = Nobody
  /\ IF wait[request] = "taken"
       THEN /\ Ends(request, Response(call[request]))
            /\ wait' = [wait EXCEPT ![request] = "none"]
       ELSE UNCHANGED <<result, wait>>
  /\ UNCHANGED <<config, call, native, queue, cancelled>>

Cancel ==
  /\ ~cancelled /\ cancelled' = TRUE
  /\ UNCHANGED <<config, calls, kernel, thread, request>>

\* Init ends, wherever the thread is, unless one of its threads is suspended, and with
\* it the descriptor: who waits gets ENOSYS.
InitEnds ==
  /\ thread # "gone" /\ cancelled
  /\ \A t \in InitThread : wait[t] = "none"
  /\ thread' = "gone" /\ request' = Nobody
  /\ result' = [t \in Caller |-> IF wait[t] = "none" THEN result[t] ELSE "enosys"]
  /\ wait' = [t \in Caller |-> "none"] /\ queue' = <<>>
  /\ UNCHANGED <<config, call, native, cancelled>>

-----------------------------------------------------------------------------
Thread == ThreadStarts \/ Receive \/ CheckToken \/ Answer

\* A thread that was killed for its call and an Init that has ended leave nothing to do.
Ended == thread = "gone" /\ UNCHANGED vars

Next ==
  \/ \E t \in Caller : MakeCall(t) \/ Interrupt(t)
  \/ Thread \/ ReceiveFails \/ Cancel \/ InitEnds
  \/ Ended

Spec == Init /\ [][Next]_vars

\* The thread runs, and Init ends after the cancellation (ProcessTracker!CancelEnds),
\* as long as the kernel lets its threads go on.
LiveSpec == Spec /\ WF_vars(Thread) /\ WF_vars(InitEnds)

-----------------------------------------------------------------------------
\* libseccomp has a name for the call, or it is listed by its number.
Known(t) == call[t] \in named \cup {"65535"}

\* The kernel and the thread let a call run only if the lists permit it, with two
\* exceptions that the code makes: without a whitelist the filter leaves the calls of a
\* foreign architecture alone (with it they never run), and a call libseccomp has no
\* name for is in no list and, when it is notified, told to go on. For all others
\* neither the default action, nor the rules of two lists together, nor the thread's
\* answers leave a gap, in any configuration.
RefusedNeverRuns ==
  \A t \in Caller : result[t] = "ran" =>
    IF native[t] THEN Permitted(conf, call[t]) \/ ~Known(t) ELSE ~conf.whitelist

\* A permitted call is neither refused nor made to wait for Init, so a slow or dead
\* thread slows no program that keeps to what it may do. Again with two exceptions: with
\* a whitelist a call without a name waits for the thread, and a call of a foreign
\* architecture kills its caller. No foreign call ever waits.
PermittedIsDirect ==
  \A t \in Caller :
    /\ native[t] /\ Permitted(conf, call[t]) /\ (Known(t) \/ ~conf.whitelist) =>
         wait[t] = "none" /\ result[t] \in {"none", "ran"}
    /\ ~native[t] =>
         wait[t] = "none" /\ result[t] = IF conf.whitelist THEN "killed" ELSE "ran"

\* A notified call returns, unless the thread has returned: also one that was made
\* before the thread ran, or behind others that were interrupted.
NotifiedReturns == \A t \in Caller : wait[t] # "none" ~> (wait[t] = "none" \/ thread = "returned")

\* The cancellation ends Init, and releases who waits, although the thread notices the
\* token only with the next notification, drops that one, and serves none after it: no
\* call of Init's own is ever among the notified ones, whatever the configuration and
\* whatever names libseccomp lacks beside.
EndsDespiteFilter == cancelled ~> thread = "gone"
=============================================================================
