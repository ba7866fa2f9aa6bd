----------------------------- MODULE UnotifyProofs -----------------------------
(***************************************************************************)
(* Proofs about the system call filter and the thread that answers for it: *)
(* what the filter decides about a call in every configuration, and that   *)
(* the notifications of any number of callers change nothing about it.     *)
(***************************************************************************)
EXTENDS Unotify, TLAPS

-----------------------------------------------------------------------------
(* The filter. *)

LEMMA Groups ==
  /\ AllowedGroup \cap DeniedGroup = {} /\ AllowedGroup \cap DebugGroup = {}
  /\ DeniedGroup \cap DebugGroup = {} /\ DebugGroup \cap LockdownGroup = {}
  /\ AllowedGroup \cap LockdownGroup = {} /\ DeniedGroup \cap LockdownGroup = {}
  /\ "65535" \notin Group
BY DEF AllowedGroup, DeniedGroup, DebugGroup, LockdownGroup, Group

LEMMA NumberHasNoGroup == GroupOf("65535") \notin DeniedGroup \cup DebugGroup \cup LockdownGroup
BY DEF GroupOf, DeniedGroup, DebugGroup, LockdownGroup

\* The rules, call by call.
LEMMA RulesOf ==
  ASSUME NEW cf \in Config, NEW nm
  PROVE  LET list == SyscallList(nm) IN
         \A c, a : <<c, a>> \in Compiled(cf, list).rules <=>
           \/ cf.whitelist /\ a = "Allow"
              /\ (c \in list.allow \/ (cf.debugging /\ c \in list.debug))
           \/ ~cf.whitelist /\ a = "Notify"
              /\ (c \in list.deny \/ (~cf.debugging /\ c \in list.debug))
<1> DEFINE list == SyscallList(nm)
<1>1. cf.whitelist \in BOOLEAN /\ cf.debugging \in BOOLEAN
  BY DEF Config
<1>2. CASE cf.whitelist /\ cf.debugging
  BY <1>2 DEF Compiled, DebugRules
<1>3. CASE cf.whitelist /\ ~cf.debugging
  BY <1>3 DEF Compiled, DebugRules
<1>4. CASE ~cf.whitelist /\ cf.debugging
  BY <1>4 DEF Compiled, DebugRules
<1>5. CASE ~cf.whitelist /\ ~cf.debugging
  BY <1>5 DEF Compiled, DebugRules
<1> QED BY <1>1, <1>2, <1>3, <1>4, <1>5

\* A call's lists, where libseccomp has a name for it.
LEMMA ListsOf ==
  ASSUME NEW nm, NEW c, c \in nm \/ c = "65535"
  PROVE  LET list == SyscallList(nm) IN
         /\ c \in list.allow <=> c = "65535" \/ GroupOf(c) \in AllowedGroup
         /\ c \in list.deny <=> c \in nm /\ GroupOf(c) \in DeniedGroup
         /\ c \in list.debug <=> c \in nm /\ GroupOf(c) \in DebugGroup
BY DEF SyscallList, Resolved, GroupOf, AllowedGroup

\* A call libseccomp has no name for is in no rule.
LEMMA UnnamedByDefault ==
  ASSUME NEW cf \in Config, NEW nm, NEW c, c \notin nm, c # "65535"
  PROVE  LET action == ActionOn(Compiled(cf, SyscallList(nm)), c, TRUE) IN
         action = IF cf.whitelist THEN "Notify" ELSE "Allow"
<1> DEFINE list == SyscallList(nm)
           filter == Compiled(cf, list)
<1>1. filter.default = IF cf.whitelist THEN "Notify" ELSE "Allow"
  BY DEF Compiled
<1>2. c \notin list.allow /\ c \notin list.deny /\ c \notin list.debug
  BY DEF SyscallList, Resolved
<1>3. \A a : <<c, a>> \notin filter.rules
  BY <1>2, RulesOf
<1> HIDE DEF filter
<1>4. ActionOn(filter, c, TRUE) = filter.default
  BY <1>3 DEF ActionOn
<1> QED BY <1>1, <1>4 DEF filter

\* The filter lets a call of Init's architecture that libseccomp can name through at
\* once exactly when the lists permit it, and has it notified otherwise.
THEOREM FilterDecides ==
  ASSUME NEW cf \in Config, NEW nm, NEW c \in Call, c \in nm \/ c = "65535"
  PROVE  LET action == ActionOn(Compiled(cf, SyscallList(nm)), c, TRUE) IN
         action = IF Permitted(cf, c) THEN "Allow" ELSE "Notify"
<1> DEFINE list == SyscallList(nm)
           filter == Compiled(cf, list)
<1>1. filter.default = IF cf.whitelist THEN "Notify" ELSE "Allow"
  BY DEF Compiled
<1>2. /\ <<c, "Allow">> \in filter.rules <=>
           cf.whitelist /\ (c \in list.allow \/ (cf.debugging /\ c \in list.debug))
      /\ <<c, "Notify">> \in filter.rules <=>
           ~cf.whitelist /\ (c \in list.deny \/ (~cf.debugging /\ c \in list.debug))
  BY RulesOf
<1>3. /\ c \in list.allow <=> c = "65535" \/ GroupOf(c) \in AllowedGroup
      /\ c \in list.deny <=> c \in nm /\ GroupOf(c) \in DeniedGroup
      /\ c \in list.debug <=> c \in nm /\ GroupOf(c) \in DebugGroup
  BY ListsOf
<1> HIDE DEF list, filter
<1>4. ActionOn(filter, c, TRUE) =
        IF <<c, "Allow">> \in filter.rules THEN "Allow"
        ELSE IF <<c, "Notify">> \in filter.rules THEN "Notify" ELSE filter.default
  <2>1. ~(<<c, "Allow">> \in filter.rules /\ <<c, "Notify">> \in filter.rules)
    BY <1>2
  <2>2. CASE <<c, "Allow">> \in filter.rules
    BY <2>1, <2>2 DEF ActionOn
  <2>3. CASE <<c, "Notify">> \in filter.rules
    BY <2>1, <2>3 DEF ActionOn
  <2>4. CASE <<c, "Allow">> \notin filter.rules /\ <<c, "Notify">> \notin filter.rules
    BY <2>4 DEF ActionOn
  <2> QED BY <2>1, <2>2, <2>3, <2>4
<1>5. ActionOn(filter, c, TRUE) = IF Permitted(cf, c) THEN "Allow" ELSE "Notify"
  BY <1>1, <1>2, <1>3, <1>4, Groups, NumberHasNoGroup DEF Permitted
<1> QED BY <1>5 DEF filter, list

-----------------------------------------------------------------------------
(* The calls. What is waited for and what is listed go together: a list    *)
(* entry is a caller whose notification was not received, listed once.     *)

QueueOfWaiting ==
  /\ \A i \in 1 .. Len(queue) : wait[queue[i]] = "queued"
  /\ \A i, j \in 1 .. Len(queue) : queue[i] = queue[j] => i = j

HasRequest == thread \in {"received", "answering"} => request \in Caller

\* No thread of Init is suspended: its calls are permitted and have names.
InitGoesOn == InitCall \subseteq named /\ \A t \in InitThread : wait[t] = "none"

IInv ==
  TypeOK /\ QueueOfWaiting /\ HasRequest /\ RefusedNeverRuns /\ PermittedIsDirect /\ InitGoesOn

LEMMA InitHolds == Init => IInv
<1> SUFFICES ASSUME Init PROVE IInv
  OBVIOUS
<1>1. (CHOOSE c \in Made : TRUE) \in Made
  BY MadeAssumption
<1>2. queue \in Seq(Caller) /\ Len(queue) = 0
  BY DEF Init
<1>3. TypeOK
  BY <1>1, <1>2 DEF Init, TypeOK
<1>4. QueueOfWaiting /\ HasRequest
  BY <1>2 DEF Init, QueueOfWaiting, HasRequest
<1>5. RefusedNeverRuns /\ PermittedIsDirect
  BY DEF Init, RefusedNeverRuns, PermittedIsDirect
<1>6. InitGoesOn
  <2>1. InitCall \subseteq Call /\ InitThread \subseteq Caller /\ "65535" \notin InitCall
    BY MadeAssumption, InitAssumption DEF GroupOf, AllowedGroup
  <2> QED BY <2>1 DEF Init, InitGoesOn
<1> QED BY <1>3, <1>4, <1>5, <1>6 DEF IInv

\* Taking a caller off the list leaves the entries of the others.
LEMMA WithoutOne ==
  ASSUME NEW q \in Seq(Caller), NEW t \in Caller,
         \A i, j \in 1 .. Len(q) : q[i] = q[j] => i = j
  PROVE  /\ Without(q, t) \in Seq(Caller)
         /\ \A i \in 1 .. Len(Without(q, t)) :
              Without(q, t)[i] # t /\ \E k \in 1 .. Len(q) : Without(q, t)[i] = q[k]
         /\ \A i, j \in 1 .. Len(Without(q, t)) : Without(q, t)[i] = Without(q, t)[j] => i = j
<1>1. CASE \A i \in DOMAIN q : q[i] # t
  BY <1>1 DEF Without
<1>2. CASE \E i \in DOMAIN q : q[i] = t
  <2> DEFINE at == CHOOSE i \in DOMAIN q : q[i] = t
             rest == [i \in 1 .. Len(q) - 1 |-> IF i < at THEN q[i] ELSE q[i + 1]]
  <2>1. at \in 1 .. Len(q) /\ q[at] = t /\ Len(q) \in Nat \ {0}
    BY <1>2
  <2>2. Without(q, t) = rest
    BY <1>2 DEF Without
  <2> HIDE DEF at
  <2>3. \A i \in 1 .. Len(q) - 1 : i \in 1 .. Len(q) /\ i + 1 \in 1 .. Len(q)
    BY <2>1
  <2>4. \A i \in 1 .. Len(q) - 1 : rest[i] \in Caller
    BY <2>3
  <2>5. rest \in Seq(Caller) /\ Len(rest) = Len(q) - 1
    BY <2>1, <2>4
  <2>6. \A i \in 1 .. Len(q) - 1 : rest[i] # t /\ \E k \in 1 .. Len(q) : rest[i] = q[k]
    BY <2>1, <2>3
  <2>7. ASSUME NEW i \in 1 .. Len(q) - 1, NEW j \in 1 .. Len(q) - 1, rest[i] = rest[j] PROVE i = j
    BY <2>1, <2>3, <2>7
  <2> HIDE DEF rest
  <2> QED BY <2>2, <2>5, <2>6, <2>7
<1> QED BY <1>1, <1>2

\* What the thread and the token do between reception and answer.
LEMMA CallsUntouched ==
  ASSUME IInv, UNCHANGED <<config, calls, kernel>>, TypeOK', HasRequest' PROVE IInv'
BY DEF IInv, config, calls, kernel, QueueOfWaiting, RefusedNeverRuns, PermittedIsDirect, Known,
       InitGoesOn

LEMMA StepHolds == IInv /\ [Next]_vars => IInv'
<1> SUFFICES ASSUME IInv, [Next]_vars PROVE IInv'
  OBVIOUS
<1>1. /\ conf \in Config /\ named \subseteq Call /\ Made \subseteq Call
      /\ call \in [Caller -> Made] /\ native \in [Caller -> BOOLEAN]
      /\ DOMAIN result = Caller /\ DOMAIN wait = Caller
      /\ queue \in Seq(Caller) /\ Len(queue) \in Nat
  BY MadeAssumption DEF IInv, TypeOK
<1> USE DEF config, calls, kernel, Ends
<1>2. ASSUME NEW t \in Caller, MakeCall(t) PROVE IInv'
  <2>1. PICK c \in Made, own \in BOOLEAN :
          /\ t \in InitThread => c \in InitCall /\ own
          /\ call' = [call EXCEPT ![t] = c] /\ native' = [native EXCEPT ![t] = own]
          /\ LET action == ActionOn(Filter, c, own) IN
               \/ /\ action = "Notify" /\ thread # "gone"
                  /\ result' = [result EXCEPT ![t] = "none"]
                  /\ wait' = [wait EXCEPT ![t] = "queued"] /\ queue' = Append(queue, t)
               \/ /\ ~(action = "Notify" /\ thread # "gone")
                  /\ result' = [result EXCEPT ![t] = CASE action = "Allow"      -> "ran"
                                                       [] action = "KillThread" -> "killed"
                                                       [] action = "Notify"     -> "enosys"]
                  /\ UNCHANGED <<wait, queue>>
    BY <1>2 DEF MakeCall
  <2>2. wait[t] = "none" /\ UNCHANGED <<config, thread, request, cancelled>>
    BY <1>2 DEF MakeCall
  <2> DEFINE action == ActionOn(Filter, c, own)
  <2>3. action \in {"Allow", "Notify", "KillThread"} /\ (own => action # "KillThread")
    BY DEF ActionOn, Filter, Compiled
  <2>4. own /\ (c \in named \/ c = "65535") => action = IF Permitted(conf, c) THEN "Allow" ELSE "Notify"
    BY <1>1, FilterDecides DEF Filter
  <2>11. own /\ ~(c \in named \/ c = "65535") => action = IF conf.whitelist THEN "Notify" ELSE "Allow"
    BY <1>1, UnnamedByDefault DEF Filter
  <2>12. ~own => action = IF conf.whitelist THEN "KillThread" ELSE "Allow"
    BY DEF ActionOn, Filter, Compiled
  <2> HIDE DEF action
  <2>5. /\ \A u \in Caller \ {t} : /\ call'[u] = call[u] /\ native'[u] = native[u]
                                   /\ result'[u] = result[u] /\ wait'[u] = wait[u]
        /\ call'[t] = c /\ native'[t] = own
        /\ \/ action = "Notify" /\ result'[t] = "none" /\ wait'[t] = "queued"
           \/ action = "Notify" /\ result'[t] = "enosys" /\ wait'[t] = "none" /\ thread = "gone"
           \/ action = "Allow" /\ result'[t] = "ran" /\ wait'[t] = "none"
           \/ action = "KillThread" /\ result'[t] = "killed" /\ wait'[t] = "none"
    BY <1>1, <2>1, <2>2, <2>3 DEF action
  <2>6. RefusedNeverRuns' /\ PermittedIsDirect'
    BY <2>2, <2>4, <2>5, <2>11, <2>12 DEF IInv, RefusedNeverRuns, PermittedIsDirect, Known
  <2>7. TypeOK'
    <3>1. queue' \in Seq(Caller)
      <4>1. queue' = Append(queue, t) \/ queue' = queue
        BY <2>1
      <4> QED BY <1>1, <4>1
    <3>2. /\ result' \in [Caller -> {"none", "ran", "enosys", "faked", "killed", "interrupted"}]
          /\ wait' \in [Caller -> {"none", "queued", "taken"}]
      BY <2>1, <2>3 DEF IInv, TypeOK, action
    <3> QED BY <2>1, <2>2, <3>1, <3>2 DEF IInv, TypeOK
  <2>8. QueueOfWaiting'
    <3>1. CASE wait' = [wait EXCEPT ![t] = "queued"] /\ queue' = Append(queue, t)
      <4>1. /\ Len(queue') = Len(queue) + 1 /\ queue'[Len(queue) + 1] = t
            /\ \A i \in 1 .. Len(queue) : queue'[i] = queue[i] /\ queue[i] # t /\ queue[i] \in Caller
        BY <1>1, <2>2, <3>1 DEF IInv, QueueOfWaiting
      <4> QED BY <1>1, <2>5, <3>1, <4>1 DEF IInv, QueueOfWaiting
    <3>2. CASE UNCHANGED <<wait, queue>>
      BY <3>2 DEF IInv, QueueOfWaiting
    <3> QED BY <2>1, <3>1, <3>2
  <2>9. HasRequest'
    BY <2>2 DEF IInv, HasRequest
  <2>10. InitGoesOn'
    <3>1. CASE t \in InitThread
      <4>1. c \in named /\ own /\ GroupOf(c) \in AllowedGroup
        BY <2>1, <3>1, InitAssumption DEF IInv, InitGoesOn
      <4>2. Permitted(conf, c)
        BY <4>1, Groups DEF Permitted
      <4>3. action = "Allow"
        BY <2>4, <4>1, <4>2
      <4> QED BY <2>2, <2>5, <4>3, InitAssumption DEF IInv, InitGoesOn
    <3>2. CASE t \notin InitThread
      BY <2>2, <2>5, <3>2, InitAssumption DEF IInv, InitGoesOn
    <3> QED BY <3>1, <3>2
  <2> QED BY <2>6, <2>7, <2>8, <2>9, <2>10 DEF IInv
<1>3. ASSUME NEW t \in Caller, Interrupt(t) PROVE IInv'
  <2>1. /\ wait[t] # "none" /\ result' = [result EXCEPT ![t] = "interrupted"]
        /\ wait' = [wait EXCEPT ![t] = "none"] /\ queue' = Without(queue, t)
        /\ UNCHANGED <<config, call, native, thread, request, cancelled>>
    BY <1>3 DEF Interrupt
  <2>2. /\ queue' \in Seq(Caller)
        /\ \A i \in 1 .. Len(queue') :
             queue'[i] # t /\ \E k \in 1 .. Len(queue) : queue'[i] = queue[k]
        /\ \A i, j \in 1 .. Len(queue') : queue'[i] = queue'[j] => i = j
    <3> DEFINE rest == Without(queue, t)
    <3>1. \A i, j \in 1 .. Len(queue) : queue[i] = queue[j] => i = j
      BY DEF IInv, QueueOfWaiting
    <3>2. /\ rest \in Seq(Caller)
          /\ \A i \in 1 .. Len(rest) :
               rest[i] # t /\ \E k \in 1 .. Len(queue) : rest[i] = queue[k]
          /\ \A i, j \in 1 .. Len(rest) : rest[i] = rest[j] => i = j
      BY <1>1, <3>1, WithoutOne
    <3>3. queue' = rest
      BY <2>1
    <3> QED BY <3>2, <3>3
  <2>3. TypeOK'
    BY <2>1, <2>2 DEF IInv, TypeOK
  <2>4. \A k \in 1 .. Len(queue) : queue[k] \in Caller /\ wait[queue[k]] = "queued"
    BY <1>1 DEF IInv, QueueOfWaiting
  <2>5. QueueOfWaiting'
    BY <1>1, <2>1, <2>2, <2>4 DEF QueueOfWaiting
  <2>6. RefusedNeverRuns' /\ PermittedIsDirect' /\ HasRequest' /\ InitGoesOn'
    BY <1>1, <2>1 DEF IInv, RefusedNeverRuns, PermittedIsDirect, HasRequest, Known, InitGoesOn
  <2> QED BY <2>3, <2>5, <2>6 DEF IInv
<1>4. CASE Receive
  <2>1. /\ queue # <<>> /\ thread' = "received" /\ request' = Head(queue)
        /\ wait' = [wait EXCEPT ![Head(queue)] = "taken"] /\ queue' = Tail(queue)
        /\ UNCHANGED <<config, calls, cancelled>>
    BY <1>4 DEF Receive
  <2>2. /\ Head(queue) \in Caller /\ Head(queue) = queue[1] /\ Len(queue) \in Nat \ {0}
        /\ queue' \in Seq(Caller) /\ Len(queue') = Len(queue) - 1
        /\ \A i \in 1 .. Len(queue) - 1 : queue'[i] = queue[i + 1] /\ queue[i + 1] \in Caller
    BY <1>1, <2>1
  <2>3. TypeOK'
    BY <2>1, <2>2 DEF IInv, TypeOK
  <2>4. QueueOfWaiting'
    BY <1>1, <2>1, <2>2 DEF IInv, QueueOfWaiting
  <2>5. wait[Head(queue)] = "queued"
    BY <2>2 DEF IInv, QueueOfWaiting
  <2>6. RefusedNeverRuns' /\ PermittedIsDirect' /\ HasRequest' /\ InitGoesOn'
    BY <1>1, <2>1, <2>2, <2>5 DEF IInv, RefusedNeverRuns, PermittedIsDirect, HasRequest, Known, InitGoesOn
  <2> QED BY <2>3, <2>4, <2>6 DEF IInv
<1>5. CASE Answer
  <2>1. /\ thread = "answering" /\ thread' = "receiving" /\ request' = Nobody
        /\ UNCHANGED <<config, call, native, queue, cancelled>>
    BY <1>5 DEF Answer
  <2>2. request \in Caller
    BY <2>1 DEF IInv, HasRequest
  <2>3. CASE wait[request] = "taken"
    <3>1. /\ result' = [result EXCEPT ![request] = Response(call[request])]
          /\ wait' = [wait EXCEPT ![request] = "none"]
      BY <1>5, <2>3 DEF Answer
    <3>2. /\ Response(call[request]) \in {"ran", "faked", "enosys"}
          /\ Response(call[request]) = "ran" => call[request] \notin named
      BY DEF Response
    <3>3. TypeOK'
      BY <2>1, <3>1, <3>2 DEF IInv, TypeOK
    <3>4. /\ native[request]
          /\ ~(Permitted(conf, call[request]) /\ (Known(request) \/ ~conf.whitelist))
      BY <1>1, <2>2, <2>3 DEF IInv, PermittedIsDirect
    <3>5. Permitted(conf, "65535")
      BY NumberHasNoGroup DEF Permitted
    <3>6. RefusedNeverRuns' /\ PermittedIsDirect'
      BY <1>1, <2>1, <2>2, <3>1, <3>2, <3>4, <3>5 DEF IInv, RefusedNeverRuns, PermittedIsDirect, Known
    <3>7. QueueOfWaiting'
      BY <1>1, <2>1, <2>3, <3>1 DEF IInv, QueueOfWaiting
    <3>8. InitGoesOn'
      BY <1>1, <2>1, <2>2, <3>1, InitAssumption DEF IInv, InitGoesOn
    <3> QED BY <2>1, <3>3, <3>6, <3>7, <3>8 DEF IInv, HasRequest
  <2>4. CASE wait[request] # "taken"
    <3>1. UNCHANGED <<result, wait>>
      BY <1>5, <2>4 DEF Answer
    <3> QED BY <2>1, <3>1, CallsUntouched DEF IInv, TypeOK, HasRequest
  <2> QED BY <2>3, <2>4
<1>6. CASE ThreadStarts \/ CheckToken \/ ReceiveFails \/ Cancel \/ UNCHANGED vars
  <2>1. UNCHANGED <<config, calls, kernel, request>> /\ cancelled' \in BOOLEAN
    BY <1>6 DEF ThreadStarts, CheckToken, ReceiveFails, Cancel, vars, IInv, TypeOK
  <2>2. \/ thread' = thread
        \/ thread' \in {"receiving", "failed", "returned"}
        \/ thread' = "answering" /\ thread = "received"
    BY <1>6 DEF ThreadStarts, CheckToken, ReceiveFails, Cancel, vars
  <2>3. TypeOK' /\ HasRequest'
    BY <2>1, <2>2 DEF IInv, TypeOK, HasRequest
  <2> QED BY <2>1, <2>3, CallsUntouched
<1>7. CASE InitEnds
  <2>1. /\ thread' = "gone" /\ request' = Nobody /\ queue' = <<>>
        /\ result' = [t \in Caller |-> IF wait[t] = "none" THEN result[t] ELSE "enosys"]
        /\ wait' = [t \in Caller |-> "none"] /\ UNCHANGED <<config, call, native, cancelled>>
    BY <1>7 DEF InitEnds
  <2>2. queue' \in Seq(Caller) /\ Len(queue') = 0
    BY <2>1
  <2>3. TypeOK'
    BY <2>1, <2>2 DEF IInv, TypeOK
  <2>4. QueueOfWaiting' /\ HasRequest'
    BY <2>1, <2>2 DEF QueueOfWaiting, HasRequest
  <2>5. RefusedNeverRuns' /\ PermittedIsDirect' /\ InitGoesOn'
    BY <1>1, <2>1, InitAssumption DEF IInv, RefusedNeverRuns, PermittedIsDirect, Known, InitGoesOn
  <2> QED BY <2>3, <2>4, <2>5 DEF IInv
<1> QED BY <1>2, <1>3, <1>4, <1>5, <1>6, <1>7 DEF Next, Thread, Ended

-----------------------------------------------------------------------------
(* Who waits can still be answered: the notification is on the list, or it *)
(* is the one the thread deals with; after Init's end nobody waits.        *)

NoneForgotten ==
  /\ \A t \in Caller : wait[t] = "queued" => \E i \in 1 .. Len(queue) : queue[i] = t
  /\ \A t \in Caller : wait[t] = "taken" =>
       request = t /\ thread \in {"received", "answering", "returned"}
  /\ thread = "gone" => \A t \in Caller : wait[t] = "none"

\* Nor does taking one caller off the list lose another's entry.
LEMMA WithoutKeeps ==
  ASSUME NEW q \in Seq(Caller), NEW t \in Caller,
         \A i, j \in 1 .. Len(q) : q[i] = q[j] => i = j,
         NEW k \in 1 .. Len(q), q[k] # t
  PROVE  \E i \in 1 .. Len(Without(q, t)) : Without(q, t)[i] = q[k]
<1>1. CASE \A i \in DOMAIN q : q[i] # t
  BY <1>1 DEF Without
<1>2. CASE \E i \in DOMAIN q : q[i] = t
  <2> DEFINE at == CHOOSE i \in DOMAIN q : q[i] = t
             rest == [i \in 1 .. Len(q) - 1 |-> IF i < at THEN q[i] ELSE q[i + 1]]
  <2>1. at \in 1 .. Len(q) /\ q[at] = t /\ Len(q) \in Nat \ {0}
    BY <1>2
  <2>2. Without(q, t) = rest
    BY <1>2 DEF Without
  <2> HIDE DEF at
  <2>3. \A i \in 1 .. Len(q) - 1 : rest[i] \in Caller
    BY <2>1
  <2>4. Len(rest) = Len(q) - 1
    BY <2>1, <2>3
  <2>5. CASE k < at
    <3>1. k \in 1 .. Len(q) - 1 /\ rest[k] = q[k]
      BY <2>1, <2>5
    <3> QED BY <2>2, <2>4, <3>1
  <2>6. CASE k > at
    <3>1. k - 1 \in 1 .. Len(q) - 1 /\ rest[k - 1] = q[k]
      BY <2>1, <2>6
    <3> QED BY <2>2, <2>4, <3>1
  <2>7. k # at
    BY <2>1
  <2> QED BY <2>1, <2>5, <2>6, <2>7
<1> QED BY <1>1, <1>2

LEMMA ForgottenInit == Init => NoneForgotten
BY DEF Init, NoneForgotten

LEMMA ForgottenStep == IInv /\ NoneForgotten /\ [Next]_vars => NoneForgotten'
<1> SUFFICES ASSUME IInv, NoneForgotten, [Next]_vars PROVE NoneForgotten'
  OBVIOUS
<1>1. /\ DOMAIN wait = Caller /\ wait \in [Caller -> {"none", "queued", "taken"}]
      /\ queue \in Seq(Caller) /\ Len(queue) \in Nat
      /\ \A i \in 1 .. Len(queue) : queue[i] \in Caller
  BY DEF IInv, TypeOK
<1> USE DEF config, calls, kernel
<1>2. ASSUME NEW t \in Caller, MakeCall(t) PROVE NoneForgotten'
  <2>1. /\ wait[t] = "none" /\ UNCHANGED <<thread, request>>
        /\ \/ /\ thread # "gone" /\ wait' = [wait EXCEPT ![t] = "queued"]
              /\ queue' = Append(queue, t)
           \/ UNCHANGED <<wait, queue>>
    BY <1>2 DEF MakeCall
  <2>2. CASE /\ thread # "gone" /\ wait' = [wait EXCEPT ![t] = "queued"]
             /\ queue' = Append(queue, t)
    <3>1. /\ Len(queue') = Len(queue) + 1 /\ queue'[Len(queue) + 1] = t
          /\ \A i \in 1 .. Len(queue) : queue'[i] = queue[i]
      BY <1>1, <2>2
    <3>2. \A u \in Caller : wait'[u] = "queued" => \E i \in 1 .. Len(queue') : queue'[i] = u
      BY <1>1, <2>2, <3>1 DEF NoneForgotten
    <3> QED BY <1>1, <2>1, <2>2, <3>2 DEF NoneForgotten
  <2>3. CASE UNCHANGED <<wait, queue>>
    BY <2>1, <2>3 DEF NoneForgotten
  <2> QED BY <2>1, <2>2, <2>3
<1>3. ASSUME NEW t \in Caller, Interrupt(t) PROVE NoneForgotten'
  <2>1. /\ wait' = [wait EXCEPT ![t] = "none"] /\ queue' = Without(queue, t)
        /\ UNCHANGED <<thread, request>>
    BY <1>3 DEF Interrupt
  <2>2. ASSUME NEW u \in Caller, wait'[u] = "queued"
        PROVE  \E i \in 1 .. Len(queue') : queue'[i] = u
    <3>1. u # t /\ wait[u] = "queued"
      BY <1>1, <2>1, <2>2
    <3>2. PICK k \in 1 .. Len(queue) : queue[k] = u
      BY <3>1 DEF NoneForgotten
    <3> QED BY <1>1, <2>1, <3>1, <3>2, WithoutKeeps DEF IInv, QueueOfWaiting
  <2> QED BY <1>1, <2>1, <2>2 DEF NoneForgotten
<1>4. CASE Receive
  <2>1. /\ thread = "receiving" /\ queue # <<>> /\ thread' = "received" /\ request' = Head(queue)
        /\ wait' = [wait EXCEPT ![Head(queue)] = "taken"] /\ queue' = Tail(queue)
    BY <1>4 DEF Receive
  <2>2. /\ Head(queue) \in Caller /\ Head(queue) = queue[1] /\ Len(queue) \in Nat \ {0}
        /\ Len(queue') = Len(queue) - 1
        /\ \A i \in 1 .. Len(queue) - 1 : queue'[i] = queue[i + 1]
    BY <1>1, <2>1
  <2>3. ASSUME NEW u \in Caller, wait'[u] = "queued"
        PROVE  \E i \in 1 .. Len(queue') : queue'[i] = u
    <3>1. u # queue[1] /\ wait[u] = "queued"
      BY <1>1, <2>1, <2>2, <2>3
    <3>2. PICK k \in 1 .. Len(queue) : queue[k] = u
      BY <3>1 DEF NoneForgotten
    <3>3. k - 1 \in 1 .. Len(queue) - 1 /\ queue'[k - 1] = u
      BY <2>2, <3>1, <3>2
    <3> QED BY <2>2, <3>3
  <2>4. \A u \in Caller : wait'[u] = "taken" => u = request'
    BY <1>1, <2>1, <2>2 DEF NoneForgotten
  <2> QED BY <2>1, <2>3, <2>4 DEF NoneForgotten
<1>5. CASE Answer
  <2>1. /\ thread = "answering" /\ thread' = "receiving" /\ queue' = queue
    BY <1>5 DEF Answer
  <2>2. wait' = IF wait[request] = "taken" THEN [wait EXCEPT ![request] = "none"] ELSE wait
    BY <1>5 DEF Answer
  <2>3. request \in Caller
    BY <2>1 DEF IInv, HasRequest
  <2>4. \A u \in Caller : wait'[u] # "taken"
    BY <1>1, <2>2, <2>3 DEF NoneForgotten
  <2>5. \A u \in Caller : wait'[u] = "queued" => wait[u] = "queued"
    BY <1>1, <2>2, <2>3
  <2> QED BY <2>1, <2>4, <2>5 DEF NoneForgotten
<1>6. CASE ThreadStarts \/ CheckToken \/ ReceiveFails \/ Cancel \/ UNCHANGED vars
  <2>1. UNCHANGED <<wait, queue, request>>
    BY <1>6 DEF ThreadStarts, CheckToken, ReceiveFails, Cancel, vars
  <2>2. \/ thread' = thread
        \/ thread \in {"starting", "receiving", "failed"} /\ thread' # "gone"
        \/ thread = "received" /\ thread' \in {"answering", "returned"}
    BY <1>6 DEF ThreadStarts, CheckToken, ReceiveFails, Cancel, vars
  <2> QED BY <2>1, <2>2 DEF NoneForgotten
<1>7. CASE InitEnds
  BY <1>7 DEF InitEnds, NoneForgotten
<1> QED BY <1>2, <1>3, <1>4, <1>5, <1>6, <1>7 DEF Next, Thread, Ended

-----------------------------------------------------------------------------
\* Every variable keeps its type.
THEOREM TypeCorrect == Spec => []TypeOK
<1>1. IInv => TypeOK
  BY DEF IInv
<1> QED BY <1>1, InitHolds, StepHolds, PTL DEF Spec

\* No call of Init's architecture that the lists refuse and libseccomp can name is ever
\* run, in any configuration, and no call of a foreign one with a whitelist
\* (RefusedNeverRuns).
THEOREM RefusedCallsNeverRun == Spec => []RefusedNeverRuns
<1>1. IInv => RefusedNeverRuns
  BY DEF IInv
<1> QED BY <1>1, InitHolds, StepHolds, PTL DEF Spec

\* No call of Init's architecture that the lists permit is refused or waits for Init, if
\* libseccomp can name it or there is no whitelist; a call of a foreign architecture
\* never waits (PermittedIsDirect).
THEOREM PermittedCallsAreDirect == Spec => []PermittedIsDirect
<1>1. IInv => PermittedIsDirect
  BY DEF IInv
<1> QED BY <1>1, InitHolds, StepHolds, PTL DEF Spec

\* A notification is never lost between kernel and thread: a suspended caller is on the
\* list, or is the one the thread deals with, also when others were interrupted around
\* it, and Init's end leaves nobody waiting. Only the thread's steps, then, are missing
\* for NotifiedReturns.
THEOREM NotificationsAreKept == Spec => []NoneForgotten
<1>1. Init => IInv /\ NoneForgotten
  BY InitHolds, ForgottenInit
<1>2. IInv /\ NoneForgotten /\ [Next]_vars => (IInv /\ NoneForgotten)'
  BY StepHolds, ForgottenStep
<1> QED BY <1>1, <1>2, PTL DEF Spec

\* No thread of Init ever waits for an answer of its own notification thread, so nothing
\* but the scheduling of its end is missing for EndsDespiteFilter. It rests on the lists
\* (what Init calls is permitted) and on libseccomp (it has names for those calls).
THEOREM InitIsNeverSuspended == Spec => []InitGoesOn
<1>1. IInv => InitGoesOn
  BY DEF IInv
<1> QED BY <1>1, InitHolds, StepHolds, PTL DEF Spec
=============================================================================
