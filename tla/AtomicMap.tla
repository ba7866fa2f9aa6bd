------------------------------ MODULE AtomicMap ------------------------------
(***************************************************************************)
(* What the replacer promises its callers, without a channel or a task of  *)
(* its own: one map, which takes in a request's files in a single step and *)
(* by which a request's arguments are rewritten in the step it asks in.    *)
(* The answer may be long in coming, but is given once, and nobody goes    *)
(* without unless Init is ending.                                          *)
(***************************************************************************)
CONSTANT Req

VARIABLES
  stage,      \* how far each request has come
  extra,      \* the files it brings
  args,       \* the arguments it is to be started with
  map,        \* the paths outside the sandbox and what they are inside
  decided,    \* the rewriting of a request that has asked
  out,        \* the answer it was given
  closing     \* whether Init is ending

vars == <<stage, extra, args, map, decided, out, closing>>

Init ==
  /\ stage = [r \in Req |-> "idle"]
  /\ extra = [r \in Req |-> [x \in {} |-> x]]
  /\ args = [r \in Req |-> <<>>] /\ decided = [r \in Req |-> <<>>] /\ out = [r \in Req |-> <<>>]
  /\ map = [x \in {} |-> x]
  /\ closing = FALSE

Advance(r, from, to) == stage[r] = from /\ stage' = [stage EXCEPT ![r] = to]

\* A request comes with any files and arguments; one without files may skip their addition.
Call(r) ==
  /\ Advance(r, "idle", "called") \/ (Advance(r, "idle", "ready") /\ DOMAIN extra'[r] = {})
  /\ extra' = [extra EXCEPT ![r] = extra'[r]]
  /\ args' = [args EXCEPT ![r] = args'[r]]
  /\ UNCHANGED <<map, decided, out, closing>>

\* All the request's files at once, in place of those that were there.
Add(r) ==
  /\ Advance(r, "called", "ready")
  /\ map' = [x \in DOMAIN map \cup DOMAIN extra[r] |-> IF x \in DOMAIN extra[r] THEN extra[r][x] ELSE map[x]]
  /\ UNCHANGED <<extra, args, decided, out, closing>>

Inside(x) == IF x \in DOMAIN map THEN map[x] ELSE x

Ask(r) ==
  /\ Advance(r, "ready", "asked")
  /\ decided' = [decided EXCEPT ![r] = [i \in DOMAIN args[r] |-> Inside(args[r][i])]]
  /\ UNCHANGED <<extra, args, map, out, closing>>

Answer(r) ==
  /\ Advance(r, "asked", "answered")
  /\ out' = [out EXCEPT ![r] = decided[r]]
  /\ UNCHANGED <<extra, args, map, decided, closing>>

GiveUp(r) ==
  /\ closing
  /\ \E from \in {"called", "ready", "asked"} : Advance(r, from, "gone")
  /\ UNCHANGED <<extra, args, map, decided, out, closing>>

Close ==
  /\ ~closing /\ closing' = TRUE
  /\ UNCHANGED <<stage, extra, args, map, decided, out>>

Next ==
  \/ \E r \in Req : Call(r) \/ Add(r) \/ Ask(r) \/ Answer(r) \/ GiveUp(r)
  \/ Close

Spec == Init /\ [][Next]_vars
=============================================================================
