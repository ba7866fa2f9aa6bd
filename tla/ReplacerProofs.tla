---------------------------- MODULE ReplacerProofs ----------------------------
(***************************************************************************)
(* Proofs about Replacer: types, and that answers are those of one map     *)
(* which changes when an Add is sent.                                      *)
(***************************************************************************)
EXTENDS Replacer, TLAPS

States == {"idle", "adding", "spawned", "rewriting", "answered", "rejected", "failed", "dropped"}

LEMMA EmptyType == Empty \in PathMap /\ DOMAIN Empty = {}
<1>1. Empty \in [{} -> Path]
  BY DEF Empty
<1> QED BY <1>1 DEF PathMap, Empty

LEMMA OverlayType ==
  ASSUME NEW m \in PathMap, NEW n \in PathMap
  PROVE  /\ Overlay(m, n) \in PathMap
         /\ DOMAIN Overlay(m, n) = DOMAIN m \cup DOMAIN n
         /\ \A x \in DOMAIN n : Overlay(m, n)[x] = n[x]
         /\ \A x \in DOMAIN m \ DOMAIN n : Overlay(m, n)[x] = m[x]
<1>1. PICK S \in SUBSET Path : m \in [S -> Path]
  BY DEF PathMap
<1>2. PICK R \in SUBSET Path : n \in [R -> Path]
  BY DEF PathMap
<1>3. Overlay(m, n) \in [S \cup R -> Path]
  BY <1>1, <1>2 DEF Overlay
<1>4. S \cup R \in SUBSET Path
  OBVIOUS
<1>5. Overlay(m, n) \in PathMap
  BY <1>3, <1>4 DEF PathMap
<1> QED BY <1>1, <1>2, <1>3, <1>5 DEF Overlay

LEMMA RewrittenType ==
  ASSUME NEW m \in PathMap, NEW words \in Seq(Path)
  PROVE  /\ Rewritten(m, words) \in Seq(Path)
         /\ DOMAIN Rewritten(m, words) = DOMAIN words
<1>1. PICK S \in SUBSET Path : m \in [S -> Path]
  BY DEF PathMap
<1>2. \A i \in 1 .. Len(words) :
        (IF words[i] \in DOMAIN m THEN m[words[i]] ELSE words[i]) \in Path
  BY <1>1
<1>3. Rewritten(m, words) \in [1 .. Len(words) -> Path]
  BY <1>2 DEF Rewritten
<1>4. Len(words) \in Nat
  OBVIOUS
<1> QED BY <1>3, <1>4 DEF Rewritten

LEMMA CommandType ==
  /\ \A m \in PathMap, v \in PathMap : Add(m, v) \in Command
  /\ \A r \in Req, v \in PathMap : Rewrite(r, v) \in Command
  /\ \A c \in Command : /\ c.op \in {"Add", "Rewrite"} /\ c.view \in PathMap
                        /\ c.op = "Add" => c.map \in PathMap
                        /\ c.op = "Rewrite" => c.req \in Req
BY DEF Add, Rewrite, Command

-----------------------------------------------------------------------------
LEMMA InitTypes == Init => TypeOK
<1> SUFFICES ASSUME Init PROVE TypeOK
  OBVIOUS
<1>1. queue \in Seq(Command) /\ Len(queue) <= Cap
  BY CapAssumption DEF Init
<1>2. extra \in [Req -> PathMap] /\ mappings \in PathMap /\ sent \in PathMap
  BY EmptyType DEF Init
<1>3. args \in [Req -> Seq(Path)] /\ out \in [Req -> Seq(Path)] /\ due \in [Req -> Seq(Path)]
  <2>1. <<>> \in Seq(Path)
    OBVIOUS
  <2> QED BY <2>1 DEF Init
<1>4. pc \in [Req -> {"idle", "adding", "spawned", "rewriting",
                      "answered", "rejected", "failed", "dropped"}]
  BY DEF Init
<1> QED BY <1>1, <1>2, <1>3, <1>4 DEF Init, TypeOK

LEMMA StepTypes == TypeOK /\ [Next]_vars => TypeOK'
<1> SUFFICES ASSUME TypeOK, [Next]_vars PROVE TypeOK'
  OBVIOUS
<1> USE DEF TypeOK, Goto, callers
<1>1. CASE CallFirst
  <2>1. First \in Req /\ FileMap \in PathMap /\ ConfArgs \in Seq(Path)
    BY InputAssumption
  <2> QED BY <1>1, <2>1 DEF CallFirst
<1>2. ASSUME NEW r \in Req, Call(r) PROVE TypeOK'
  <2>1. PICK files \in Extra, words \in Arguments, append \in BOOLEAN :
          /\ extra' = [extra EXCEPT ![r] = files]
          /\ args' = [args EXCEPT ![r] = IF append THEN ConfArgs \o words ELSE words]
          /\ pc' = [pc EXCEPT ![r] = IF files = Empty THEN "spawned" ELSE "adding"]
    BY <1>2 DEF Call
  <2>2. files \in PathMap /\ words \in Seq(Path) /\ ConfArgs \in Seq(Path)
    BY InputAssumption
  <2>3. (IF append THEN ConfArgs \o words ELSE words) \in Seq(Path)
    BY <2>2
  <2>4. extra' \in [Req -> PathMap] /\ args' \in [Req -> Seq(Path)]
    BY <2>1, <2>2, <2>3
  <2> QED BY <1>2, <2>1, <2>4 DEF Call
<1>3. ASSUME NEW r \in Req, SendAdd(r) PROVE TypeOK'
  <2>1. CASE Open /\ sent' = Overlay(sent, extra[r]) /\ queue' = Append(queue, Add(extra[r], sent'))
             /\ Goto(r, "spawned")
    <3>1. extra[r] \in PathMap /\ sent' \in PathMap
      BY <2>1, OverlayType
    <3>2. Add(extra[r], sent') \in Command
      BY <3>1, CommandType
    <3>3. queue' \in Seq(Command) /\ Len(queue') <= Cap
      BY <2>1, <3>2, CapAssumption DEF Open
    <3> QED BY <1>3, <2>1, <3>1, <3>3 DEF SendAdd
  <2>2. CASE replacer # "running" /\ Goto(r, "rejected") /\ UNCHANGED <<queue, sent>>
    BY <1>3, <2>2 DEF SendAdd
  <2> QED BY <1>3, <2>1, <2>2 DEF SendAdd
<1>4. ASSUME NEW r \in Req, SendRewrite(r) PROVE TypeOK'
  <2>1. CASE Open /\ queue' = Append(queue, Rewrite(r, sent))
             /\ due' = [due EXCEPT ![r] = Rewritten(sent, args[r])] /\ Goto(r, "rewriting")
    <3>1. Rewrite(r, sent) \in Command
      BY CommandType
    <3>2. queue' \in Seq(Command) /\ Len(queue') <= Cap
      BY <2>1, <3>1, CapAssumption DEF Open
    <3>3. due' \in [Req -> Seq(Path)]
      BY <2>1, RewrittenType
    <3> QED BY <1>4, <2>1, <3>2, <3>3 DEF SendRewrite
  <2>2. CASE replacer # "running" /\ Goto(r, "failed") /\ UNCHANGED <<queue, due>>
    BY <1>4, <2>2 DEF SendRewrite
  <2> QED BY <1>4, <2>1, <2>2 DEF SendRewrite
<1>5. ASSUME NEW r \in Req, LoseAnswer(r) \/ DropTask(r) PROVE TypeOK'
  BY <1>5 DEF LoseAnswer, DropTask
<1>6. CASE ServeAdd
  <2>1. Head(queue) \in Command /\ Tail(queue) \in Seq(Command) /\ Len(Tail(queue)) <= Cap
    BY <1>6, CapAssumption DEF ServeAdd
  <2>2. mappings' \in PathMap
    BY <1>6, <2>1, CommandType, OverlayType DEF ServeAdd
  <2> QED BY <1>6, <2>1, <2>2 DEF ServeAdd
<1>7. CASE ServeRewrite
  <2> DEFINE r == Head(queue).req
  <2>1. Head(queue) \in Command /\ Tail(queue) \in Seq(Command) /\ Len(Tail(queue)) <= Cap
    BY <1>7, CapAssumption DEF ServeRewrite
  <2>2. r \in Req
    BY <1>7, <2>1, CommandType DEF ServeRewrite
  <2>3. Rewritten(mappings, args[r]) \in Seq(Path)
    BY <2>2, RewrittenType
  <2>4. CASE pc[r] = "rewriting"
    BY <1>7, <2>1, <2>2, <2>3, <2>4 DEF ServeRewrite
  <2>5. CASE pc[r] # "rewriting"
    <3>1. queue' = <<>> /\ replacer' = "panicked" /\ cancelled' = TRUE /\ UNCHANGED <<pc, out>>
      BY <1>7, <2>5 DEF ServeRewrite
    <3> QED BY <1>7, <3>1, CapAssumption DEF ServeRewrite
  <2> QED BY <2>4, <2>5
<1>8. CASE Return
  BY <1>8, CapAssumption DEF Return
<1>9. CASE Cancel
  BY <1>9 DEF Cancel
<1>10. CASE UNCHANGED vars
  BY <1>10 DEF vars
<1> QED BY <1>1, <1>2, <1>3, <1>4, <1>5, <1>6, <1>7, <1>8, <1>9, <1>10 DEF Next, Ended

\* Every variable keeps its type and the channel its capacity.
THEOREM TypeCorrect == Spec => []TypeOK
BY InitTypes, StepTypes, PTL DEF Spec

-----------------------------------------------------------------------------
(* The strengthening. A command remembers the map with every Add up to it   *)
(* (`view`), so the map a Rewrite will be served from is known when it is   *)
(* sent.                                                                    *)

\* The map the task will have when it comes to the i-th command of the channel.
Before(i) == IF i = 1 THEN mappings ELSE queue[i - 1].view

ViewsFollow ==
  \A i \in 1 .. Len(queue) :
    queue[i].view = IF queue[i].op = "Add" THEN Overlay(Before(i), queue[i].map) ELSE Before(i)

SentIsLast == replacer = "running" => sent = Before(Len(queue) + 1)

ClosedIsEmpty == replacer # "running" => queue = <<>>

\* A request whose Rewrite is in the channel can no longer change its arguments,
\* and its due answer is the one by the view of that command.
DueInQueue ==
  \A i \in 1 .. Len(queue) : queue[i].op = "Rewrite" =>
    /\ pc[queue[i].req] \notin {"idle", "adding", "spawned"}
    /\ due[queue[i].req] = Rewritten(queue[i].view, args[queue[i].req])

IInv == TypeOK /\ ViewsFollow /\ SentIsLast /\ ClosedIsEmpty /\ DueInQueue /\ AnswersAsSent

LEMMA AppendAt ==
  ASSUME NEW S, NEW s \in Seq(S), NEW e \in S
  PROVE  /\ Append(s, e) \in Seq(S) /\ Len(Append(s, e)) = Len(s) + 1
         /\ \A i \in 1 .. Len(s) : Append(s, e)[i] = s[i]
         /\ Append(s, e)[Len(s) + 1] = e
OBVIOUS

LEMMA TailAt ==
  ASSUME NEW S, NEW s \in Seq(S), s # <<>>
  PROVE  /\ Tail(s) \in Seq(S) /\ Len(Tail(s)) = Len(s) - 1 /\ Len(s) \in Nat \ {0}
         /\ Head(s) = s[1] /\ Head(s) \in S
         /\ \A i \in 1 .. Len(s) - 1 : Tail(s)[i] = s[i + 1]
OBVIOUS

\* What is common to the two kinds of command: a command whose view follows from
\* the map sent so far keeps the views in order.
LEMMA AppendFollows ==
  ASSUME TypeOK, ViewsFollow, SentIsLast, replacer = "running", UNCHANGED <<mappings, replacer>>,
         NEW c \in Command, queue' = Append(queue, c), sent' = c.view,
         c.view = IF c.op = "Add" THEN Overlay(sent, c.map) ELSE sent
  PROVE  ViewsFollow' /\ SentIsLast'
<1>1. queue \in Seq(Command) /\ Len(queue) \in Nat
  BY DEF TypeOK
<1>2. /\ Len(queue') = Len(queue) + 1
      /\ \A i \in 1 .. Len(queue) : queue'[i] = queue[i]
      /\ queue'[Len(queue) + 1] = c
  BY <1>1, AppendAt
<1>3. \A i \in 1 .. Len(queue) + 1 : Before(i)' = Before(i)
  BY <1>1, <1>2 DEF Before
<1>4. Before(Len(queue) + 1) = sent
  BY DEF SentIsLast
<1>5. ViewsFollow'
  <2> SUFFICES ASSUME NEW i \in 1 .. Len(queue) + 1
               PROVE  queue'[i].view = IF queue'[i].op = "Add"
                                         THEN Overlay(Before(i)', queue'[i].map) ELSE Before(i)'
    BY <1>2 DEF ViewsFollow
  <2>1. CASE i \in 1 .. Len(queue)
    BY <2>1, <1>2, <1>3 DEF ViewsFollow
  <2>2. CASE i = Len(queue) + 1
    BY <2>2, <1>2, <1>3, <1>4
  <2> QED BY <2>1, <2>2, <1>1
<1>6. Before(Len(queue) + 1)' = c.view
  BY <1>1, <1>2 DEF Before
<1> QED BY <1>5, <1>6 DEF SentIsLast

\* Serving the first command leaves the task with the map that command remembers.
LEMMA ServeFollows ==
  ASSUME TypeOK, ViewsFollow, SentIsLast, queue # <<>>, queue' = Tail(queue),
         mappings' = Head(queue).view, UNCHANGED <<replacer, sent>>
  PROVE  ViewsFollow' /\ SentIsLast'
<1>1. queue \in Seq(Command)
  BY DEF TypeOK
<1>2. /\ Len(queue') = Len(queue) - 1 /\ Len(queue) \in Nat \ {0}
      /\ Head(queue) = queue[1]
      /\ \A i \in 1 .. Len(queue) - 1 : queue'[i] = queue[i + 1]
  BY <1>1, TailAt
<1>3. \A i \in 1 .. Len(queue) : Before(i)' = Before(i + 1)
  BY <1>2 DEF Before
<1>4. ViewsFollow'
  <2> SUFFICES ASSUME NEW i \in 1 .. Len(queue) - 1
               PROVE  queue'[i].view = IF queue'[i].op = "Add"
                                         THEN Overlay(Before(i)', queue'[i].map) ELSE Before(i)'
    BY <1>2 DEF ViewsFollow
  <2>1. i + 1 \in 1 .. Len(queue) /\ i \in 1 .. Len(queue)
    BY <1>2
  <2> QED BY <2>1, <1>2, <1>3 DEF ViewsFollow
<1>5. Before(Len(queue) + 1)' = Before(Len(queue) + 1)
  BY <1>2 DEF Before
<1> QED BY <1>4, <1>5 DEF SentIsLast

LEMMA InitFollows == Init => IInv
<1> SUFFICES ASSUME Init PROVE IInv
  OBVIOUS
<1>1. TypeOK
  BY InitTypes
<1>2. queue = <<>> /\ Len(queue) = 0
  BY DEF Init
<1>3. ViewsFollow /\ DueInQueue
  BY <1>2 DEF ViewsFollow, DueInQueue
<1>4. SentIsLast
  BY <1>2 DEF Init, SentIsLast, Before
<1>5. ClosedIsEmpty /\ AnswersAsSent
  BY DEF Init, ClosedIsEmpty, AnswersAsSent
<1> QED BY <1>1, <1>3, <1>4, <1>5 DEF IInv

LEMMA QueueUntouched ==
  ASSUME IInv, UNCHANGED <<queue, mappings, sent, replacer>>
  PROVE  ViewsFollow' /\ SentIsLast' /\ ClosedIsEmpty'
<1>1. \A i : Before(i)' = Before(i)
  BY DEF Before
<1>2. Before(Len(queue) + 1)' = Before(Len(queue) + 1)
  BY DEF Before
<1> QED BY <1>1, <1>2 DEF IInv, ViewsFollow, SentIsLast, ClosedIsEmpty

LEMMA StepFollows == IInv /\ [Next]_vars => IInv'
<1> SUFFICES ASSUME IInv, [Next]_vars PROVE IInv'
  OBVIOUS
<1>1. TypeOK /\ TypeOK'
  BY StepTypes DEF IInv
<1>2. /\ queue \in Seq(Command) /\ Len(queue) \in Nat
      /\ \A i \in 1 .. Len(queue) : queue[i] \in Command
  BY <1>1 DEF TypeOK
<1>3. \A i \in 1 .. Len(queue) : queue[i].op = "Rewrite" => queue[i].req \in Req
  BY <1>2, CommandType
<1>4. pc \in [Req -> States] /\ DOMAIN out = Req /\ DOMAIN due = Req /\ DOMAIN args = Req
  BY <1>1 DEF TypeOK, States
<1> USE DEF callers, Goto
<1>5. CASE CallFirst
  <2>1. First \in Req /\ pc[First] = "idle"
    BY <1>5, InputAssumption DEF CallFirst
  <2>2. ViewsFollow' /\ SentIsLast' /\ ClosedIsEmpty'
    BY <1>5, QueueUntouched DEF CallFirst
  <2>3. DueInQueue'
    BY <1>3, <1>4, <1>5, <2>1 DEF CallFirst, IInv, DueInQueue
  <2>4. AnswersAsSent'
    BY <1>4, <1>5, <2>1 DEF CallFirst, IInv, AnswersAsSent
  <2> QED BY <1>1, <2>2, <2>3, <2>4 DEF IInv
<1>6. ASSUME NEW r \in Req, Call(r) PROVE IInv'
  <2>1. PICK new : args' = [args EXCEPT ![r] = new]
    BY <1>6 DEF Call
  <2>2. PICK where \in {"spawned", "adding"} : pc' = [pc EXCEPT ![r] = where]
    BY <1>6 DEF Call
  <2>3. pc[r] = "idle" /\ UNCHANGED <<out, queue, mappings, replacer, cancelled, sent, due>>
    BY <1>6 DEF Call
  <2>4. ViewsFollow' /\ SentIsLast' /\ ClosedIsEmpty'
    BY <2>3, QueueUntouched
  <2>5. DueInQueue'
    BY <1>3, <1>4, <2>1, <2>2, <2>3 DEF IInv, DueInQueue
  <2>6. AnswersAsSent'
    BY <1>4, <2>2, <2>3 DEF IInv, AnswersAsSent
  <2> QED BY <1>1, <2>4, <2>5, <2>6 DEF IInv
<1>7. ASSUME NEW r \in Req, SendAdd(r) PROVE IInv'
  <2>1. pc[r] = "adding" /\ UNCHANGED <<extra, args, out, mappings, replacer, cancelled, due>>
    BY <1>7 DEF SendAdd
  <2>2. pc' = [pc EXCEPT ![r] = "spawned"] \/ pc' = [pc EXCEPT ![r] = "rejected"]
    BY <1>7 DEF SendAdd
  <2>3. AnswersAsSent'
    BY <1>4, <2>1, <2>2 DEF IInv, AnswersAsSent
  <2>4. CASE Open /\ sent' = Overlay(sent, extra[r])
             /\ queue' = Append(queue, Add(extra[r], sent'))
    <3> DEFINE c == Add(extra[r], sent')
    <3>1. extra[r] \in PathMap /\ sent' \in PathMap
      BY <1>1 DEF TypeOK
    <3>2. c \in Command /\ c.op = "Add" /\ c.map = extra[r] /\ c.view = sent'
      BY <3>1, CommandType DEF Add
    <3>3. ViewsFollow' /\ SentIsLast'
      BY <1>1, <2>1, <2>4, <3>2, AppendFollows DEF IInv, Open
    <3>4. ClosedIsEmpty'
      BY <2>1, <2>4 DEF Open, ClosedIsEmpty
    <3>5. /\ Len(queue') = Len(queue) + 1
          /\ \A i \in 1 .. Len(queue) : queue'[i] = queue[i]
          /\ queue'[Len(queue) + 1].op = "Add"
      BY <1>2, <2>4, <3>2, AppendAt
    <3>6. DueInQueue'
      BY <1>2, <1>3, <1>4, <2>1, <2>2, <3>5 DEF IInv, DueInQueue
    <3> QED BY <1>1, <2>3, <3>3, <3>4, <3>6 DEF IInv
  <2>5. CASE replacer # "running" /\ UNCHANGED <<queue, sent>>
             /\ pc' = [pc EXCEPT ![r] = "rejected"]
    <3>1. ViewsFollow' /\ SentIsLast' /\ ClosedIsEmpty'
      BY <2>1, <2>5, QueueUntouched
    <3>2. DueInQueue'
      BY <1>3, <1>4, <2>1, <2>5 DEF IInv, DueInQueue
    <3> QED BY <1>1, <2>3, <3>1, <3>2 DEF IInv
  <2> QED BY <1>7, <2>4, <2>5 DEF SendAdd
<1>8. ASSUME NEW r \in Req, SendRewrite(r) PROVE IInv'
  <2>1. pc[r] = "spawned" /\ UNCHANGED <<extra, args, out, mappings, replacer, cancelled, sent>>
    BY <1>8 DEF SendRewrite
  <2>2. CASE /\ Open /\ queue' = Append(queue, Rewrite(r, sent))
             /\ due' = [due EXCEPT ![r] = Rewritten(sent, args[r])]
             /\ pc' = [pc EXCEPT ![r] = "rewriting"]
    <3> DEFINE c == Rewrite(r, sent)
    <3>1. c \in Command /\ c.op = "Rewrite" /\ c.req = r /\ c.view = sent
      BY <1>1, CommandType DEF Rewrite, TypeOK
    <3>2. ViewsFollow' /\ SentIsLast'
      BY <1>1, <2>1, <2>2, <3>1, AppendFollows DEF IInv, Open
    <3>3. ClosedIsEmpty'
      BY <2>1, <2>2 DEF Open, ClosedIsEmpty
    <3>4. /\ Len(queue') = Len(queue) + 1
          /\ \A i \in 1 .. Len(queue) : queue'[i] = queue[i]
          /\ queue'[Len(queue) + 1] = c
      BY <1>2, <2>2, <3>1, AppendAt
    <3>5. DueInQueue'
      <4> SUFFICES ASSUME NEW i \in 1 .. Len(queue) + 1, queue'[i].op = "Rewrite"
                   PROVE  /\ pc'[queue'[i].req] \notin {"idle", "adding", "spawned"}
                          /\ due'[queue'[i].req] = Rewritten(queue'[i].view, args'[queue'[i].req])
        BY <3>4 DEF DueInQueue
      <4>1. CASE i \in 1 .. Len(queue)
        <5>1. queue'[i] = queue[i] /\ queue[i].req # r
          BY <2>1, <3>4, <4>1 DEF IInv, DueInQueue
        <5> QED BY <1>3, <1>4, <2>1, <2>2, <4>1, <5>1 DEF IInv, DueInQueue
      <4>2. CASE i = Len(queue) + 1
        BY <1>4, <2>1, <2>2, <3>1, <3>4, <4>2
      <4> QED BY <1>2, <4>1, <4>2
    <3>6. AnswersAsSent'
      BY <1>4, <2>1, <2>2 DEF IInv, AnswersAsSent
    <3> QED BY <1>1, <3>2, <3>3, <3>5, <3>6 DEF IInv
  <2>3. CASE replacer # "running" /\ UNCHANGED <<queue, due>> /\ pc' = [pc EXCEPT ![r] = "failed"]
    <3>1. ViewsFollow' /\ SentIsLast' /\ ClosedIsEmpty'
      BY <2>1, <2>3, QueueUntouched
    <3>2. DueInQueue'
      BY <1>3, <1>4, <2>1, <2>3 DEF IInv, DueInQueue
    <3>3. AnswersAsSent'
      BY <1>4, <2>1, <2>3 DEF IInv, AnswersAsSent
    <3> QED BY <1>1, <3>1, <3>2, <3>3 DEF IInv
  <2> QED BY <1>8, <2>2, <2>3 DEF SendRewrite
<1>9. ASSUME NEW r \in Req, LoseAnswer(r) \/ DropTask(r) PROVE IInv'
  <2>1. PICK where \in {"failed", "dropped"} : pc' = [pc EXCEPT ![r] = where]
    BY <1>9 DEF LoseAnswer, DropTask
  <2>2. UNCHANGED <<extra, args, out, queue, mappings, replacer, cancelled, sent, due>>
    BY <1>9 DEF LoseAnswer, DropTask
  <2>3. ViewsFollow' /\ SentIsLast' /\ ClosedIsEmpty'
    BY <2>2, QueueUntouched
  <2>4. DueInQueue'
    BY <1>3, <1>4, <2>1, <2>2 DEF IInv, DueInQueue
  <2>5. AnswersAsSent'
    BY <1>4, <2>1, <2>2 DEF IInv, AnswersAsSent
  <2> QED BY <1>1, <2>3, <2>4, <2>5 DEF IInv
<1>10. ASSUME queue # <<>>, queue' = Tail(queue), UNCHANGED <<extra, args, sent, due, replacer>>,
              mappings' = Head(queue).view, replacer = "running",
              \A q \in Req : pc'[q] = pc[q] \/ pc'[q] = "answered"
       PROVE  ViewsFollow' /\ SentIsLast' /\ ClosedIsEmpty' /\ DueInQueue'
  <2>1. ViewsFollow' /\ SentIsLast'
    BY <1>1, <1>10, ServeFollows DEF IInv
  <2>2. /\ Len(queue') = Len(queue) - 1 /\ Len(queue) \in Nat \ {0}
        /\ \A i \in 1 .. Len(queue) - 1 : queue'[i] = queue[i + 1] /\ i + 1 \in 1 .. Len(queue)
    BY <1>2, <1>10, TailAt
  <2>3. DueInQueue'
    BY <1>3, <1>4, <1>10, <2>2 DEF IInv, DueInQueue
  <2> QED BY <1>10, <2>1, <2>3 DEF ClosedIsEmpty
<1>11. ASSUME queue # <<>>
       PROVE  /\ 1 \in 1 .. Len(queue) /\ Head(queue) = queue[1] /\ Before(1) = mappings
  BY <1>2, <1>11, TailAt DEF Before
<1>12. CASE ServeAdd
  <2>1. mappings' = Head(queue).view
    BY <1>11, <1>12 DEF ServeAdd, IInv, ViewsFollow
  <2>2. ViewsFollow' /\ SentIsLast' /\ ClosedIsEmpty' /\ DueInQueue'
    BY <1>10, <1>12, <2>1 DEF ServeAdd
  <2>3. AnswersAsSent'
    BY <1>12 DEF ServeAdd, IInv, AnswersAsSent
  <2> QED BY <1>1, <2>2, <2>3 DEF IInv
<1>13. CASE ServeRewrite
  <2> DEFINE r == Head(queue).req
  <2>1. /\ replacer = "running" /\ queue # <<>> /\ Head(queue).op = "Rewrite"
        /\ UNCHANGED <<extra, args, mappings, sent, due>>
    BY <1>13 DEF ServeRewrite
  <2>2. /\ r \in Req /\ mappings = Head(queue).view
        /\ due[r] = Rewritten(Head(queue).view, args[r])
    BY <1>3, <1>11, <2>1 DEF IInv, ViewsFollow, DueInQueue
  <2>3. CASE pc[r] = "rewriting"
    <3>1. /\ out' = [out EXCEPT ![r] = Rewritten(mappings, args[r])]
          /\ pc' = [pc EXCEPT ![r] = "answered"]
          /\ queue' = Tail(queue) /\ UNCHANGED <<replacer, cancelled>>
      BY <1>13, <2>3 DEF ServeRewrite
    <3>2. ViewsFollow' /\ SentIsLast' /\ ClosedIsEmpty' /\ DueInQueue'
      BY <1>4, <1>10, <2>1, <2>2, <3>1
    <3>3. AnswersAsSent'
      BY <1>4, <2>1, <2>2, <3>1 DEF IInv, AnswersAsSent
    <3> QED BY <1>1, <3>2, <3>3 DEF IInv
  <2>4. CASE pc[r] # "rewriting"
    <3>1. queue' = <<>> /\ replacer' = "panicked" /\ UNCHANGED <<pc, out>>
      BY <1>13, <2>4 DEF ServeRewrite
    <3>2. ViewsFollow' /\ SentIsLast' /\ ClosedIsEmpty' /\ DueInQueue'
      BY <3>1 DEF ViewsFollow, SentIsLast, ClosedIsEmpty, DueInQueue
    <3>3. AnswersAsSent'
      BY <2>1, <3>1 DEF IInv, AnswersAsSent
    <3> QED BY <1>1, <3>2, <3>3 DEF IInv
  <2> QED BY <2>3, <2>4
<1>14. CASE Return
  <2>1. queue' = <<>> /\ replacer' = "returned" /\ UNCHANGED <<pc, out, due>>
    BY <1>14 DEF Return
  <2>2. ViewsFollow' /\ SentIsLast' /\ ClosedIsEmpty' /\ DueInQueue'
    BY <2>1 DEF ViewsFollow, SentIsLast, ClosedIsEmpty, DueInQueue
  <2>3. AnswersAsSent'
    BY <2>1 DEF IInv, AnswersAsSent
  <2> QED BY <1>1, <2>2, <2>3 DEF IInv
<1>15. CASE Cancel \/ UNCHANGED vars
  <2>1. UNCHANGED <<callers, out, queue, mappings, replacer, sent, due>>
    BY <1>15 DEF Cancel, vars
  <2>2. ViewsFollow' /\ SentIsLast' /\ ClosedIsEmpty'
    BY <2>1, QueueUntouched
  <2>3. DueInQueue' /\ AnswersAsSent'
    BY <2>1 DEF IInv, DueInQueue, AnswersAsSent
  <2> QED BY <1>1, <2>2, <2>3 DEF IInv
<1> QED
  BY <1>5, <1>6, <1>7, <1>8, <1>9, <1>12, <1>13, <1>14, <1>15 DEF Next, Ended

\* The answer to a Rewrite is the rewriting of the arguments by the map that has
\* every Add sent before it and nothing else (AnswersAsSent), whatever the
\* capacity of the channel, the requests, the maps and the arguments.
THEOREM AnswersCorrect == Spec => []AnswersAsSent
<1>1. IInv => AnswersAsSent
  BY DEF IInv
<1> QED BY <1>1, InitFollows, StepFollows, PTL DEF Spec

-----------------------------------------------------------------------------
(* Who waits. The replacer panics only when it answers a task that the runtime has *)
(* dropped, and that is after the cancellation.                                    *)

Asks(i) == queue[i].op = "Rewrite"

\* A Rewrite in the channel is the only one of its task, which waits or was dropped.
AskedOnce == \A i, j \in 1 .. Len(queue) : Asks(i) /\ Asks(j) /\ queue[i].req = queue[j].req => i = j
AskersWait == \A i \in 1 .. Len(queue) : Asks(i) => pc[queue[i].req] \in {"rewriting", "dropped"}

\* What happens only after the cancellation.
LateInv == /\ \A r \in Req : pc[r] = "dropped" => cancelled
           /\ replacer # "running" => cancelled

WaitInv == TypeOK /\ ClosedIsEmpty /\ AskedOnce /\ AskersWait /\ LateInv

LEMMA InitWait == Init => WaitInv
BY InitTypes DEF Init, WaitInv, ClosedIsEmpty, AskedOnce, AskersWait, LateInv, Asks

\* A step that leaves the channel alone moves no waiting request but to its drop.
LEMMA StayKeeps ==
  ASSUME WaitInv, UNCHANGED <<queue, replacer>>, cancelled => cancelled',
         \A q \in Req : pc[q] \in {"rewriting", "dropped"} /\ pc'[q] # pc[q] => pc'[q] = "dropped",
         \A q \in Req : pc'[q] = "dropped" => cancelled'
  PROVE  ClosedIsEmpty' /\ AskedOnce' /\ AskersWait' /\ LateInv'
<1>1. \A i \in 1 .. Len(queue) : Asks(i) => queue[i].req \in Req
  BY CommandType DEF WaitInv, TypeOK, Asks
<1> QED BY <1>1 DEF WaitInv, ClosedIsEmpty, AskedOnce, AskersWait, LateInv, Asks

\* A step that closes the channel.
LEMMA CloseKeeps ==
  ASSUME WaitInv, queue' = <<>>, cancelled', UNCHANGED pc
  PROVE  ClosedIsEmpty' /\ AskedOnce' /\ AskersWait' /\ LateInv'
BY DEF ClosedIsEmpty, AskedOnce, AskersWait, LateInv

LEMMA StepWaits == WaitInv /\ [Next]_vars => WaitInv'
<1> SUFFICES ASSUME WaitInv, [Next]_vars PROVE WaitInv'
  OBVIOUS
<1>1. TypeOK /\ TypeOK' /\ LateInv
  BY StepTypes DEF WaitInv
<1>2. queue \in Seq(Command) /\ Len(queue) \in Nat /\ pc \in [Req -> States]
  BY <1>1 DEF TypeOK, States
<1> SUFFICES ClosedIsEmpty' /\ AskedOnce' /\ AskersWait' /\ LateInv'
  BY <1>1 DEF WaitInv
<1> USE DEF callers, Goto
<1>3. CASE CallFirst
  <2>1. First \in Req /\ pc[First] = "idle" /\ pc' = [pc EXCEPT ![First] = "adding"]
    BY <1>3, InputAssumption DEF CallFirst
  <2> QED BY <1>1, <1>2, <1>3, <2>1, StayKeeps DEF CallFirst, LateInv
<1>4. ASSUME NEW r \in Req, Call(r) PROVE ClosedIsEmpty' /\ AskedOnce' /\ AskersWait' /\ LateInv'
  <2>1. PICK where \in {"spawned", "adding"} : pc' = [pc EXCEPT ![r] = where]
    BY <1>4 DEF Call
  <2>2. pc[r] = "idle" /\ UNCHANGED <<queue, replacer, cancelled>>
    BY <1>4 DEF Call
  <2> QED BY <1>1, <1>2, <2>1, <2>2, StayKeeps DEF LateInv
\* A command joins the channel: the only one of a task that begins to wait, or an Add.
<1>5. ASSUME NEW r \in Req, NEW c \in Command, queue' = Append(queue, c), replacer = "running",
             UNCHANGED <<replacer, cancelled>>, pc[r] \in {"adding", "spawned"},
             \/ c.op = "Add" /\ pc' = [pc EXCEPT ![r] = "spawned"]
             \/ c.op = "Rewrite" /\ c.req = r /\ pc' = [pc EXCEPT ![r] = "rewriting"]
      PROVE  ClosedIsEmpty' /\ AskedOnce' /\ AskersWait' /\ LateInv'
  <2>1. /\ Len(queue') = Len(queue) + 1
        /\ \A i \in 1 .. Len(queue) : queue'[i] = queue[i]
        /\ queue'[Len(queue) + 1] = c
    BY <1>2, <1>5, AppendAt
  <2>2. \A i \in 1 .. Len(queue) : Asks(i) => queue[i].req \in Req /\ queue[i].req # r
    BY <1>2, <1>5, CommandType DEF WaitInv, AskersWait, Asks
  <2>3. AskedOnce'
    <3> SUFFICES ASSUME NEW i \in 1 .. Len(queue) + 1, NEW j \in 1 .. Len(queue) + 1,
                        queue'[i].op = "Rewrite", queue'[j].op = "Rewrite", queue'[i].req = queue'[j].req
                 PROVE  i = j
      BY <2>1 DEF AskedOnce, Asks
    <3>1. CASE i \in 1 .. Len(queue) /\ j \in 1 .. Len(queue)
      BY <2>1, <3>1 DEF WaitInv, AskedOnce, Asks
    <3>2. CASE i = Len(queue) + 1 /\ j \in 1 .. Len(queue)
      BY <1>2, <1>5, <2>1, <2>2, <3>2 DEF Asks
    <3>3. CASE i \in 1 .. Len(queue) /\ j = Len(queue) + 1
      BY <1>2, <1>5, <2>1, <2>2, <3>3 DEF Asks
    <3> QED BY <1>2, <3>1, <3>2, <3>3
  <2>4. AskersWait'
    <3> SUFFICES ASSUME NEW i \in 1 .. Len(queue) + 1, queue'[i].op = "Rewrite"
                 PROVE  pc'[queue'[i].req] \in {"rewriting", "dropped"}
      BY <2>1 DEF AskersWait, Asks
    <3>1. CASE i \in 1 .. Len(queue)
      BY <1>2, <1>5, <2>1, <2>2, <3>1 DEF WaitInv, AskersWait, Asks
    <3>2. CASE i = Len(queue) + 1
      BY <1>2, <1>5, <2>1, <3>2
    <3> QED BY <1>2, <3>1, <3>2
  <2>5. ClosedIsEmpty' /\ LateInv'
    BY <1>1, <1>2, <1>5 DEF ClosedIsEmpty, LateInv
  <2> QED BY <2>3, <2>4, <2>5
<1>6. ASSUME NEW r \in Req, SendAdd(r) PROVE ClosedIsEmpty' /\ AskedOnce' /\ AskersWait' /\ LateInv'
  <2>1. pc[r] = "adding" /\ UNCHANGED <<replacer, cancelled>> /\ extra[r] \in PathMap
    BY <1>1, <1>6 DEF SendAdd, TypeOK
  <2>2. CASE Open /\ queue' = Append(queue, Add(extra[r], sent')) /\ pc' = [pc EXCEPT ![r] = "spawned"]
    <3> DEFINE c == Add(extra[r], sent')
    <3>1. c \in Command /\ c.op = "Add"
      BY <1>1, <2>1, CommandType DEF Add, TypeOK
    <3>2. queue' = Append(queue, c)
      BY <2>2
    <3> HIDE DEF c
    <3> QED BY <1>5, <2>1, <2>2, <3>1, <3>2 DEF Open
  <2>3. CASE UNCHANGED queue /\ pc' = [pc EXCEPT ![r] = "rejected"]
    BY <1>1, <1>2, <2>1, <2>3, StayKeeps DEF LateInv
  <2> QED BY <1>6, <2>2, <2>3 DEF SendAdd
<1>7. ASSUME NEW r \in Req, SendRewrite(r) PROVE ClosedIsEmpty' /\ AskedOnce' /\ AskersWait' /\ LateInv'
  <2>1. pc[r] = "spawned" /\ UNCHANGED <<replacer, cancelled>>
    BY <1>7 DEF SendRewrite
  <2>2. CASE Open /\ queue' = Append(queue, Rewrite(r, sent)) /\ pc' = [pc EXCEPT ![r] = "rewriting"]
    <3> DEFINE c == Rewrite(r, sent)
    <3>1. c \in Command /\ c.op = "Rewrite" /\ c.req = r
      BY <1>1, CommandType DEF Rewrite, TypeOK
    <3>2. queue' = Append(queue, c)
      BY <2>2
    <3> HIDE DEF c
    <3> QED BY <1>5, <2>1, <2>2, <3>1, <3>2 DEF Open
  <2>3. CASE UNCHANGED queue /\ pc' = [pc EXCEPT ![r] = "failed"]
    BY <1>1, <1>2, <2>1, <2>3, StayKeeps DEF LateInv
  <2> QED BY <1>7, <2>2, <2>3 DEF SendRewrite
<1>8. ASSUME NEW r \in Req, LoseAnswer(r) PROVE ClosedIsEmpty' /\ AskedOnce' /\ AskersWait' /\ LateInv'
  <2>1. queue = <<>> /\ UNCHANGED <<queue, replacer, cancelled>> /\ pc' = [pc EXCEPT ![r] = "failed"]
    BY <1>8 DEF LoseAnswer, WaitInv, ClosedIsEmpty
  <2> QED BY <1>1, <1>2, <2>1 DEF ClosedIsEmpty, AskedOnce, AskersWait, LateInv
<1>9. ASSUME NEW r \in Req, DropTask(r) PROVE ClosedIsEmpty' /\ AskedOnce' /\ AskersWait' /\ LateInv'
  BY <1>2, <1>9, StayKeeps DEF DropTask
\* A command leaves the channel.
<1>10. ASSUME queue # <<>>, queue' = Tail(queue), replacer = "running", UNCHANGED <<replacer, cancelled>>,
              \/ UNCHANGED pc
              \/ Asks(1) /\ pc' = [pc EXCEPT ![queue[1].req] = "answered"]
       PROVE  ClosedIsEmpty' /\ AskedOnce' /\ AskersWait' /\ LateInv'
  <2>1. /\ Len(queue') = Len(queue) - 1 /\ Len(queue) \in Nat \ {0}
        /\ \A i \in 1 .. Len(queue) - 1 : queue'[i] = queue[i + 1] /\ i + 1 \in 1 .. Len(queue) /\ i + 1 # 1
    BY <1>2, <1>10, TailAt
  <2>2. 1 \in 1 .. Len(queue) /\ \A i \in 1 .. Len(queue) : Asks(i) => queue[i].req \in Req
    BY <1>2, <2>1, CommandType DEF Asks
  <2>3. AskedOnce'
    <3> SUFFICES ASSUME NEW i \in 1 .. Len(queue) - 1, NEW j \in 1 .. Len(queue) - 1,
                        queue'[i].op = "Rewrite", queue'[j].op = "Rewrite", queue'[i].req = queue'[j].req
                 PROVE  i = j
      BY <2>1 DEF AskedOnce, Asks
    <3>1. i + 1 = j + 1
      BY <2>1 DEF WaitInv, AskedOnce, Asks
    <3> QED BY <3>1
  <2>4. AskersWait'
    <3> SUFFICES ASSUME NEW i \in 1 .. Len(queue) - 1, queue'[i].op = "Rewrite"
                 PROVE  pc'[queue'[i].req] \in {"rewriting", "dropped"}
      BY <2>1 DEF AskersWait, Asks
    <3>1. queue'[i] = queue[i + 1] /\ Asks(i + 1) /\ queue[i + 1].req \in Req
      BY <2>1, <2>2 DEF Asks
    <3>2. pc[queue[i + 1].req] \in {"rewriting", "dropped"}
      BY <2>1, <3>1 DEF WaitInv, AskersWait
    <3>3. Asks(1) => queue[1].req # queue[i + 1].req
      BY <2>1, <2>2, <3>1 DEF WaitInv, AskedOnce
    <3> QED BY <1>2, <1>10, <3>1, <3>2, <3>3
  <2>5. ClosedIsEmpty' /\ LateInv'
    BY <1>1, <1>2, <1>10, <2>2 DEF ClosedIsEmpty, LateInv
  <2> QED BY <2>3, <2>4, <2>5
<1>11. CASE ServeAdd
  BY <1>10, <1>11 DEF ServeAdd
<1>12. CASE ServeRewrite
  <2>1. /\ replacer = "running" /\ queue # <<>> /\ Head(queue) = queue[1] /\ Asks(1)
    BY <1>2, <1>12, TailAt DEF ServeRewrite, Asks
  <2>2. CASE pc[Head(queue).req] = "rewriting"
    <3>1. /\ pc' = [pc EXCEPT ![queue[1].req] = "answered"]
          /\ queue' = Tail(queue) /\ UNCHANGED <<replacer, cancelled>>
      BY <1>12, <2>1, <2>2 DEF ServeRewrite
    <3> QED BY <1>10, <2>1, <3>1
  <2>3. CASE pc[Head(queue).req] # "rewriting"
    <3>1. queue' = <<>> /\ cancelled' /\ UNCHANGED pc
      BY <1>12, <2>3 DEF ServeRewrite
    <3> QED BY <3>1, CloseKeeps
  <2> QED BY <2>2, <2>3
<1>13. CASE Return
  BY <1>13, CloseKeeps DEF Return
<1>14. CASE Cancel \/ UNCHANGED vars
  <2>1. UNCHANGED <<pc, queue, replacer>> /\ (cancelled => cancelled')
    BY <1>14 DEF Cancel, vars
  <2> QED BY <1>1, <2>1, StayKeeps DEF LateInv
<1> QED
  BY <1>3, <1>4, <1>6, <1>7, <1>8, <1>9, <1>11, <1>12, <1>13, <1>14 DEF Next, Ended

\* A Rewrite in the channel is one task's only one, and that task waits for the answer
\* unless the token was cancelled: no answer fails in a session that is not ending.
THEOREM WaitersKnown == Spec => []WaitInv
BY InitWait, StepWaits, PTL DEF Spec

-----------------------------------------------------------------------------
(* A request's own files. Entries may be replaced by other requests', so   *)
(* the invariant says of every entry sent that some request added it.      *)

IdleHasNone == \A q \in Req : pc[q] = "idle" => DOMAIN extra[q] = {}

SentIsOfSome ==
  \A x \in DOMAIN sent : \E q \in Req : x \in DOMAIN extra[q] /\ sent[x] = extra[q][x]

OwnAreSent ==
  \A q \in Req : pc[q] \notin {"idle", "adding", "rejected"} => DOMAIN extra[q] \subseteq DOMAIN sent

DueReplaced ==
  \A r \in Req : pc[r] \in {"rewriting", "answered"} =>
    \A i \in DOMAIN args[r] : args[r][i] \in DOMAIN extra[r] =>
      \E q \in Req : args[r][i] \in DOMAIN extra[q] /\ due[r][i] = extra[q][args[r][i]]

OwnInv == TypeOK /\ IdleHasNone /\ SentIsOfSome /\ OwnAreSent /\ DueReplaced

LEMMA InitOwn == Init => OwnInv
<1> SUFFICES ASSUME Init PROVE OwnInv
  OBVIOUS
<1>1. IdleHasNone /\ SentIsOfSome
  BY EmptyType DEF Init, IdleHasNone, SentIsOfSome
<1>2. OwnAreSent /\ DueReplaced
  BY DEF Init, OwnAreSent, DueReplaced
<1> QED BY <1>1, <1>2, InitTypes DEF OwnInv

\* A step that leaves what the requests add and what was sent: a request may only
\* move to states the invariant says less of, or from waiting to its answer.
LEMMA MovesKeep ==
  ASSUME OwnInv, TypeOK', UNCHANGED <<extra, args, sent, due>>,
         \A q \in Req : \/ pc'[q] = pc[q]
                        \/ pc'[q] \in {"failed", "dropped"} /\ pc[q] \in {"spawned", "rewriting"}
                        \/ pc'[q] = "answered" /\ pc[q] = "rewriting"
                        \/ pc'[q] = "rejected" /\ pc[q] = "adding"
  PROVE  OwnInv'
<1>1. IdleHasNone' /\ SentIsOfSome'
  BY DEF OwnInv, IdleHasNone, SentIsOfSome
<1>2. OwnAreSent'
  BY DEF OwnInv, OwnAreSent
<1>3. DueReplaced'
  BY DEF OwnInv, DueReplaced
<1> QED BY <1>1, <1>2, <1>3 DEF OwnInv

\* A call fixes what an idle request adds; nothing rested on it before.
LEMMA CallKeeps ==
  ASSUME OwnInv, TypeOK', NEW r \in Req, pc[r] = "idle", UNCHANGED <<sent, due>>,
         \A q \in Req \ {r} : pc'[q] = pc[q] /\ extra'[q] = extra[q] /\ args'[q] = args[q],
         pc'[r] = "adding" \/ (pc'[r] = "spawned" /\ DOMAIN extra'[r] = {})
  PROVE  OwnInv'
<1>1. DOMAIN extra[r] = {}
  BY DEF OwnInv, IdleHasNone
<1>2. IdleHasNone'
  BY DEF OwnInv, IdleHasNone
<1>3. SentIsOfSome'
  BY <1>1 DEF OwnInv, SentIsOfSome
<1>4. OwnAreSent'
  BY DEF OwnInv, OwnAreSent
<1>5. DueReplaced'
  <2> SUFFICES ASSUME NEW p \in Req, pc'[p] \in {"rewriting", "answered"},
                      NEW i \in DOMAIN args'[p], args'[p][i] \in DOMAIN extra'[p]
               PROVE  \E q \in Req : args'[p][i] \in DOMAIN extra'[q]
                                     /\ due'[p][i] = extra'[q][args'[p][i]]
    BY DEF DueReplaced
  <2>1. p # r
    OBVIOUS
  <2>2. PICK q \in Req : args[p][i] \in DOMAIN extra[q] /\ due[p][i] = extra[q][args[p][i]]
    BY <2>1 DEF OwnInv, DueReplaced
  <2>3. q # r
    BY <1>1, <2>2
  <2> QED BY <2>1, <2>2, <2>3
<1> QED BY <1>2, <1>3, <1>4, <1>5 DEF OwnInv

LEMMA StepOwn == OwnInv /\ [Next]_vars => OwnInv'
<1> SUFFICES ASSUME OwnInv, [Next]_vars PROVE OwnInv'
  OBVIOUS
<1>1. TypeOK /\ TypeOK'
  BY StepTypes DEF OwnInv
<1>2. /\ pc \in [Req -> States] /\ extra \in [Req -> PathMap] /\ sent \in PathMap
      /\ args \in [Req -> Seq(Path)] /\ DOMAIN due = Req
  BY <1>1 DEF TypeOK, States
<1> USE DEF callers, Goto
<1>3. CASE CallFirst
  <2>1. /\ First \in Req /\ pc[First] = "idle" /\ UNCHANGED <<sent, due>>
        /\ pc'[First] = "adding"
        /\ \A q \in Req \ {First} : pc'[q] = pc[q] /\ extra'[q] = extra[q] /\ args'[q] = args[q]
    BY <1>2, <1>3, InputAssumption DEF CallFirst
  <2> QED BY <1>1, <2>1, CallKeeps
<1>4. ASSUME NEW r \in Req, Call(r) PROVE OwnInv'
  <2>1. PICK files, words :
          /\ extra' = [extra EXCEPT ![r] = files] /\ args' = [args EXCEPT ![r] = words]
          /\ pc' = [pc EXCEPT ![r] = IF files = Empty THEN "spawned" ELSE "adding"]
    BY <1>4 DEF Call
  <2>2. pc[r] = "idle" /\ UNCHANGED <<sent, due>>
    BY <1>4 DEF Call
  <2>3. \A q \in Req \ {r} : pc'[q] = pc[q] /\ extra'[q] = extra[q] /\ args'[q] = args[q]
    BY <1>2, <2>1
  <2>4. pc'[r] = "adding" \/ (pc'[r] = "spawned" /\ DOMAIN extra'[r] = {})
    BY <1>2, <2>1, EmptyType
  <2> QED BY <1>1, <2>2, <2>3, <2>4, CallKeeps
<1>5. ASSUME NEW r \in Req, SendAdd(r) PROVE OwnInv'
  <2>1. pc[r] = "adding" /\ UNCHANGED <<extra, args, due>>
    BY <1>5 DEF SendAdd
  <2>2. CASE sent' = Overlay(sent, extra[r]) /\ pc' = [pc EXCEPT ![r] = "spawned"]
    <3>0. extra[r] \in PathMap
      BY <1>2
    <3>1. /\ DOMAIN sent' = DOMAIN sent \cup DOMAIN extra[r]
          /\ \A x \in DOMAIN extra[r] : sent'[x] = extra[r][x]
          /\ \A x \in DOMAIN sent \ DOMAIN extra[r] : sent'[x] = sent[x]
      BY <1>2, <2>2, <3>0, OverlayType
    <3>2. SentIsOfSome'
      BY <2>1, <3>1 DEF OwnInv, SentIsOfSome
    <3>3. OwnAreSent'
      BY <1>2, <2>1, <2>2, <3>1 DEF OwnInv, OwnAreSent
    <3>4. IdleHasNone' /\ DueReplaced'
      BY <1>2, <2>1, <2>2 DEF OwnInv, IdleHasNone, DueReplaced
    <3> QED BY <1>1, <3>2, <3>3, <3>4 DEF OwnInv
  <2>3. CASE UNCHANGED sent /\ pc' = [pc EXCEPT ![r] = "rejected"]
    BY <1>1, <1>2, <2>1, <2>3, MovesKeep
  <2> QED BY <1>5, <2>2, <2>3 DEF SendAdd
<1>6. ASSUME NEW r \in Req, SendRewrite(r) PROVE OwnInv'
  <2>1. pc[r] = "spawned" /\ UNCHANGED <<extra, args, sent>>
    BY <1>6 DEF SendRewrite
  <2>2. CASE due' = [due EXCEPT ![r] = Rewritten(sent, args[r])] /\ pc' = [pc EXCEPT ![r] = "rewriting"]
    <3>1. IdleHasNone' /\ SentIsOfSome' /\ OwnAreSent'
      BY <1>2, <2>1, <2>2 DEF OwnInv, IdleHasNone, SentIsOfSome, OwnAreSent
    <3>2. DueReplaced'
      <4> SUFFICES ASSUME NEW p \in Req, pc'[p] \in {"rewriting", "answered"},
                          NEW i \in DOMAIN args[p], args[p][i] \in DOMAIN extra[p]
                   PROVE  \E q \in Req : args[p][i] \in DOMAIN extra[q]
                                         /\ due'[p][i] = extra[q][args[p][i]]
        BY <2>1 DEF DueReplaced
      <4>1. CASE p = r
        <5>1. args[r][i] \in DOMAIN sent
          BY <2>1, <4>1 DEF OwnInv, OwnAreSent
        <5>2. due'[r][i] = sent[args[r][i]]
          BY <1>2, <2>2, <4>1, <5>1 DEF Rewritten
        <5> QED BY <4>1, <5>1, <5>2 DEF OwnInv, SentIsOfSome
      <4>2. CASE p # r
        BY <1>2, <2>2, <4>2 DEF OwnInv, DueReplaced
      <4> QED BY <4>1, <4>2
    <3> QED BY <1>1, <3>1, <3>2 DEF OwnInv
  <2>3. CASE UNCHANGED due /\ pc' = [pc EXCEPT ![r] = "failed"]
    BY <1>1, <1>2, <2>1, <2>3, MovesKeep
  <2> QED BY <1>6, <2>2, <2>3 DEF SendRewrite
<1>7. ASSUME NEW r \in Req, LoseAnswer(r) \/ DropTask(r) PROVE OwnInv'
  BY <1>1, <1>2, <1>7, MovesKeep DEF LoseAnswer, DropTask
<1>8. CASE ServeAdd \/ Return \/ Cancel \/ UNCHANGED vars
  BY <1>1, <1>8, MovesKeep DEF ServeAdd, Return, Cancel, vars
<1>9. CASE ServeRewrite
  <2>1. UNCHANGED <<extra, args, sent, due>>
    BY <1>9 DEF ServeRewrite
  <2>2. \/ UNCHANGED pc
        \/ \E r : pc[r] = "rewriting" /\ pc' = [pc EXCEPT ![r] = "answered"]
    BY <1>9 DEF ServeRewrite
  <2> QED BY <1>1, <1>2, <2>1, <2>2, MovesKeep
<1> QED BY <1>3, <1>4, <1>5, <1>6, <1>7, <1>8, <1>9 DEF Next, Ended

\* A word of a request's arguments that the request itself mapped has become, in its
\* answer, what it or another request mapped it to (OwnFilesReplaced).
THEOREM OwnFilesCorrect == Spec => []OwnFilesReplaced
<1>1. OwnInv /\ AnswersAsSent => OwnFilesReplaced
  BY DEF OwnInv, DueReplaced, AnswersAsSent, OwnFilesReplaced
<1> QED BY <1>1, InitOwn, StepOwn, AnswersCorrect, PTL DEF Spec

-----------------------------------------------------------------------------
(* The replacer implements AtomicMap. *)

AInv == IInv /\ WaitInv

LEMMA AtomicInit == Init => Atomic!Init
BY DEF Init, Atomic!Init, Stage, Seen, Empty

\* What one request's move is to the callers.
LEMMA SeenMove ==
  ASSUME TypeOK, NEW r \in Req, NEW where, pc' = [pc EXCEPT ![r] = where]
  PROVE  Stage[r] = Seen(pc[r]) /\ Stage' = [Stage EXCEPT ![r] = Seen(where)]
BY DEF TypeOK, Stage

\* Who is refused or dropped gives up after the cancellation.
LEMMA GiveUpMaps ==
  ASSUME TypeOK, NEW r \in Req, cancelled, pc[r] \in {"adding", "spawned", "rewriting"},
         NEW where \in {"rejected", "failed", "dropped"}, pc' = [pc EXCEPT ![r] = where],
         UNCHANGED <<extra, args, out, cancelled, sent, due>>
  PROVE  Atomic!GiveUp(r)
<1>1. Stage[r] = Seen(pc[r]) /\ Stage' = [Stage EXCEPT ![r] = "gone"]
  BY SeenMove DEF Seen
<1>2. Seen(pc[r]) \in {"called", "ready", "asked"}
  BY DEF Seen
<1> QED BY <1>1, <1>2 DEF Atomic!GiveUp, Atomic!Advance

LEMMA CloseMaps ==
  ASSUME cancelled \in BOOLEAN, UNCHANGED <<pc, extra, args, out, sent, due>>, cancelled' = TRUE
  PROVE  [Atomic!Next]_Atomic!vars
<1>1. UNCHANGED Stage
  BY DEF Stage
<1>2. CASE cancelled = TRUE
  BY <1>1, <1>2 DEF Atomic!vars
<1>3. CASE cancelled = FALSE
  <2>1. Atomic!Close
    BY <1>1, <1>3 DEF Atomic!Close
  <2> QED BY <2>1 DEF Atomic!Next
<1> QED BY <1>2, <1>3

LEMMA AtomicStep == AInv /\ AInv' /\ [Next]_vars => [Atomic!Next]_Atomic!vars
<1> SUFFICES ASSUME AInv, AInv', [Next]_vars PROVE [Atomic!Next]_Atomic!vars
  OBVIOUS
<1>1. TypeOK /\ LateInv /\ AnswersAsSent' /\ cancelled \in BOOLEAN
  BY DEF AInv, IInv, WaitInv, TypeOK
<1>2. /\ pc \in [Req -> States] /\ extra \in [Req -> PathMap] /\ args \in [Req -> Seq(Path)]
      /\ DOMAIN out = Req
  BY <1>1 DEF TypeOK, States
<1> USE DEF callers, Goto
<1>3. CASE CallFirst
  <2>1. First \in Req
    BY InputAssumption
  <2>2. Stage[First] = "idle" /\ Stage' = [Stage EXCEPT ![First] = "called"]
    BY <1>1, <1>3, <2>1, SeenMove DEF CallFirst, Seen
  <2>3. /\ extra' = [extra EXCEPT ![First] = extra'[First]]
        /\ args' = [args EXCEPT ![First] = args'[First]]
    BY <1>2, <1>3, <2>1 DEF CallFirst
  <2>4. Atomic!Call(First)
    BY <1>3, <2>2, <2>3 DEF CallFirst, Atomic!Call, Atomic!Advance
  <2> QED BY <2>1, <2>4 DEF Atomic!Next
<1>4. ASSUME NEW r \in Req, Call(r) PROVE [Atomic!Next]_Atomic!vars
  <2>1. PICK files \in Extra, words \in Arguments, append \in BOOLEAN :
          /\ extra' = [extra EXCEPT ![r] = files]
          /\ args' = [args EXCEPT ![r] = IF append THEN ConfArgs \o words ELSE words]
          /\ pc' = [pc EXCEPT ![r] = IF files = Empty THEN "spawned" ELSE "adding"]
    BY <1>4 DEF Call
  <2>2. /\ extra' = [extra EXCEPT ![r] = extra'[r]] /\ args' = [args EXCEPT ![r] = args'[r]]
        /\ extra'[r] = files
    BY <1>2, <2>1
  <2>3. Stage[r] = "idle" /\ Stage' = [Stage EXCEPT ![r] = IF files = Empty THEN "ready" ELSE "called"]
    BY <1>1, <1>4, <2>1, SeenMove DEF Call, Seen
  <2>4. Atomic!Call(r)
    BY <1>4, <2>2, <2>3, EmptyType DEF Call, Atomic!Call, Atomic!Advance
  <2> QED BY <2>4 DEF Atomic!Next
<1>5. ASSUME NEW r \in Req, SendAdd(r) PROVE [Atomic!Next]_Atomic!vars
  <2>1. CASE pc' = [pc EXCEPT ![r] = "spawned"] /\ sent' = Overlay(sent, extra[r])
    <3>1. Stage[r] = "called" /\ Stage' = [Stage EXCEPT ![r] = "ready"]
      BY <1>1, <1>5, <2>1, SeenMove DEF SendAdd, Seen
    <3>2. Atomic!Add(r)
      BY <1>5, <2>1, <3>1 DEF SendAdd, Overlay, Atomic!Add, Atomic!Advance
    <3> QED BY <3>2 DEF Atomic!Next
  <2>2. CASE replacer # "running" /\ pc' = [pc EXCEPT ![r] = "rejected"] /\ UNCHANGED sent
    <3>1. Atomic!GiveUp(r)
      BY <1>1, <1>5, <2>2, GiveUpMaps DEF SendAdd, LateInv
    <3> QED BY <3>1 DEF Atomic!Next
  <2> QED BY <1>5, <2>1, <2>2 DEF SendAdd
<1>6. ASSUME NEW r \in Req, SendRewrite(r) PROVE [Atomic!Next]_Atomic!vars
  <2>1. CASE pc' = [pc EXCEPT ![r] = "rewriting"] /\ due' = [due EXCEPT ![r] = Rewritten(sent, args[r])]
    <3>1. Stage[r] = "ready" /\ Stage' = [Stage EXCEPT ![r] = "asked"]
      BY <1>1, <1>6, <2>1, SeenMove DEF SendRewrite, Seen
    <3>2. Atomic!Ask(r)
      BY <1>6, <2>1, <3>1 DEF SendRewrite, Rewritten, Atomic!Ask, Atomic!Inside, Atomic!Advance
    <3> QED BY <3>2 DEF Atomic!Next
  <2>2. CASE replacer # "running" /\ pc' = [pc EXCEPT ![r] = "failed"] /\ UNCHANGED due
    <3>1. Atomic!GiveUp(r)
      BY <1>1, <1>6, <2>2, GiveUpMaps DEF SendRewrite, LateInv
    <3> QED BY <3>1 DEF Atomic!Next
  <2> QED BY <1>6, <2>1, <2>2 DEF SendRewrite
<1>7. ASSUME NEW r \in Req, LoseAnswer(r) \/ DropTask(r) PROVE [Atomic!Next]_Atomic!vars
  <2>1. Atomic!GiveUp(r)
    BY <1>1, <1>7, GiveUpMaps DEF LoseAnswer, DropTask, LateInv
  <2> QED BY <2>1 DEF Atomic!Next
<1>8. CASE ServeRewrite
  <2> DEFINE r == Head(queue).req
  <2>1. CASE pc[r] = "rewriting"
    <3>1. r \in Req
      <4>1. queue \in Seq(Command) /\ queue # <<>> /\ Head(queue).op = "Rewrite"
        BY <1>1, <1>8 DEF ServeRewrite, TypeOK
      <4> QED BY <4>1, TailAt, CommandType
    <3>2. /\ out' = [out EXCEPT ![r] = Rewritten(mappings, args[r])]
          /\ pc' = [pc EXCEPT ![r] = "answered"]
          /\ UNCHANGED <<extra, args, sent, due, cancelled>>
      BY <1>8, <2>1 DEF ServeRewrite
    <3>3. out'[r] = due[r]
      BY <1>1, <1>2, <3>1, <3>2 DEF AnswersAsSent
    <3>4. out' = [out EXCEPT ![r] = due[r]]
      BY <1>2, <3>1, <3>2, <3>3
    <3>5. Stage[r] = "asked" /\ Stage' = [Stage EXCEPT ![r] = "answered"]
      BY <1>1, <2>1, <3>1, <3>2, SeenMove DEF Seen
    <3>6. Atomic!Answer(r)
      BY <3>2, <3>4, <3>5 DEF Atomic!Answer, Atomic!Advance
    <3> QED BY <3>1, <3>6 DEF Atomic!Next
  <2>2. CASE pc[r] # "rewriting"
    BY <1>1, <1>8, <2>2, CloseMaps DEF ServeRewrite
  <2> QED BY <2>1, <2>2
<1>9. CASE ServeAdd \/ Return \/ Ended \/ UNCHANGED vars
  BY <1>9 DEF ServeAdd, Return, Ended, vars, Atomic!vars, Stage
<1>10. CASE Cancel
  BY <1>1, <1>10, CloseMaps DEF Cancel
<1> QED BY <1>3, <1>4, <1>5, <1>6, <1>7, <1>8, <1>9, <1>10 DEF Next

\* The task, its channel and the order in which it serves them are not to be seen from
\* outside: callers have one map that changes when an Add is sent, by which arguments
\* are rewritten when the Rewrite is sent (AtomicMapKept).
THEOREM AtomicRefined == Spec => AtomicMapKept
<1>1. Init => AInv
  BY InitFollows, InitWait DEF AInv
<1>2. AInv /\ [Next]_vars => AInv'
  BY StepFollows, StepWaits DEF AInv
<1> QED BY <1>1, <1>2, AtomicInit, AtomicStep, PTL DEF Spec, AtomicMapKept, Atomic!Spec

-----------------------------------------------------------------------------
(* Nobody waits for an answer that is not coming. *)

AwaitInv ==
  \A r \in Req : pc[r] = "rewriting" /\ replacer = "running" =>
    \E i \in 1 .. Len(queue) : Asks(i) /\ queue[i].req = r

LEMMA AwaitStep == TypeOK /\ AwaitInv /\ [Next]_vars => AwaitInv'
<1> SUFFICES ASSUME TypeOK, AwaitInv, [Next]_vars,
                    NEW q \in Req, pc'[q] = "rewriting", replacer' = "running"
             PROVE  \E i \in 1 .. Len(queue') : queue'[i].op = "Rewrite" /\ queue'[i].req = q
  BY DEF AwaitInv, Asks
<1>1. queue \in Seq(Command) /\ Len(queue) \in Nat /\ pc \in [Req -> States]
  BY DEF TypeOK, States
<1>2. pc[q] = "rewriting" /\ replacer = "running" =>
        \E i \in 1 .. Len(queue) : queue[i].op = "Rewrite" /\ queue[i].req = q
  BY DEF AwaitInv, Asks
<1> USE DEF callers, Goto
<1>3. ASSUME UNCHANGED queue, pc[q] = "rewriting", replacer = "running"
      PROVE  \E i \in 1 .. Len(queue') : queue'[i].op = "Rewrite" /\ queue'[i].req = q
  BY <1>2, <1>3
<1>4. ASSUME NEW c \in Command, queue' = Append(queue, c), replacer = "running",
             pc[q] = "rewriting" \/ (c.op = "Rewrite" /\ c.req = q)
      PROVE  \E i \in 1 .. Len(queue') : queue'[i].op = "Rewrite" /\ queue'[i].req = q
  <2>1. /\ Len(queue') = Len(queue) + 1 /\ queue'[Len(queue) + 1] = c
        /\ \A i \in 1 .. Len(queue) : queue'[i] = queue[i]
    BY <1>1, <1>4, AppendAt
  <2>2. CASE pc[q] = "rewriting"
    BY <1>1, <1>2, <1>4, <2>1, <2>2
  <2>3. CASE c.op = "Rewrite" /\ c.req = q
    BY <1>1, <2>1, <2>3
  <2> QED BY <1>4, <2>2, <2>3
<1>5. ASSUME queue # <<>>, queue' = Tail(queue), replacer = "running", pc[q] = "rewriting",
             Head(queue).op = "Add" \/ Head(queue).req # q
      PROVE  \E i \in 1 .. Len(queue') : queue'[i].op = "Rewrite" /\ queue'[i].req = q
  <2>1. /\ Len(queue') = Len(queue) - 1 /\ Len(queue) \in Nat \ {0} /\ Head(queue) = queue[1]
        /\ \A i \in 1 .. Len(queue) - 1 : queue'[i] = queue[i + 1]
    BY <1>1, <1>5, TailAt
  <2>2. PICK i \in 1 .. Len(queue) : queue[i].op = "Rewrite" /\ queue[i].req = q
    BY <1>2, <1>5
  <2>3. i # 1
    BY <1>5, <2>1, <2>2
  <2>4. i - 1 \in 1 .. Len(queue') /\ (i - 1) + 1 = i /\ i - 1 \in 1 .. Len(queue) - 1
    BY <2>1, <2>3
  <2> QED BY <2>1, <2>2, <2>4
<1>6. CASE CallFirst \/ Cancel \/ Ended \/ UNCHANGED vars
  BY <1>1, <1>3, <1>6 DEF CallFirst, Cancel, Ended, vars
<1>7. ASSUME NEW r \in Req, Call(r) \/ LoseAnswer(r) \/ DropTask(r)
      PROVE  \E i \in 1 .. Len(queue') : queue'[i].op = "Rewrite" /\ queue'[i].req = q
  BY <1>1, <1>3, <1>7 DEF Call, LoseAnswer, DropTask
<1>8. ASSUME NEW r \in Req, SendAdd(r)
      PROVE  \E i \in 1 .. Len(queue') : queue'[i].op = "Rewrite" /\ queue'[i].req = q
  <2>1. Open /\ queue' = Append(queue, Add(extra[r], sent')) /\ pc[q] = "rewriting"
    BY <1>1, <1>8 DEF SendAdd
  <2>2. extra[r] \in PathMap /\ sent' \in PathMap
    BY StepTypes DEF TypeOK
  <2> QED BY <1>4, <2>1, <2>2, CommandType DEF Open
<1>9. ASSUME NEW r \in Req, SendRewrite(r)
      PROVE  \E i \in 1 .. Len(queue') : queue'[i].op = "Rewrite" /\ queue'[i].req = q
  <2>1. /\ Open /\ queue' = Append(queue, Rewrite(r, sent))
        /\ pc[q] = "rewriting" \/ q = r
    BY <1>1, <1>9 DEF SendRewrite
  <2>2. /\ Rewrite(r, sent) \in Command
        /\ Rewrite(r, sent).op = "Rewrite" /\ Rewrite(r, sent).req = r
    BY CommandType DEF TypeOK, Rewrite
  <2> QED BY <1>4, <2>1, <2>2 DEF Open
<1>10. CASE ServeAdd
  BY <1>5, <1>10 DEF ServeAdd
<1>11. CASE ServeRewrite
  <2>1. Head(queue).req \in Req
    <3>1. queue # <<>> /\ Head(queue).op = "Rewrite"
      BY <1>11 DEF ServeRewrite
    <3> QED BY <1>1, <3>1, TailAt, CommandType
  <2> QED BY <1>1, <1>5, <1>11, <2>1 DEF ServeRewrite
<1>12. ~Return
  BY DEF Return
<1> QED BY <1>6, <1>7, <1>8, <1>9, <1>10, <1>11, <1>12 DEF Next

\* A task that waits for its answer has its command in the channel of a replacer that
\* serves it, or the channel is closed and the answer lost, which the task notices
\* (LoseAnswer): what RewriteReturns needs at each moment.
THEOREM WaitersServed == Spec => []AwaitInv
<1>1. Init => AwaitInv
  BY DEF Init, AwaitInv
<1> QED BY <1>1, AwaitStep, TypeCorrect, PTL DEF Spec
=============================================================================
