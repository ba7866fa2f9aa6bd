---------------------------- MODULE EndingProofs ----------------------------
(***************************************************************************)
(* Proofs about Ending: the types, and the two action properties, from an  *)
(* invariant on what main has reached and on what is on the portal's wire. *)
(***************************************************************************)
EXTENDS Ending, Naturals, SequenceTheorems, TLAPS

\* The connection is closed, and a message that would lift the inhibition is on its
\* way, only when it is time.
CloserInv == closer # "none" => main \in {"teardown", "gone", "dead"}
ConnInv == conn = "closed" => main \in {"teardown", "gone", "dead"}
ClosingInv == inhibitor = "closing" => cancelled
WireInv ==
  \A i \in 1..Len(wire) :
    /\ wire[i] = "Close" => cancelled
    /\ wire[i] = "Disconnected" => ~Running

EInv == TypeOK /\ CloserInv /\ ConnInv /\ ClosingInv /\ WireInv

-----------------------------------------------------------------------------
(* Types. *)

Written == {"Inhibit", "Close", "Disconnected"}

\* A sequence that grows at its end or loses its head keeps its type and its elements.
LEMMA AppendKeeps ==
  ASSUME NEW q \in Seq(Written), NEW m \in Written
  PROVE  /\ Append(q, m) \in Seq(Written)
         /\ Len(Append(q, m)) = Len(q) + 1
         /\ \A i \in 1..Len(q) : Append(q, m)[i] = q[i]
         /\ Append(q, m)[Len(q) + 1] = m
  OBVIOUS

LEMMA TailKeeps ==
  ASSUME NEW q \in Seq(Written), q # <<>>
  PROVE  /\ Tail(q) \in Seq(Written)
         /\ Len(Tail(q)) = Len(q) - 1
         /\ Len(q) \in Nat /\ Len(q) >= 1
         /\ \A i \in 1..Len(Tail(q)) : Tail(q)[i] = q[i + 1]
         /\ Head(q) = q[1]
  OBVIOUS

LEMMA TypeStep == TypeOK /\ [Next]_vars => TypeOK'
<1> SUFFICES ASSUME TypeOK, [Next]_vars PROVE TypeOK'
  OBVIOUS
<1> USE DEF TypeOK, bus, portal
<1>1. ASSUME NEW how \in {"gone", "dead"}, Vanish(how) PROVE TypeOK'
  <2>1. Append(wire, "Disconnected") \in Seq(Written)
    BY AppendKeeps DEF Written
  <2> QED BY <1>1, <2>1 DEF Vanish, Written
<1>2. CASE Exit \/ Die
  BY <1>1, <1>2 DEF Exit, Die
<1>3. CASE StartInhibition \/ Listen \/ SeeToken \/ RequestShutdown \/ Return \/ Cancel \/ SeeSignal
  BY <1>3 DEF StartInhibition, Listen, SeeToken, RequestShutdown, Return, Cancel, SeeSignal
<1>4. CASE GracefulShutdown \/ Drop \/ GetReply \/ Lifted
  BY <1>4 DEF GracefulShutdown, Drop, DropCloser, DropInhibitor, GetReply, Lifted
<1>5. CASE Ask \/ Lift
  <2>1. Append(wire, "Inhibit") \in Seq(Written) /\ Append(wire, "Close") \in Seq(Written)
    BY AppendKeeps DEF Written
  <2> QED BY <1>5, <2>1 DEF Ask, Lift, Written
<1>6. CASE PortalActs
  <2>1. Tail(wire) \in Seq(Written)
    BY <1>6, TailKeeps DEF PortalActs, Written
  <2>2. inhibited' \in BOOLEAN
    <3>1. (Head(wire) = "Inhibit") \in BOOLEAN
      OBVIOUS
    <3> QED BY <1>6, <3>1, Zenon DEF PortalActs
  <2>3. reply' \in {"none", "ok", "error"}
    BY <1>6 DEF PortalActs
  <2>4. UNCHANGED <<inhibit, cancelled, main, stop, conn, closer, inhibitor>> /\ wire' = Tail(wire)
    BY <1>6 DEF PortalActs
  <2> QED BY <2>1, <2>2, <2>3, <2>4 DEF Written
<1>7. CASE Ended \/ UNCHANGED vars
  BY <1>7 DEF Ended, vars
<1> QED BY <1>2, <1>3, <1>4, <1>5, <1>6, <1>7 DEF Next, Main

LEMMA TypeInit == Init => TypeOK
<1> SUFFICES ASSUME Init PROVE TypeOK
  OBVIOUS
<1>1. wire \in Seq({"Inhibit", "Close", "Disconnected"})
  BY DEF Init
<1>2. inhibit \in BOOLEAN /\ cancelled \in BOOLEAN /\ inhibited \in BOOLEAN
  BY DEF Init
<1>3. /\ main = "published" /\ stop = "none" /\ conn = "open" /\ closer = "none"
      /\ inhibitor = "none" /\ reply = "none"
  BY DEF Init
<1> QED BY <1>1, <1>2, <1>3 DEF TypeOK

\* The variables of the end of a session keep their types, whatever the portal replies.
THEOREM TypeCorrect == Spec => []TypeOK
BY TypeInit, TypeStep, PTL DEF Spec

-----------------------------------------------------------------------------
(* The invariant. *)

LEMMA InvInit == Init => EInv
BY TypeInit DEF Init, EInv, CloserInv, ConnInv, ClosingInv, WireInv

\* A message that may be sent now joins the wire.
LEMMA WriteKeeps ==
  ASSUME TypeOK, TypeOK', WireInv, cancelled => cancelled', ~Running => ~Running',
         NEW m \in Written, wire' = Append(wire, m),
         m = "Close" => cancelled', m = "Disconnected" => ~Running'
  PROVE  WireInv'
<1> SUFFICES ASSUME NEW i \in 1..Len(wire')
             PROVE  (wire'[i] = "Close" => cancelled') /\ (wire'[i] = "Disconnected" => ~Running')
  BY DEF WireInv
<1>1. wire \in Seq(Written) /\ Len(wire) \in Nat
  BY DEF TypeOK, Written
<1>2. i \in 1..Len(wire) \/ i = Len(wire) + 1
  BY <1>1, AppendKeeps
<1>3. CASE i \in 1..Len(wire)
  BY <1>1, <1>3, AppendKeeps DEF WireInv
<1>4. CASE i = Len(wire) + 1
  BY <1>1, <1>4, AppendKeeps
<1> QED BY <1>2, <1>3, <1>4

\* A step that writes nothing.
LEMMA QuietKeeps ==
  ASSUME WireInv, cancelled => cancelled', ~Running => ~Running', UNCHANGED wire
  PROVE  WireInv'
BY DEF WireInv

LEMMA InvStep == EInv /\ [Next]_vars => EInv'
<1> SUFFICES ASSUME EInv, [Next]_vars PROVE EInv'
  OBVIOUS
<1>0. TypeOK /\ TypeOK' /\ CloserInv /\ ConnInv /\ ClosingInv /\ WireInv
  BY TypeStep DEF EInv
<1>1. (cancelled => cancelled') /\ (~Running => ~Running')
  BY DEF Next, Main, Drop, StartInhibition, Listen, SeeToken, RequestShutdown, Return, Exit, Cancel,
     SeeSignal, Die, Vanish, GracefulShutdown, DropCloser, DropInhibitor, Ask, GetReply, Lift, Lifted,
     PortalActs, Ended, Running, vars
<1>2. CloserInv' /\ ConnInv'
  BY <1>0 DEF CloserInv, ConnInv, Next, Main, Drop, StartInhibition, Listen, SeeToken, RequestShutdown,
     Return, Exit, Cancel, SeeSignal, Die, Vanish, GracefulShutdown, DropCloser, DropInhibitor, Ask,
     GetReply, Lift, Lifted, PortalActs, Ended, Running, vars, bus, portal
<1>3. ClosingInv'
  BY <1>0, <1>1 DEF ClosingInv, Next, Main, Drop, StartInhibition, Listen, SeeToken, RequestShutdown,
     Return, Exit, Cancel, SeeSignal, Die, Vanish, GracefulShutdown, DropCloser, DropInhibitor, Ask,
     GetReply, Lift, Lifted, PortalActs, Ended, vars
<1>4. WireInv'
  <2>1. CASE Exit \/ Die
    <3>1. wire' = Append(wire, "Disconnected") /\ ~Running'
      BY <2>1 DEF Exit, Die, Vanish, Running
    <3> QED BY <1>0, <1>1, <3>1, WriteKeeps DEF Written
  <2>2. CASE Lift
    <3>1. wire' = Append(wire, "Close") /\ cancelled'
      BY <1>1, <2>2 DEF Lift
    <3> QED BY <1>0, <1>1, <3>1, WriteKeeps DEF Written
  <2>3. CASE Ask
    <3>1. wire' = Append(wire, "Inhibit") \/ UNCHANGED wire
      BY <2>3 DEF Ask
    <3> QED BY <1>0, <1>1, <3>1, WriteKeeps, QuietKeeps DEF Written
  <2>4. CASE PortalActs
    <3>1. wire \in Seq(Written) /\ wire # <<>> /\ wire' = Tail(wire)
      BY <1>0, <2>4 DEF PortalActs, TypeOK, Written
    <3>2. UNCHANGED <<cancelled, main>>
      BY <2>4 DEF PortalActs
    <3> SUFFICES ASSUME NEW i \in 1..Len(Tail(wire))
                 PROVE  /\ Tail(wire)[i] = "Close" => cancelled
                        /\ Tail(wire)[i] = "Disconnected" => ~Running
      BY <3>1, <3>2 DEF WireInv, Running
    <3>3. i + 1 \in 1..Len(wire) /\ Tail(wire)[i] = wire[i + 1]
      BY <3>1, TailKeeps
    <3> QED BY <1>0, <3>3 DEF WireInv
  <2>5. CASE \/ StartInhibition \/ Listen \/ SeeToken \/ RequestShutdown \/ Return \/ Cancel \/ SeeSignal
             \/ GracefulShutdown \/ Drop \/ GetReply \/ Lifted \/ Ended \/ UNCHANGED vars
    <3>1. UNCHANGED wire
      BY <2>5 DEF StartInhibition, Listen, SeeToken, RequestShutdown, Return, Cancel, SeeSignal,
         GracefulShutdown, Drop, DropCloser, DropInhibitor, GetReply, Lifted, Ended, vars, portal
    <3> QED BY <1>0, <1>1, <3>1, QuietKeeps
  <2> QED BY <2>1, <2>2, <2>3, <2>4, <2>5 DEF Next, Main
<1> QED BY <1>0, <1>2, <1>3, <1>4 DEF EInv

\* Who closes the connection, or writes a message that lifts the inhibition, does so
\* only after main has asked the daemon to stop, or after the token was cancelled.
THEOREM InvCorrect == Spec => []EInv
BY InvInit, InvStep, PTL DEF Spec

-----------------------------------------------------------------------------
(* The action properties. *)

\* StopPrecedesClose: main's Stop to the daemon is written to a connection that the
\* task graceful_shutdown has not closed (main.rs:268-269).
THEOREM StopFirst == Spec => StopPrecedesClose
<1>1. EInv /\ [Next]_vars => [stop' # stop => conn = "open"]_vars
  <2> SUFFICES ASSUME EInv, Next, stop' # stop PROVE conn = "open"
    OBVIOUS
  <2>1. main = "stopping"
    BY DEF Next, Main, Drop, StartInhibition, Listen, SeeToken, RequestShutdown, Return, Exit, Cancel,
       SeeSignal, Die, Vanish, GracefulShutdown, DropCloser, DropInhibitor, Ask, GetReply, Lift,
       Lifted, PortalActs, Ended, vars, bus
  <2> QED BY <2>1 DEF EInv, ConnInv, TypeOK
<1> QED BY <1>1, InvCorrect, PTL DEF Spec, StopPrecedesClose

\* HeldUntilToken: the portal lifts an inhibition it granted only when Init asked it to,
\* which is after the cancellation, or when Init is gone (inhibit.rs:34-36).
THEOREM Held == Spec => HeldUntilToken
<1>1. EInv /\ [Next]_vars => [inhibited /\ ~inhibited' => cancelled \/ ~Running]_vars
  <2> SUFFICES ASSUME EInv, Next, inhibited, ~inhibited' PROVE cancelled \/ ~Running
    OBVIOUS
  <2>1. PortalActs
    BY DEF Next, Main, Drop, StartInhibition, Listen, SeeToken, RequestShutdown, Return, Exit, Cancel,
       SeeSignal, Die, Vanish, GracefulShutdown, DropCloser, DropInhibitor, Ask, GetReply, Lift,
       Lifted, Ended, vars, portal
  <2>2. wire \in Seq(Written) /\ wire # <<>>
    BY <2>1 DEF PortalActs, EInv, TypeOK, Written
  <2>3. 1 \in 1..Len(wire) /\ Head(wire) = wire[1] /\ wire[1] \in Written
    BY <2>2, TailKeeps
  <2>4. Head(wire) # "Inhibit"
    BY <2>1 DEF PortalActs
  <2> QED BY <2>3, <2>4 DEF EInv, WireInv, Written
<1> QED BY <1>1, InvCorrect, PTL DEF Spec, HeldUntilToken

-----------------------------------------------------------------------------
(* What is left of an inhibition when Init is gone: what InhibitionLifted  *)
(* needs beside the portal's reading its connection.                       *)

GoneIsNoticed ==
  ~Running => IF wire = <<>> THEN ~inhibited ELSE wire[Len(wire)] = "Disconnected"

LEMMA NoticedStep == TypeOK /\ GoneIsNoticed /\ [Next]_vars => GoneIsNoticed'
<1> SUFFICES ASSUME TypeOK, GoneIsNoticed, [Next]_vars PROVE GoneIsNoticed'
  OBVIOUS
<1>1. wire \in Seq(Written) /\ Len(wire) \in Nat
  BY DEF TypeOK, Written
<1>2. CASE Exit \/ Die
  <2>1. wire' = Append(wire, "Disconnected")
    BY <1>2 DEF Exit, Die, Vanish
  <2>2. wire' # <<>> /\ wire'[Len(wire')] = "Disconnected"
    BY <1>1, <2>1, AppendKeeps DEF Written
  <2> QED BY <2>2 DEF GoneIsNoticed
<1>3. CASE Ask \/ Lift
  BY <1>3 DEF Ask, Lift, GoneIsNoticed, Running
<1>4. CASE PortalActs
  <2>1. wire # <<>> /\ wire' = Tail(wire) /\ UNCHANGED main
    BY <1>4 DEF PortalActs
  <2>2. /\ Len(Tail(wire)) = Len(wire) - 1 /\ Len(wire) >= 1 /\ Head(wire) = wire[1]
        /\ Tail(wire) \in Seq(Written)
        /\ \A i \in 1..Len(Tail(wire)) : Tail(wire)[i] = wire[i + 1]
    BY <1>1, <2>1, TailKeeps
  <2>3. CASE Len(wire) = 1
    <3>1. Head(wire) = "Disconnected" => ~inhibited'
      BY <1>4 DEF PortalActs
    <3>2. Tail(wire) = <<>>
      <4>1. Len(Tail(wire)) = 0
        BY <2>2, <2>3
      <4>2. \A q \in Seq(Written) : q # <<>> => Len(q) \in Nat \ {0}
        BY EmptySeq, Zenon
      <4> QED BY <2>2, <4>1, <4>2
    <3> QED BY <2>1, <2>2, <2>3, <3>1, <3>2 DEF GoneIsNoticed, Running
  <2>4. CASE Len(wire) # 1
    <3>1. Len(Tail(wire)) \in 1..Len(Tail(wire)) /\ Tail(wire) # <<>>
      BY <1>1, <2>2, <2>4
    <3>2. Tail(wire)[Len(Tail(wire))] = wire[Len(wire)]
      BY <1>1, <2>2, <3>1
    <3> QED BY <2>1, <3>1, <3>2 DEF GoneIsNoticed, Running
  <2> QED BY <2>3, <2>4
<1>5. CASE \/ StartInhibition \/ Listen \/ SeeToken \/ RequestShutdown \/ Return \/ Cancel \/ SeeSignal
           \/ GracefulShutdown \/ Drop \/ GetReply \/ Lifted \/ Ended \/ UNCHANGED vars
  <2>1. UNCHANGED <<wire, inhibited>> /\ (Running' \/ UNCHANGED main)
    BY <1>5 DEF StartInhibition, Listen, SeeToken, RequestShutdown, Return, Cancel, SeeSignal,
       GracefulShutdown, Drop, DropCloser, DropInhibitor, GetReply, Lifted, Ended, vars, portal, Running
  <2> QED BY <2>1 DEF GoneIsNoticed, Running
<1> QED BY <1>2, <1>3, <1>4, <1>5 DEF Next, Main

\* However Init ends, and however far the inhibition task has come, the end of its
\* connection is the last the portal has to see of it; once that is seen, nothing is
\* inhibited. An Inhibit that is still unread comes before it and is undone.
THEOREM InhibitionsAreUndone == Spec => []GoneIsNoticed
<1>1. Init => TypeOK /\ GoneIsNoticed
  BY TypeInit DEF Init, GoneIsNoticed, Running
<1>2. TypeOK /\ GoneIsNoticed /\ [Next]_vars => (TypeOK /\ GoneIsNoticed)'
  BY TypeStep, NoticedStep
<1> QED BY <1>1, <1>2, PTL DEF Spec
=============================================================================
