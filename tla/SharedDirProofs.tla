---------------------------- MODULE SharedDirProofs ----------------------------
(***************************************************************************)
(* Proofs about SharedDir, for any files, names, requests and contents of  *)
(* the directory: where the links lead, that the replacer knows them, and  *)
(* what the cleaners remove and overlook.                                  *)
(***************************************************************************)
EXTENDS SharedDir, Naturals, TLAPS

-----------------------------------------------------------------------------
(* The invariant: each part is a property of the runs, made inductive.      *)

\* A cleaner that deals with a name has one.
AtName == \A c \in Request : cleaner[c] \in {"looking", "removing"} => at[c] \in Name

\* NeverAnotherFile, from the moment of the link and not of the map.
LeadsTo(f) == NameOf[f] \in Name /\ entry[NameOf[f]] = f
LinksLead ==
  /\ \A f \in mapped \ unlinked : LeadsTo(f)
  /\ \A r \in Request : \A f \in new[r] \ unlinked : LeadsTo(f)

\* Who has a cleaner has returned, so a cleaner is started once; and so has whoever
\* interfered by one.
Returned ==
  \A c \in Request :
    /\ cleaner[c] # "none" => pc[c] = "returned"
    /\ \A d \in window[c] : d # NoRequest => pc[d] = "returned"

\* RemovalJustified, from the moment a cleaner has seen that there is a link. After
\* another cleaner's removal only a request that has not returned can link again.
UntouchedIsBroken ==
  \A c \in Request : cleaner[c] \in {"looking", "removing"} =>
    /\ window[c] = {} =>
         /\ entry[at[c]] \in File
         /\ cleaner[c] = "removing" => entry[at[c]] \notin present
    /\ NoRequest \notin window[c] =>
         /\ entry[at[c]] # Own
         /\ window[c] # {} /\ entry[at[c]] # NoEntry =>
              maker[at[c]] \in Request \ (window[c] \cup {c})

\* NothingExpiredLeft, while someone still has to look at what is broken.
Expects(c, n) ==
  \/ cleaner[c] = "opening"
  \/ cleaner[c] \in {"scanning", "looking", "removing"} /\ n \in todo[c]
  \/ cleaner[c] \in {"looking", "removing"} /\ at[c] = n
BrokenIsExpected ==
  \A n \in Name : Broken(n) /\ n \notin fresh =>
    \/ \E r \in Request : pc[r] \in {"linking", "dropped"}
    \/ \E c \in Request : Expects(c, n)

IInv ==
  /\ TypeOK /\ AtName /\ Returned
  /\ LinksLead /\ LinkIsKnown /\ UntouchedIsBroken /\ BrokenIsExpected

LEMMA InitHolds == Init => IInv
<1> SUFFICES ASSUME Init PROVE IInv
  OBVIOUS
<1>1. TypeOK
  BY DEF Init, TypeOK, Leftovers
<1>2. AtName /\ Returned /\ LinksLead /\ UntouchedIsBroken
  BY DEF Init, AtName, Returned, LinksLead, UntouchedIsBroken
<1>3. LinkIsKnown /\ BrokenIsExpected
  BY DEF Init, LinkIsKnown, BrokenIsExpected
<1> QED BY <1>1, <1>2, <1>3 DEF IInv

-----------------------------------------------------------------------------
(* Types. *)

LEMMA StepTypes == TypeOK /\ AtName /\ [Next]_vars => TypeOK' /\ AtName'
<1> SUFFICES ASSUME TypeOK, AtName, [Next]_vars PROVE TypeOK' /\ AtName'
  OBVIOUS
<1> USE DEF TypeOK, AtName, disk, map, request, thread, history, Goto, Become
<1>1. ASSUME NEW r \in Request, Ask(r) \/ Choose(r) \/ CheckShared(r) \/ MakeShared(r) \/ Drop(r)
      PROVE  TypeOK' /\ AtName'
  <2>1. UNCHANGED <<present, entry, map, new, thread, history>> /\ shared' \in BOOLEAN
    BY <1>1 DEF Ask, Choose, CheckShared, MakeShared, Drop
  <2>2. pc' \in [Request -> {"idle", "choosing", "checking", "making", "linking",
                            "gaveup", "returned", "dropped"}]
    BY <1>1 DEF Ask, Choose, CheckShared, MakeShared, Drop
  <2>3. left' \in [Request -> SUBSET File]
    BY <1>1 DEF Ask, Choose, CheckShared, MakeShared, Drop
  <2> QED BY <2>1, <2>2, <2>3
<1>2. ASSUME NEW r \in Request, LinkOne(r) PROVE TypeOK' /\ AtName'
  <2>1. PICK f \in left[r] : /\ left' = [left EXCEPT ![r] = @ \ {f}]
                             /\ (PutLink(r, f) /\ UNCHANGED pc) \/ Skip(r, f)
    BY <1>2 DEF LinkOne
  <2>2. f \in File /\ UNCHANGED <<present, shared, map, thread, window, fresh>>
    BY <1>2, <2>1 DEF LinkOne
  <2> QED BY <2>1, <2>2, NameAssumption DEF PutLink, Skip
<1>3. ASSUME NEW r \in Request, AddMap(r) PROVE TypeOK' /\ AtName'
  BY <1>3 DEF AddMap
<1>4. ASSUME NEW c \in Request, OpenDir(c) \/ ReadEntryFails(c) \/ Inspect(c) \/ Look(c) \/ EndScan(c)
      PROVE  TypeOK' /\ AtName'
  BY <1>4 DEF OpenDir, ReadEntryFails, Inspect, Look, EndScan
<1>5. ASSUME NEW c \in Request, Remove(c) PROVE TypeOK' /\ AtName'
  <2>1. at[c] \in Name
    BY <1>5 DEF Remove
  <2> QED BY <1>5, <2>1 DEF Remove, Replace, Notes, KeepEntry
<1>6. CASE ReplacerReturns \/ (\E f \in File : Vanish(f) \/ Appear(f))
  <2>1. /\ UNCHANGED <<shared, entry, mapped, request, thread, maker, unlinked>>
        /\ present' \subseteq File /\ up' \in BOOLEAN /\ fresh' \subseteq Name
    BY <1>6 DEF ReplacerReturns, Vanish, Appear
  <2>2. window' \in [Request -> SUBSET (Request \cup {NoRequest})]
    BY <1>6 DEF ReplacerReturns, Vanish, Appear, Notes
  <2> QED BY <2>1, <2>2
<1>7. ASSUME NEW n \in Name, UseName(n) PROVE TypeOK' /\ AtName'
  BY <1>7 DEF UseName, Replace, Notes
<1>8. CASE UNCHANGED vars
  BY <1>8 DEF vars
<1> QED BY <1>1, <1>2, <1>3, <1>4, <1>5, <1>6, <1>7, <1>8 DEF Next, Serve, Clean, Ended

-----------------------------------------------------------------------------
(* The parts of the invariant, each over the steps that can disturb it.     *)

\* The one step that makes a link.
LEMMA LinkStep ==
  ASSUME TypeOK, NEW r \in Request, LinkOne(r)
  PROVE  /\ pc[r] = "linking" /\ UNCHANGED <<present, pc, up, mapped, cleaner, todo, at, window, fresh>>
         /\ \/ UNCHANGED <<entry, maker, unlinked, new>>
            \/ \E f \in File :
                 /\ NameOf[f] \in Name /\ entry[NameOf[f]] = NoEntry
                 /\ entry' = [entry EXCEPT ![NameOf[f]] = f]
                 /\ maker' = [maker EXCEPT ![NameOf[f]] = r]
                 /\ unlinked' = unlinked \ {f}
                 /\ new' = [new EXCEPT ![r] = @ \cup {f}]
<1>1. PICK f \in left[r] : (PutLink(r, f) /\ UNCHANGED pc) \/ Skip(r, f)
  BY DEF LinkOne
<1>2. f \in File /\ pc[r] = "linking" /\ UNCHANGED <<present, shared, map, thread, window, fresh>>
  BY DEF LinkOne, TypeOK
<1> QED BY <1>1, <1>2 DEF PutLink, Skip, map, thread

\* Steps of requests that touch no link.
LEMMA QuietStep ==
  ASSUME NEW r \in Request, Ask(r) \/ Choose(r) \/ CheckShared(r) \/ MakeShared(r) \/ Drop(r)
  PROVE  /\ UNCHANGED <<present, entry, up, mapped, new, cleaner, todo, at, maker, unlinked, window, fresh>>
         /\ \E where \in {"choosing", "returned", "checking", "linking", "making", "gaveup", "dropped"} :
              pc' = [pc EXCEPT ![r] = where]
         /\ pc[r] = "linking" => ~up /\ pc' = [pc EXCEPT ![r] = "dropped"]
         /\ pc[r] \notin {"dropped", "returned"}
BY DEF Ask, Choose, CheckShared, MakeShared, Drop, Goto, disk, map, thread, history

\* A cleaner's removal, and a program's use of a name.
LEMMA EntryStep ==
  ASSUME \/ \E c \in Request : Remove(c)
         \/ \E n \in Name : UseName(n)
  PROVE  /\ UNCHANGED <<present, up, mapped, pc, new>>
         /\ \/ UNCHANGED <<entry, maker, unlinked>>
            \/ \E n, e : /\ Replace(n, e) /\ e \in {Own, NoEntry}
BY DEF Remove, UseName, KeepEntry, map, request

\* Steps that leave the links and what is known of them.
LEMMA OtherStep ==
  ASSUME \/ \E c \in Request : OpenDir(c) \/ ReadEntryFails(c) \/ Inspect(c) \/ Look(c) \/ EndScan(c)
         \/ ReplacerReturns \/ \E f \in File : Vanish(f) \/ Appear(f)
         \/ UNCHANGED vars
  PROVE  UNCHANGED <<entry, mapped, pc, new, maker, unlinked>> /\ (up' => up)
<1> USE DEF OpenDir, ReadEntryFails, Inspect, Look, EndScan, ReplacerReturns, Vanish, Appear, vars,
            disk, map, request, history
<1>1. UNCHANGED <<entry, mapped, pc, new, maker, unlinked>>
  OBVIOUS
<1>2. UNCHANGED up \/ (up /\ up' = FALSE)
  OBVIOUS
<1> QED BY <1>1, <1>2

LEMMA NextCases ==
  ASSUME [Next]_vars
  PROVE  \/ \E r \in Request : Ask(r) \/ Choose(r) \/ CheckShared(r) \/ MakeShared(r) \/ Drop(r)
         \/ \E r \in Request : LinkOne(r)
         \/ \E r \in Request : AddMap(r)
         \/ \E c \in Request : Remove(c)
         \/ \E n \in Name : UseName(n)
         \/ \E c \in Request : OpenDir(c) \/ ReadEntryFails(c) \/ Inspect(c) \/ Look(c) \/ EndScan(c)
         \/ ReplacerReturns \/ \E f \in File : Vanish(f) \/ Appear(f)
         \/ UNCHANGED vars
<1>1. ASSUME NEW r \in Request, Ask(r) \/ Choose(r) \/ Serve(r) \/ Drop(r) \/ Clean(r)
      PROVE  \/ Ask(r) \/ Choose(r) \/ CheckShared(r) \/ MakeShared(r) \/ Drop(r)
             \/ LinkOne(r) \/ AddMap(r) \/ Remove(r)
             \/ OpenDir(r) \/ ReadEntryFails(r) \/ Inspect(r) \/ Look(r) \/ EndScan(r)
  BY <1>1 DEF Serve, Clean
<1>2. CASE \E r \in Request : Ask(r) \/ Choose(r) \/ Serve(r) \/ Drop(r) \/ Clean(r)
  BY <1>1, <1>2
<1>3. CASE ~\E r \in Request : Ask(r) \/ Choose(r) \/ Serve(r) \/ Drop(r) \/ Clean(r)
  BY <1>3 DEF Next, Ended
<1> QED BY <1>2, <1>3

LEMMA LinksStay == TypeOK /\ LinksLead /\ [Next]_vars => LinksLead'
<1> SUFFICES ASSUME TypeOK, LinksLead, [Next]_vars PROVE LinksLead'
  OBVIOUS
<1>1. /\ DOMAIN entry = Name /\ DOMAIN new = Request /\ mapped \subseteq File
      /\ \A r \in Request : new[r] \subseteq File
  BY DEF TypeOK
<1>2. CASE UNCHANGED <<entry, unlinked, new, mapped>>
  BY <1>2 DEF LinksLead, LeadsTo
<1>3. ASSUME NEW r \in Request, LinkOne(r) PROVE LinksLead'
  <2>1. UNCHANGED mapped
    BY <1>3, LinkStep
  <2>2. ASSUME NEW f \in File, NameOf[f] \in Name, entry[NameOf[f]] = NoEntry,
               entry' = [entry EXCEPT ![NameOf[f]] = f], unlinked' = unlinked \ {f},
               new' = [new EXCEPT ![r] = @ \cup {f}]
        PROVE  LinksLead'
    <3>1. LeadsTo(f)'
      BY <1>1, <2>2 DEF LeadsTo
    <3>2. \A g \in File : LeadsTo(g) => LeadsTo(g)'
      BY <1>1, <2>2, NameAssumption DEF LeadsTo
    <3> QED BY <1>1, <2>1, <2>2, <3>1, <3>2 DEF LinksLead
  <2> QED BY <1>2, <1>3, <2>1, <2>2, LinkStep
<1>4. ASSUME NEW r \in Request, AddMap(r) PROVE LinksLead'
  <2>1. mapped' \subseteq mapped \cup new[r] /\ UNCHANGED <<entry, new, unlinked>>
    BY <1>4 DEF AddMap, disk
  <2> QED BY <2>1 DEF LinksLead, LeadsTo
<1>5. CASE (\E c \in Request : Remove(c)) \/ (\E n \in Name : UseName(n))
  <2>1. UNCHANGED <<mapped, new>>
    BY <1>5, EntryStep
  <2>2. ASSUME NEW n, NEW e, Replace(n, e) PROVE LinksLead'
    <3>1. \A g \in File : LeadsTo(g) => LeadsTo(g)' \/ g \in unlinked'
      BY <1>1, <2>2 DEF Replace, LeadsTo
    <3>2. unlinked \subseteq unlinked'
      BY <2>2 DEF Replace
    <3> QED BY <1>1, <2>1, <3>1, <3>2 DEF LinksLead
  <2> QED BY <1>2, <1>5, <2>1, <2>2, EntryStep
<1>6. ASSUME NEW r \in Request, Ask(r) \/ Choose(r) \/ CheckShared(r) \/ MakeShared(r) \/ Drop(r)
      PROVE  LinksLead'
  BY <1>2, <1>6, QuietStep
<1> QED BY <1>2, <1>3, <1>4, <1>5, <1>6, NextCases, OtherStep

LEMMA LinksKnown == TypeOK /\ LinkIsKnown /\ [Next]_vars => LinkIsKnown'
<1> SUFFICES ASSUME TypeOK, LinkIsKnown, [Next]_vars PROVE LinkIsKnown'
  OBVIOUS
<1>1. /\ DOMAIN entry = Name /\ DOMAIN new = Request /\ DOMAIN pc = Request /\ DOMAIN maker = Name
      /\ \A n \in Name : maker[n] # NoRequest => maker[n] \in Request
  BY DEF TypeOK
<1>2. CASE UNCHANGED <<entry, mapped, pc, new, maker>> /\ (up' => up)
  BY <1>2 DEF LinkIsKnown
<1>3. ASSUME NEW r \in Request, LinkOne(r) PROVE LinkIsKnown'
  <2>1. pc[r] = "linking" /\ UNCHANGED <<mapped, pc, up>>
    BY <1>3, LinkStep
  <2>2. ASSUME NEW f \in File, NameOf[f] \in Name, entry' = [entry EXCEPT ![NameOf[f]] = f],
               maker' = [maker EXCEPT ![NameOf[f]] = r], new' = [new EXCEPT ![r] = @ \cup {f}]
        PROVE  LinkIsKnown'
    BY <1>1, <2>1, <2>2 DEF LinkIsKnown
  <2> QED BY <1>2, <1>3, <2>1, <2>2, LinkStep
<1>4. ASSUME NEW r \in Request, AddMap(r) PROVE LinkIsKnown'
  <2>1. /\ mapped' = IF up THEN mapped \cup new[r] ELSE mapped
        /\ UNCHANGED <<entry, new, maker, up>> /\ \A q \in Request \ {r} : pc'[q] = pc[q]
    BY <1>1, <1>4 DEF AddMap, Goto, disk
  <2> QED BY <1>1, <2>1 DEF LinkIsKnown
<1>5. CASE (\E c \in Request : Remove(c)) \/ (\E n \in Name : UseName(n))
  <2>1. UNCHANGED <<mapped, new, pc, up>>
    BY <1>5, EntryStep
  <2>2. ASSUME NEW n, NEW e, Replace(n, e) PROVE LinkIsKnown'
    <3>1. \A k \in Name : maker'[k] # NoRequest => maker'[k] = maker[k] /\ entry'[k] = entry[k]
      BY <1>1, <2>2, NameAssumption DEF Replace
    <3> QED BY <2>1, <3>1 DEF LinkIsKnown
  <2> QED BY <1>2, <1>5, <2>1, <2>2, EntryStep
<1>6. ASSUME NEW r \in Request, Ask(r) \/ Choose(r) \/ CheckShared(r) \/ MakeShared(r) \/ Drop(r)
      PROVE  LinkIsKnown'
  <2>1. UNCHANGED <<entry, mapped, new, maker, up>>
    BY <1>6, QuietStep
  <2>2. pc[r] = "linking" => ~up
    BY <1>6, QuietStep
  <2>3. \A q \in Request \ {r} : pc'[q] = pc[q]
    BY <1>1, <1>6, QuietStep
  <2> QED BY <1>1, <2>1, <2>2, <2>3 DEF LinkIsKnown
<1> QED BY <1>2, <1>3, <1>4, <1>5, <1>6, NextCases, OtherStep

\* How the steps move a cleaner and what they note for it.
LEMMA ReturnedStays == TypeOK /\ Returned /\ [Next]_vars => Returned'
<1> SUFFICES ASSUME TypeOK, Returned, [Next]_vars PROVE Returned'
  OBVIOUS
<1>1. /\ DOMAIN cleaner = Request /\ DOMAIN window = Request /\ DOMAIN pc = Request
      /\ \A c \in Request : \A d \in window[c] : d \in Request \cup {NoRequest}
  BY DEF TypeOK
<1>2. CASE UNCHANGED <<cleaner, window, pc>>
  BY <1>2 DEF Returned
<1>3. ASSUME NEW r \in Request, AddMap(r) PROVE Returned'
  <2>1. /\ UNCHANGED window /\ pc' = [pc EXCEPT ![r] = "returned"]
        /\ \A c \in Request \ {r} : cleaner'[c] = cleaner[c]
    BY <1>1, <1>3 DEF AddMap, Goto
  <2> QED BY <1>1, <2>1 DEF Returned
<1>4. ASSUME NEW r \in Request, Ask(r) \/ Choose(r) \/ CheckShared(r) \/ MakeShared(r) \/ Drop(r)
      PROVE  Returned'
  <2>1. /\ UNCHANGED <<cleaner, window>> /\ pc[r] # "returned"
        /\ \A q \in Request \ {r} : pc'[q] = pc[q]
    BY <1>1, <1>4, QuietStep
  <2> QED BY <1>1, <2>1 DEF Returned
<1>5. ASSUME UNCHANGED pc,
             NEW c \in Request, cleaner[c] # "none",
             \A d \in Request \ {c} : cleaner'[d] = cleaner[d],
             \A d \in Request : \A e \in window'[d] : e \in window[d] \cup {c, NoRequest}
      PROVE  Returned'
  BY <1>1, <1>5 DEF Returned
<1>6. ASSUME NEW c \in Request,
             OpenDir(c) \/ ReadEntryFails(c) \/ Inspect(c) \/ Look(c) \/ EndScan(c)
      PROVE  Returned'
  <2>1. UNCHANGED pc /\ cleaner[c] # "none" /\ \A d \in Request \ {c} : cleaner'[d] = cleaner[d]
    BY <1>1, <1>6 DEF OpenDir, ReadEntryFails, Inspect, Look, EndScan, Become, request
  <2>2. \A d \in Request : \A e \in window'[d] : e \in window[d] \cup {c, NoRequest}
    BY <1>1, <1>6 DEF OpenDir, ReadEntryFails, Inspect, Look, EndScan, history
  <2> QED BY <1>5, <2>1, <2>2
<1>7. ASSUME NEW c \in Request, Remove(c) PROVE Returned'
  <2>1. /\ UNCHANGED pc /\ cleaner[c] # "none"
        /\ \A d \in Request \ {c} : cleaner'[d] = cleaner[d]
    BY <1>1, <1>7 DEF Remove, KeepEntry, Become, request
  <2>2. \A d \in Request : \A e \in window'[d] : e \in window[d] \cup {c, NoRequest}
    BY <1>1, <1>7 DEF Remove, Notes
  <2> QED BY <1>5, <2>1, <2>2
<1>8. CASE (\E n \in Name : UseName(n)) \/ (\E f \in File : Vanish(f) \/ Appear(f))
  <2>1. UNCHANGED <<pc, cleaner>>
    BY <1>8 DEF UseName, Vanish, Appear, request, thread
  <2>2. \A d \in Request : \A e \in window'[d] : e \in window[d] \cup {NoRequest}
    BY <1>8 DEF UseName, Vanish, Appear, Notes
  <2> QED BY <1>1, <2>1, <2>2 DEF Returned
<1>9. CASE (\E r \in Request : LinkOne(r)) \/ ReplacerReturns \/ UNCHANGED vars
  BY <1>2, <1>9, LinkStep DEF ReplacerReturns, vars, request, thread, history
<1> QED BY <1>3, <1>4, <1>6, <1>7, <1>8, <1>9, NextCases

LEMMA UntouchedStays ==
  TypeOK /\ AtName /\ Returned /\ UntouchedIsBroken /\ [Next]_vars => UntouchedIsBroken'
<1> SUFFICES ASSUME TypeOK, AtName, Returned, UntouchedIsBroken, [Next]_vars
             PROVE  UntouchedIsBroken'
  OBVIOUS
<1>1. /\ DOMAIN entry = Name /\ DOMAIN cleaner = Request /\ DOMAIN window = Request
      /\ DOMAIN at = Request /\ DOMAIN maker = Name /\ present \subseteq File
      /\ NoEntry \notin File /\ Own \notin File /\ NoEntry # Own /\ NoRequest \notin Request
      /\ \A c \in Request : cleaner[c] \in {"looking", "removing"} => at[c] \in Name
  BY NameAssumption DEF TypeOK, AtName
<1>2. CASE UNCHANGED <<present, entry, maker, cleaner, at, window>>
  BY <1>2 DEF UntouchedIsBroken
<1>3. ASSUME NEW r \in Request, LinkOne(r) PROVE UntouchedIsBroken'
  <2>1. pc[r] = "linking" /\ UNCHANGED <<present, cleaner, at, window>>
    BY <1>3, LinkStep
  <2>2. ASSUME NEW f \in File, NameOf[f] \in Name, entry[NameOf[f]] = NoEntry,
               entry' = [entry EXCEPT ![NameOf[f]] = f],
               maker' = [maker EXCEPT ![NameOf[f]] = r]
        PROVE  UntouchedIsBroken'
    <3>1. \A c \in Request : cleaner[c] \in {"looking", "removing"} =>
            r # c /\ (NoRequest \notin window[c] => r \notin window[c])
      BY <2>1 DEF Returned
    <3>2. \A c \in Request : cleaner[c] \in {"looking", "removing"} /\ at[c] # NameOf[f] =>
            entry'[at[c]] = entry[at[c]] /\ maker'[at[c]] = maker[at[c]]
      BY <1>1, <2>2
    <3>3. entry'[NameOf[f]] = f /\ maker'[NameOf[f]] = r /\ f # Own
      BY <1>1, <2>2
    <3> QED BY <1>1, <2>1, <2>2, <3>1, <3>2, <3>3 DEF UntouchedIsBroken
  <2> QED BY <1>2, <1>3, <2>1, <2>2, LinkStep
<1>4. ASSUME NEW r \in Request, AddMap(r) PROVE UntouchedIsBroken'
  <2>1. /\ UNCHANGED <<present, entry, maker, at, window>>
        /\ cleaner' = [cleaner EXCEPT ![r] = "opening"] \/ cleaner' = [cleaner EXCEPT ![r] = "over"]
    BY <1>4 DEF AddMap, disk
  <2> QED BY <1>1, <2>1 DEF UntouchedIsBroken
<1>5. ASSUME NEW c \in Request, OpenDir(c) \/ ReadEntryFails(c) \/ EndScan(c)
      PROVE  UntouchedIsBroken'
  <2>1. /\ UNCHANGED <<present, entry, maker, at, window>>
        /\ \/ cleaner' = [cleaner EXCEPT ![c] = "scanning"] \/ UNCHANGED cleaner
           \/ cleaner' = [cleaner EXCEPT ![c] = "over"]
    BY <1>5 DEF OpenDir, ReadEntryFails, EndScan, Become, disk, history
  <2> QED BY <1>1, <2>1 DEF UntouchedIsBroken
<1>6. ASSUME NEW c \in Request, Inspect(c) PROVE UntouchedIsBroken'
  <2>1. PICK n \in todo[c] :
          \/ /\ entry[n] \in File
             /\ cleaner' = [cleaner EXCEPT ![c] = "looking"] /\ at' = [at EXCEPT ![c] = n]
          \/ UNCHANGED <<cleaner, at>>
    BY <1>6 DEF Inspect, Become
  <2>2. /\ cleaner[c] = "scanning" /\ UNCHANGED <<present, entry, maker>>
        /\ window' = [window EXCEPT ![c] = {}]
    BY <1>6 DEF Inspect, disk
  <2>3. \A d \in Request \ {c} : cleaner'[d] = cleaner[d] /\ at'[d] = at[d] /\ window'[d] = window[d]
    BY <1>1, <2>1, <2>2
  <2>4. /\ window'[c] = {} /\ cleaner'[c] # "removing"
        /\ cleaner'[c] = "looking" => entry[at'[c]] \in File
    BY <1>1, <2>1, <2>2
  <2> QED BY <1>1, <2>2, <2>3, <2>4 DEF UntouchedIsBroken
<1>7. ASSUME NEW c \in Request, Look(c) PROVE UntouchedIsBroken'
  <2>1. /\ cleaner[c] = "looking" /\ UNCHANGED <<present, entry, maker, at>>
        /\ \A d \in Request \ {c} : cleaner'[d] = cleaner[d] /\ window'[d] = window[d]
    BY <1>1, <1>7 DEF Look, Become, disk
  <2>2. \/ cleaner'[c] = "scanning"
        \/ cleaner'[c] = "removing" /\ NoRequest \in window'[c]
        \/ cleaner'[c] = "removing" /\ window'[c] = window[c] /\ ~Works(at[c])
    BY <1>1, <1>7 DEF Look, Become
  <2> QED BY <1>1, <2>1, <2>2 DEF UntouchedIsBroken, Works
<1>8. ASSUME NEW c \in Request, Remove(c) PROVE UntouchedIsBroken'
  <2>1. cleaner' = [cleaner EXCEPT ![c] = "scanning"] /\ UNCHANGED <<present, at>>
    BY <1>8 DEF Remove, KeepEntry, Become
  <2>2. \/ UNCHANGED <<entry, maker, window>>
        \/ /\ entry' = [entry EXCEPT ![at[c]] = NoEntry]
           /\ maker' = [maker EXCEPT ![at[c]] = NoRequest]
           /\ window' = [d \in Request |-> IF d \in Removing(at[c]) \ {c}
                                              THEN window[d] \cup {c} ELSE window[d]]
    BY <1>8 DEF Remove, Replace, Notes
  <2>3. CASE UNCHANGED <<entry, maker, window>>
    BY <1>1, <2>1, <2>3 DEF UntouchedIsBroken
  <2>4. CASE /\ entry' = [entry EXCEPT ![at[c]] = NoEntry]
             /\ maker' = [maker EXCEPT ![at[c]] = NoRequest]
             /\ window' = [d \in Request |-> IF d \in Removing(at[c]) \ {c}
                                                THEN window[d] \cup {c} ELSE window[d]]
    <3> SUFFICES ASSUME NEW d \in Request, cleaner'[d] \in {"looking", "removing"}
                 PROVE  /\ window'[d] = {} =>
                             /\ entry'[at[d]] \in File
                             /\ cleaner'[d] = "removing" => entry'[at[d]] \notin present
                        /\ NoRequest \notin window'[d] =>
                             /\ entry'[at[d]] # Own
                             /\ window'[d] # {} /\ entry'[at[d]] # NoEntry =>
                                  maker'[at[d]] \in Request \ (window'[d] \cup {d})
      BY <2>1 DEF UntouchedIsBroken
    <3>1. d # c /\ cleaner'[d] = cleaner[d] /\ at[d] \in Name
      BY <1>1, <2>1
    <3>2. CASE at[d] = at[c]
      BY <1>1, <2>1, <2>4, <3>1, <3>2 DEF UntouchedIsBroken, Removing
    <3>3. CASE at[d] # at[c]
      <4>1. /\ entry'[at[d]] = entry[at[d]] /\ maker'[at[d]] = maker[at[d]]
            /\ window'[d] = window[d]
        BY <1>1, <2>4, <3>1, <3>3 DEF Removing
      <4> QED BY <3>1, <4>1 DEF UntouchedIsBroken
    <3> QED BY <3>2, <3>3
  <2> QED BY <2>2, <2>3, <2>4
<1>9. ASSUME NEW n \in Name, UseName(n) PROVE UntouchedIsBroken'
  <2>1. PICK e : /\ entry' = [entry EXCEPT ![n] = e]
                 /\ maker' = [maker EXCEPT ![n] = NoRequest]
    BY <1>9 DEF UseName, Replace
  <2>2. /\ window' = [d \in Request |-> IF d \in Removing(n)
                                           THEN window[d] \cup {NoRequest} ELSE window[d]]
        /\ UNCHANGED <<present, cleaner, at>>
    BY <1>9 DEF UseName, Notes, thread
  <2>3. ASSUME NEW d \in Request, cleaner[d] \in {"looking", "removing"}
        PROVE  \/ NoRequest \in window'[d]
               \/ /\ entry'[at[d]] = entry[at[d]] /\ maker'[at[d]] = maker[at[d]]
                  /\ window'[d] = window[d]
    BY <1>1, <2>1, <2>2, <2>3 DEF Removing
  <2> QED BY <2>2, <2>3 DEF UntouchedIsBroken
<1>10. ASSUME NEW f \in File, Vanish(f) PROVE UntouchedIsBroken'
  <2>1. present' \subseteq present /\ UNCHANGED <<entry, maker, cleaner, at, window>>
    BY <1>10 DEF Vanish, thread
  <2> QED BY <2>1 DEF UntouchedIsBroken
<1>11. ASSUME NEW f \in File, Appear(f) PROVE UntouchedIsBroken'
  <2>1. /\ present' = present \cup {f} /\ UNCHANGED <<entry, maker, cleaner, at>>
        /\ window' = [d \in Request |-> IF cleaner[d] = "removing" /\ entry[at[d]] = f
                                           THEN window[d] \cup {NoRequest} ELSE window[d]]
    BY <1>11 DEF Appear, Notes, thread
  <2> QED BY <1>1, <2>1 DEF UntouchedIsBroken
<1>12. ASSUME NEW r \in Request, Ask(r) \/ Choose(r) \/ CheckShared(r) \/ MakeShared(r) \/ Drop(r)
       PROVE  UntouchedIsBroken'
  BY <1>2, <1>12, QuietStep
<1>13. CASE ReplacerReturns \/ UNCHANGED vars
  BY <1>2, <1>13 DEF ReplacerReturns, vars, disk, thread, history
<1> QED BY <1>3, <1>4, <1>5, <1>6, <1>7, <1>8, <1>9, <1>10, <1>11, <1>12, <1>13, NextCases

\* Who expects a name goes on expecting it until it is looked at.
LEMMA ExpectationStays ==
  TypeOK /\ AtName /\ BrokenIsExpected /\ [Next]_vars => BrokenIsExpected'
<1> SUFFICES ASSUME TypeOK, AtName, BrokenIsExpected, [Next]_vars PROVE BrokenIsExpected'
  OBVIOUS
<1>1. /\ DOMAIN entry = Name /\ DOMAIN cleaner = Request /\ DOMAIN todo = Request
      /\ DOMAIN at = Request /\ DOMAIN pc = Request
      /\ NoEntry \notin File /\ Own \notin File
      /\ \A c \in Request : cleaner[c] \in {"looking", "removing"} => at[c] \in Name
  BY NameAssumption DEF TypeOK, AtName
<1>2. ASSUME UNCHANGED <<cleaner, todo, at>>,
             \A r \in Request : pc[r] \in {"linking", "dropped"} => pc'[r] \in {"linking", "dropped"},
             \A n \in Name : Broken(n)' /\ n \notin fresh' => Broken(n) /\ n \notin fresh
      PROVE  BrokenIsExpected'
  BY <1>2 DEF BrokenIsExpected, Expects
<1>3. ASSUME NEW r \in Request, LinkOne(r) PROVE BrokenIsExpected'
  BY <1>3, LinkStep DEF BrokenIsExpected
<1>4. ASSUME NEW r \in Request, AddMap(r) PROVE BrokenIsExpected'
  BY <1>1, <1>4 DEF AddMap, BrokenIsExpected, Expects
<1>5. ASSUME NEW c \in Request, UNCHANGED <<present, entry, pc>>,
             \A d \in Request \ {c} : cleaner'[d] = cleaner[d] /\ todo'[d] = todo[d] /\ at'[d] = at[d],
             \A n \in Name : Broken(n) =>
               /\ n \notin fresh' /\ n \in fresh => Expects(c, n)'
               /\ Expects(c, n) => Expects(c, n)' \/ n \in fresh'
      PROVE  BrokenIsExpected'
  <2>1. \A n \in Name : Broken(n)' <=> Broken(n)
    BY <1>5 DEF Broken
  <2>2. \A d \in Request \ {c}, n \in Name : Expects(d, n) => Expects(d, n)'
    BY <1>5 DEF Expects
  <2> QED BY <1>5, <2>1, <2>2 DEF BrokenIsExpected
<1>6. ASSUME NEW c \in Request, OpenDir(c) PROVE BrokenIsExpected'
  <2>1. UNCHANGED <<present, entry, pc, at>>
    BY <1>6 DEF OpenDir, disk, request
  <2>2. \A d \in Request \ {c} : cleaner'[d] = cleaner[d] /\ todo'[d] = todo[d]
    BY <1>1, <1>6 DEF OpenDir, Become
  <2>3. fresh' = Name \/ (fresh' = fresh /\ \A n \in Name : Broken(n) => Expects(c, n)')
    BY <1>1, <1>6 DEF OpenDir, Become, Broken, Expects
  <2> QED BY <1>5, <2>1, <2>2, <2>3
<1>7. ASSUME NEW c \in Request, Inspect(c) PROVE BrokenIsExpected'
  <2>1. PICK n \in todo[c] :
          /\ todo' = [todo EXCEPT ![c] = @ \ {n}]
          /\ \/ /\ cleaner' = [cleaner EXCEPT ![c] = "looking"] /\ at' = [at EXCEPT ![c] = n]
                /\ UNCHANGED fresh
             \/ entry[n] \notin File /\ UNCHANGED <<cleaner, at, fresh>>
             \/ fresh' = fresh \cup {n} /\ UNCHANGED <<cleaner, at>>
    BY <1>7 DEF Inspect, Become
  <2>2. cleaner[c] = "scanning" /\ UNCHANGED <<present, entry, pc>>
    BY <1>7 DEF Inspect, disk, request
  <2>3. \A d \in Request \ {c} : cleaner'[d] = cleaner[d] /\ todo'[d] = todo[d] /\ at'[d] = at[d]
    BY <1>1, <2>1
  <2>4. /\ todo'[c] = todo[c] \ {n} /\ fresh \subseteq fresh'
        /\ \/ cleaner'[c] = "looking" /\ at'[c] = n
           \/ cleaner'[c] = "scanning" /\ (entry[n] \notin File \/ n \in fresh')
    BY <1>1, <2>1, <2>2
  <2>5. \A k \in Name : Broken(k) /\ Expects(c, k) => Expects(c, k)' \/ k \in fresh'
    BY <2>2, <2>4 DEF Broken, Expects
  <2> QED BY <1>5, <2>2, <2>3, <2>4, <2>5
<1>8. ASSUME NEW c \in Request, Look(c) PROVE BrokenIsExpected'
  <2>1. /\ cleaner[c] = "looking" /\ UNCHANGED <<present, entry, pc, todo, at>>
        /\ \/ Works(at[c]) /\ cleaner' = [cleaner EXCEPT ![c] = "scanning"]
           \/ cleaner' = [cleaner EXCEPT ![c] = "removing"]
        /\ fresh' = fresh \ {at[c]}
    BY <1>8 DEF Look, Become, disk, request
  <2>2. \A d \in Request \ {c} : cleaner'[d] = cleaner[d]
    BY <1>1, <2>1
  <2>3. Broken(at[c]) => ~Works(at[c])
    BY <1>1 DEF Broken, Works
  <2>4. \A k \in Name : Broken(k) => /\ Expects(c, k) => Expects(c, k)'
                                     /\ k = at[c] => Expects(c, k)'
    BY <1>1, <2>1, <2>3 DEF Expects
  <2>5. \A k \in Name : Broken(k) => /\ k \notin fresh' /\ k \in fresh => Expects(c, k)'
                                     /\ Expects(c, k) => Expects(c, k)' \/ k \in fresh'
    BY <2>1, <2>4
  <2>6. \A d \in Request \ {c} : cleaner'[d] = cleaner[d] /\ todo'[d] = todo[d] /\ at'[d] = at[d]
    BY <2>1, <2>2
  <2> QED BY <1>5, <2>1, <2>5, <2>6
<1>9. ASSUME NEW c \in Request, EndScan(c) PROVE BrokenIsExpected'
  <2>1. /\ cleaner[c] = "scanning" /\ todo[c] = {} /\ UNCHANGED <<present, entry, pc, todo, at, fresh>>
        /\ \A d \in Request \ {c} : cleaner'[d] = cleaner[d]
    BY <1>1, <1>9 DEF EndScan, Become, disk, request, history
  <2>2. \A k \in Name : ~Expects(c, k)
    BY <2>1 DEF Expects
  <2> QED BY <1>5, <2>1, <2>2
<1>10. ASSUME NEW c \in Request, Remove(c) PROVE BrokenIsExpected'
  <2>1. /\ cleaner[c] = "removing" /\ cleaner' = [cleaner EXCEPT ![c] = "scanning"]
        /\ UNCHANGED <<present, pc, todo, at>>
    BY <1>10 DEF Remove, KeepEntry, Become, request
  <2>2. \/ entry' = [entry EXCEPT ![at[c]] = NoEntry] /\ UNCHANGED fresh
        \/ UNCHANGED entry /\ fresh' = fresh \cup {at[c]}
    BY <1>10 DEF Remove, Replace, KeepEntry
  <2>3. \A k \in Name : Broken(k)' /\ k \notin fresh' => Broken(k) /\ k \notin fresh /\ k # at[c]
    BY <1>1, <2>1, <2>2 DEF Broken
  <2>4. \A d \in Request, k \in Name : Expects(d, k) /\ k # at[c] => Expects(d, k)'
    BY <1>1, <2>1 DEF Expects
  <2> QED BY <2>1, <2>3, <2>4 DEF BrokenIsExpected
<1>11. ASSUME NEW n \in Name, UseName(n) PROVE BrokenIsExpected'
  <2>1. /\ \E e \in {Own, NoEntry} : entry' = [entry EXCEPT ![n] = e]
        /\ UNCHANGED <<present, pc, cleaner, todo, at, fresh>>
    BY <1>11 DEF UseName, Replace, request, thread
  <2>2. \A k \in Name : Broken(k)' => Broken(k)
    BY <1>1, <2>1 DEF Broken
  <2> QED BY <1>2, <2>1, <2>2
<1>12. ASSUME NEW f \in File, Vanish(f) \/ Appear(f) PROVE BrokenIsExpected'
  <2>1. UNCHANGED <<entry, pc, cleaner, todo, at>>
    BY <1>12 DEF Vanish, Appear, request, thread
  <2>2. \A k \in Name : Broken(k)' /\ k \notin fresh' => Broken(k) /\ k \notin fresh
    BY <1>12 DEF Vanish, Appear, Broken
  <2> QED BY <1>2, <2>1, <2>2
<1>13. ASSUME NEW r \in Request, Ask(r) \/ Choose(r) \/ CheckShared(r) \/ MakeShared(r) \/ Drop(r)
       PROVE  BrokenIsExpected'
  <2>1. UNCHANGED <<present, entry, cleaner, todo, at, fresh>>
    BY <1>13, QuietStep
  <2>2. \A q \in Request : pc[q] \in {"linking", "dropped"} => pc'[q] \in {"linking", "dropped"}
    BY <1>1, <1>13, QuietStep
  <2> QED BY <1>2, <2>1, <2>2 DEF Broken
<1>14. CASE ReplacerReturns \/ UNCHANGED vars
  <2>1. UNCHANGED <<present, entry, pc, cleaner, todo, at, fresh>>
    BY <1>14 DEF ReplacerReturns, vars, disk, request, thread, history
  <2> QED BY <1>2, <2>1 DEF Broken
<1>15. ASSUME NEW c \in Request, ReadEntryFails(c) PROVE BrokenIsExpected'
  <2>1. /\ cleaner[c] = "scanning" /\ fresh' = fresh \cup todo[c]
        /\ UNCHANGED <<present, entry, pc, cleaner, at>>
        /\ \A d \in Request \ {c} : todo'[d] = todo[d]
    BY <1>1, <1>15 DEF ReadEntryFails, disk, request
  <2>2. \A k \in Name : Expects(c, k) => k \in fresh'
    BY <2>1 DEF Expects
  <2> QED BY <1>5, <2>1, <2>2
<1> QED
  BY <1>3, <1>4, <1>6, <1>7, <1>8, <1>9, <1>10, <1>11, <1>12, <1>13, <1>14, <1>15, NextCases

LEMMA StepHolds == IInv /\ [Next]_vars => IInv'
BY StepTypes, ReturnedStays, LinksStay, LinksKnown, UntouchedStays, ExpectationStays DEF IInv

-----------------------------------------------------------------------------
\* Every variable keeps its type.
THEOREM TypeCorrect == Spec => []TypeOK
<1>1. IInv => TypeOK
  BY DEF IInv
<1> QED BY <1>1, InitHolds, StepHolds, PTL DEF Spec

\* No mapped path leads to another file (NeverAnotherFile).
THEOREM NeverAnother == Spec => []NeverAnotherFile
<1>1. IInv => NeverAnotherFile
  BY DEF IInv, LinksLead, LeadsTo, NeverAnotherFile
<1> QED BY <1>1, InitHolds, StepHolds, PTL DEF Spec

\* The replacer learns of every link that is made while it receives (LinkIsKnown).
THEOREM LinksAreKnown == Spec => []LinkIsKnown
<1>1. IInv => LinkIsKnown
  BY DEF IInv
<1> QED BY <1>1, InitHolds, StepHolds, PTL DEF Spec

\* A cleaner removes a link that works only where someone outside Init has interfered,
\* or where another cleaner has removed a link of that name before and a request that
\* has neither of the two cleaners has linked it again (RemovalJustified): with any
\* number of requests it takes three of them to lose a link.
THEOREM RemovalsJustified == Spec => []RemovalJustified
<1>1. IInv => RemovalJustified
  <2> SUFFICES ASSUME IInv, NEW c \in Request, cleaner[c] = "removing", Works(at[c]),
                      NoRequest \notin window[c]
               PROVE  window[c] # {} /\ maker[at[c]] \in Request \ (window[c] \cup {c})
    BY DEF RemovalJustified
  <2>1. NoEntry \notin File /\ Own \notin File /\ NoEntry # Own /\ present \subseteq File
    BY NameAssumption DEF IInv, TypeOK
  <2> QED BY <2>1 DEF IInv, UntouchedIsBroken, Works
<1> QED BY <1>1, InitHolds, StepHolds, PTL DEF Spec

\* What is broken when all is quiet broke after the last cleaner looked, or a cleaner
\* failed at it (NothingExpiredLeft): no interleaving of scans, requests and removals
\* makes a broken link escape them.
THEOREM NothingExpired == Spec => []NothingExpiredLeft
<1>1. IInv => NothingExpiredLeft
  BY DEF IInv, BrokenIsExpected, Expects, NothingExpiredLeft
<1> QED BY <1>1, InitHolds, StepHolds, PTL DEF Spec

-----------------------------------------------------------------------------
(* Requests and cleaners only ever go forward: what Settles needs beside   *)
(* their being scheduled.                                                  *)

\* How far a request and a cleaner still have to go, the number of each phase.
RequestPhase(r) ==
  CASE pc[r] = "idle"     -> 5
    [] pc[r] = "choosing" -> 4
    [] pc[r] = "checking" -> 3
    [] pc[r] = "making"   -> 2
    [] pc[r] = "linking"  -> 1
    [] OTHER              -> 0
CleanerPhase(c) ==
  CASE cleaner[c] = "none"     -> 5
    [] cleaner[c] = "opening"  -> 4
    [] cleaner[c] = "looking"  -> 3
    [] cleaner[c] = "removing" -> 2
    [] cleaner[c] = "scanning" -> 1
    [] OTHER                   -> 0

\* A request goes on to a later phase, or has a path less to look at.
RequestDescends(r) ==
  \/ RequestPhase(r)' < RequestPhase(r)
  \/ pc'[r] = pc[r] /\ left'[r] \subseteq left[r] /\ left'[r] # left[r]

\* A cleaner opens the directory once; from then on it has a name less to look at,
\* or the same names and less to do about the one it looks at.
CleanerDescends(c) ==
  \/ cleaner[c] \in {"none", "opening"} /\ CleanerPhase(c)' < CleanerPhase(c)
  \/ /\ cleaner[c] \notin {"none", "opening"} /\ cleaner'[c] \notin {"none", "opening"}
     /\ \/ todo'[c] \subseteq todo[c] /\ todo'[c] # todo[c]
        \/ todo'[c] = todo[c] /\ CleanerPhase(c)' < CleanerPhase(c)

Forward ==
  \A r \in Request :
    /\ Serve(r) => RequestDescends(r)
    /\ Clean(r) => CleanerDescends(r)
    /\ RequestDescends(r) \/ UNCHANGED <<pc[r], left[r]>>
    /\ CleanerDescends(r) \/ UNCHANGED <<cleaner[r], todo[r]>>

LEMMA RequestGoes ==
  ASSUME TypeOK, NEW r \in Request, Ask(r) \/ Choose(r) \/ Serve(r) \/ Drop(r)
  PROVE  /\ RequestDescends(r) /\ pc[r] \notin {"gaveup", "returned", "dropped"}
         /\ \A q \in Request \ {r} : UNCHANGED <<pc[q], left[q]>>
<1>1. DOMAIN pc = Request /\ DOMAIN left = Request
  BY DEF TypeOK
<1>2. CASE Ask(r) \/ Choose(r) \/ CheckShared(r) \/ MakeShared(r)
  BY <1>1, <1>2 DEF Ask, Choose, CheckShared, MakeShared, Goto, RequestDescends, RequestPhase
<1>3. CASE LinkOne(r)
  <2>1. PICK f \in left[r] : left' = [left EXCEPT ![r] = @ \ {f}]
    BY <1>3 DEF LinkOne
  <2>2. pc[r] = "linking" /\ UNCHANGED pc
    BY <1>3, LinkStep
  <2>3. f \in left[r] /\ left'[r] = left[r] \ {f}
    BY <1>1, <2>1
  <2> QED BY <1>1, <2>1, <2>2, <2>3 DEF RequestDescends
<1>4. CASE AddMap(r) \/ Drop(r)
  BY <1>1, <1>4 DEF AddMap, Drop, Goto, RequestDescends, RequestPhase
<1> QED BY <1>2, <1>3, <1>4 DEF Serve

LEMMA CleanerGoes ==
  ASSUME TypeOK, NEW c \in Request, Clean(c)
  PROVE  /\ CleanerDescends(c) /\ cleaner[c] # "none"
         /\ \A d \in Request \ {c} : UNCHANGED <<cleaner[d], todo[d]>>
<1>1. DOMAIN cleaner = Request /\ DOMAIN todo = Request
  BY DEF TypeOK
<1>2. CASE OpenDir(c)
  <2>1. /\ cleaner[c] = "opening" /\ cleaner'[c] \in {"scanning", "over"}
        /\ \A d \in Request \ {c} : UNCHANGED <<cleaner[d], todo[d]>>
    BY <1>1, <1>2 DEF OpenDir, Become
  <2> QED BY <2>1 DEF CleanerDescends, CleanerPhase
<1>3. CASE Inspect(c)
  <2>1. PICK n \in todo[c] : /\ todo' = [todo EXCEPT ![c] = @ \ {n}]
                             /\ cleaner' = cleaner \/ cleaner' = [cleaner EXCEPT ![c] = "looking"]
    BY <1>3 DEF Inspect, Become
  <2>2. cleaner[c] = "scanning" /\ cleaner'[c] \in {"scanning", "looking"}
    BY <1>1, <1>3, <2>1 DEF Inspect
  <2>3. n \in todo[c] /\ todo'[c] = todo[c] \ {n}
    BY <1>1, <2>1
  <2> QED BY <1>1, <2>1, <2>2, <2>3 DEF CleanerDescends
<1>4. CASE Look(c) \/ Remove(c) \/ EndScan(c)
  <2>1. /\ UNCHANGED todo /\ \A d \in Request \ {c} : UNCHANGED cleaner[d]
        /\ \/ cleaner[c] = "looking" /\ cleaner'[c] \in {"scanning", "removing"}
           \/ cleaner[c] = "removing" /\ cleaner'[c] = "scanning"
           \/ cleaner[c] = "scanning" /\ cleaner'[c] = "over"
    BY <1>1, <1>4 DEF Look, Remove, EndScan, KeepEntry, Become
  <2> QED BY <2>1 DEF CleanerDescends, CleanerPhase
<1>5. CASE ReadEntryFails(c)
  <2>1. /\ cleaner[c] = "scanning" /\ UNCHANGED cleaner /\ todo[c] # {} /\ todo'[c] = {}
        /\ \A d \in Request \ {c} : todo'[d] = todo[d]
    BY <1>1, <1>5 DEF ReadEntryFails
  <2> QED BY <2>1 DEF CleanerDescends
<1> QED BY <1>2, <1>3, <1>4, <1>5 DEF Clean

\* What the steps of one side leave of the other.
LEMMA CleanerLeavesRequests ==
  ASSUME \/ \E c \in Request : Clean(c)
         \/ ReplacerReturns \/ \E f \in File : Vanish(f) \/ Appear(f)
         \/ \E n \in Name : UseName(n)
         \/ UNCHANGED vars
  PROVE  UNCHANGED <<pc, left>>
BY DEF Clean, OpenDir, ReadEntryFails, Inspect, Look, Remove, EndScan, ReplacerReturns, Vanish, Appear,
       UseName, vars, request

LEMMA WorldLeavesCleaners ==
  ASSUME \/ \E r \in Request : \/ Ask(r) \/ Choose(r) \/ CheckShared(r) \/ MakeShared(r)
                               \/ LinkOne(r) \/ Drop(r)
         \/ ReplacerReturns \/ \E f \in File : Vanish(f) \/ Appear(f)
         \/ \E n \in Name : UseName(n)
         \/ UNCHANGED vars
  PROVE  UNCHANGED <<cleaner, todo>>
BY DEF Ask, Choose, CheckShared, MakeShared, LinkOne, Drop, ReplacerReturns, Vanish, Appear, UseName,
       vars, thread

LEMMA AddMapStarts ==
  ASSUME TypeOK, Returned, NEW r \in Request, AddMap(r)
  PROVE  /\ pc'[r] = "returned" /\ cleaner[r] = "none" /\ CleanerDescends(r)
         /\ \A d \in Request \ {r} : UNCHANGED <<pc[d], cleaner[d], todo[d]>>
<1>1. DOMAIN cleaner = Request /\ DOMAIN pc = Request
  BY DEF TypeOK
<1>2. /\ cleaner[r] = "none" /\ pc'[r] = "returned" /\ cleaner'[r] \in {"opening", "over"}
      /\ UNCHANGED todo /\ \A d \in Request \ {r} : UNCHANGED <<pc[d], cleaner[d]>>
  BY <1>1 DEF AddMap, Goto, Returned
<1> QED BY <1>2 DEF CleanerDescends, CleanerPhase

\* Every step of a request or of its cleaner takes it nearer to its end, and no other
\* step takes it back: neither failures nor what other requests, programs and the user
\* do to the directory meanwhile can make the work come again. With finitely many paths
\* and names it can therefore not go on for ever.
THEOREM WorkEnds == Spec => [][Forward]_vars
<1>1. TypeOK /\ Returned /\ [Next]_vars => [Forward]_vars
  <2> SUFFICES ASSUME TypeOK, Returned, Next, NEW r \in Request
               PROVE  /\ Serve(r) => RequestDescends(r)
                      /\ Clean(r) => CleanerDescends(r)
                      /\ RequestDescends(r) \/ UNCHANGED <<pc[r], left[r]>>
                      /\ CleanerDescends(r) \/ UNCHANGED <<cleaner[r], todo[r]>>
    BY DEF Forward
  <2>1. (Serve(r) => RequestDescends(r)) /\ (Clean(r) => CleanerDescends(r))
    BY RequestGoes, CleanerGoes
  <2>2. ASSUME NEW q \in Request, AddMap(q)
        PROVE  /\ RequestDescends(r) \/ UNCHANGED <<pc[r], left[r]>>
               /\ CleanerDescends(r) \/ UNCHANGED <<cleaner[r], todo[r]>>
    BY <2>2, AddMapStarts, RequestGoes DEF Serve
  <2>3. ASSUME NEW q \in Request,
               Ask(q) \/ Choose(q) \/ CheckShared(q) \/ MakeShared(q) \/ LinkOne(q) \/ Drop(q)
        PROVE  /\ RequestDescends(r) \/ UNCHANGED <<pc[r], left[r]>>
               /\ UNCHANGED <<cleaner, todo>>
    BY <2>3, RequestGoes, WorldLeavesCleaners DEF Serve
  <2>4. ASSUME NEW c \in Request, Clean(c)
        PROVE  /\ UNCHANGED <<pc, left>>
               /\ CleanerDescends(r) \/ UNCHANGED <<cleaner[r], todo[r]>>
    BY <2>4, CleanerGoes, CleanerLeavesRequests
  <2>5. CASE \/ ReplacerReturns \/ \E f \in File : Vanish(f) \/ Appear(f)
             \/ \E n \in Name : UseName(n)
             \/ UNCHANGED vars
    BY <2>1, <2>5, CleanerLeavesRequests, WorldLeavesCleaners
  <2> QED BY <2>1, <2>2, <2>3, <2>4, <2>5 DEF Next, Serve, Ended
<1>2. IInv => TypeOK /\ Returned
  BY DEF IInv
<1> QED BY <1>1, <1>2, InitHolds, StepHolds, PTL DEF Spec
=============================================================================
