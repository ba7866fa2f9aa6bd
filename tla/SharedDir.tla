------------------------------- MODULE SharedDir -------------------------------
(***************************************************************************)
(* Files the user shares with the sandbox. RequestFSAccess (ipc.rs) has    *)
(* the portal ask the user for files, links each chosen one into           *)
(* ~/Shared under its own name, sends the new links to the replacer and    *)
(* starts a thread that removes broken links from the directory            *)
(* (cleaner.rs). Requests are served in parallel and their threads outlive *)
(* them; the sandboxed programs own the directory too, and the files       *)
(* behind the links come and go.                                           *)
(*                                                                         *)
(* One action is one system call or one message. The directory outlives    *)
(* Init: its first state is whatever an earlier run left there.            *)
(***************************************************************************)
EXTENDS FiniteSets

CONSTANTS
  File,       \* files outside the directory
  Name,       \* names in it
  NameOf,     \* Path::file_name of each file, or NoName ("/" has none)
  Request,    \* the RequestFSAccess calls of one run, each with its cleaner
  NoName, NoEntry, Own, NoRequest

ASSUME NameAssumption ==
  /\ NameOf \in [File -> Name \cup {NoName}] /\ NoName \notin Name
  /\ NoEntry # Own /\ {NoEntry, Own} \cap File = {}
  /\ NoRequest \notin Request

VARIABLES
  present,    \* the files that exist
  shared,     \* ~/Shared exists
  entry,      \* what it holds under each name: a link, a program's own file, nothing
  up,         \* the replacer receives
  mapped,     \* the files whose path the replacer maps to their link
  pc,         \* how far each request has come
  left,       \* its selected_paths not yet looked at
  new,        \* its map: the files it has linked
  cleaner,    \* how far the thread it started has come
  todo,       \* the names that thread has yet to look at
  at,         \* the name it looks at
  maker,      \* history: which request made the link that is there
  unlinked,   \* history: files whose link was taken away
  window,     \* history: who interfered while a cleaner dealt with a name: the cleaners
              \* of other requests, or NoRequest for anything outside Init
  fresh       \* history: names whose link may have broken since a cleaner looked, or
              \* that a cleaner could not look at or remove

disk == <<present, shared, entry>>
map == <<up, mapped>>
request == <<pc, left, new>>
thread == <<cleaner, todo, at>>
history == <<maker, unlinked, window, fresh>>
vars == <<disk, map, request, thread, history>>

Works(n) == entry[n] = Own \/ entry[n] \in present
Broken(n) == entry[n] \in File \ present

TypeOK ==
  /\ present \subseteq File /\ shared \in BOOLEAN
  /\ entry \in [Name -> File \cup {NoEntry, Own}]
  /\ up \in BOOLEAN /\ mapped \subseteq File
  /\ pc \in [Request -> {"idle", "choosing", "checking", "making", "linking",
                         "gaveup", "returned", "dropped"}]
  /\ left \in [Request -> SUBSET File] /\ new \in [Request -> SUBSET File]
  /\ cleaner \in [Request -> {"none", "opening", "scanning", "looking", "removing", "over"}]
  /\ todo \in [Request -> SUBSET Name] /\ at \in [Request -> Name \cup {NoName}]
  /\ maker \in [Name -> Request \cup {NoRequest}]
  /\ unlinked \subseteq File
  /\ window \in [Request -> SUBSET (Request \cup {NoRequest})]
  /\ fresh \subseteq Name

\* A link of an earlier run bears its file's name.
Leftovers ==
  {e \in [Name -> File \cup {NoEntry, Own}] :
     \A n \in Name : e[n] \in File => NameOf[e[n]] = n}

Init ==
  /\ present \in SUBSET File
  /\ \/ shared = FALSE /\ entry = [n \in Name |-> NoEntry]
     \/ shared = TRUE /\ entry \in Leftovers
  /\ up = TRUE /\ mapped = {}
  /\ pc = [r \in Request |-> "idle"]
  /\ left = [r \in Request |-> {}] /\ new = [r \in Request |-> {}]
  /\ cleaner = [r \in Request |-> "none"]
  /\ todo = [r \in Request |-> {}] /\ at = [r \in Request |-> NoName]
  /\ maker = [n \in Name |-> NoRequest]
  /\ unlinked = {} /\ window = [r \in Request |-> {}] /\ fresh = Name

-----------------------------------------------------------------------------
(* The directory entry. *)

\* The cleaners that look at n, or have found it broken and not removed it yet.
Removing(n) == {c \in Request : cleaner[c] \in {"looking", "removing"} /\ at[c] = n}

Notes(cleaners, who) ==
  window' = [c \in Request |-> IF c \in cleaners THEN window[c] \cup {who} ELSE window[c]]

\* The entry n gives way to another, or to none; whoever found it broken is overtaken.
Replace(n, e) ==
  /\ entry' = [entry EXCEPT ![n] = e]
  /\ maker' = [maker EXCEPT ![n] = NoRequest]
  /\ unlinked' = unlinked \cup ({entry[n]} \cap File)

-----------------------------------------------------------------------------
(* RequestFSAccess. *)

Goto(r, where) == pc' = [pc EXCEPT ![r] = where]

\* The request goes to the portal, or cannot.
Ask(r) ==
  /\ pc[r] = "idle"
  /\ \E where \in {"choosing", "returned"} : Goto(r, where)
  /\ UNCHANGED <<disk, map, left, new, thread, history>>

\* The user's answer: none, one of a URI that is no file's, or files that exist
\* then; URIs that cannot be decoded are passed over. Without a home nothing is done.
Choose(r) ==
  /\ pc[r] = "choosing"
  /\ \/ Goto(r, "returned") /\ UNCHANGED left
     \/ \E chosen \in SUBSET present :
          left' = [left EXCEPT ![r] = chosen] /\ Goto(r, "checking")
  /\ UNCHANGED <<disk, map, new, thread, history>>

\* std::fs::exists, which can fail.
CheckShared(r) ==
  /\ pc[r] = "checking"
  /\ \/ Goto(r, IF shared THEN "linking" ELSE "making")
     \/ Goto(r, "returned")
  /\ UNCHANGED <<disk, map, left, new, thread, history>>

\* std::fs::create_dir: "gaveup" when another request has made it meanwhile.
MakeShared(r) ==
  /\ pc[r] = "making"
  /\ \/ shared /\ Goto(r, "gaveup") /\ UNCHANGED shared
     \/ ~shared /\ shared' = TRUE /\ Goto(r, "linking")
     \/ ~shared /\ Goto(r, "returned") /\ UNCHANGED shared
  /\ UNCHANGED <<present, entry, map, left, new, thread, history>>

\* Variants: a link replaces what has the name; a name that is taken is mapped all
\* the same; it ends the request; it is unwrapped.
PutLinkOver(r, f) ==
  /\ NameOf[f] \in Name /\ entry[NameOf[f]] # f
  /\ entry' = [entry EXCEPT ![NameOf[f]] = f]
  /\ maker' = [maker EXCEPT ![NameOf[f]] = r]
  /\ unlinked' = (unlinked \cup ({entry[NameOf[f]]} \cap File)) \ {f}
  /\ new' = [new EXCEPT ![r] = @ \cup {f}]
SkipMapping(r, f) ==
  /\ new' = [new EXCEPT ![r] = @ \cup ({f} \cap {g \in File : NameOf[g] \in Name})]
  /\ UNCHANGED <<pc, entry, maker, unlinked>>
SkipReturning(r, f) ==
  Goto(r, "returned") /\ UNCHANGED <<new, entry, maker, unlinked>>
SkipPanicking(r, f) ==
  Goto(r, "panicked") /\ UNCHANGED <<new, entry, maker, unlinked>>

\* symlink(2) never touches an entry that is there.
PutLink(r, f) ==
  /\ NameOf[f] \in Name /\ entry[NameOf[f]] = NoEntry
  /\ entry' = [entry EXCEPT ![NameOf[f]] = f]
  /\ maker' = [maker EXCEPT ![NameOf[f]] = r]
  /\ unlinked' = unlinked \ {f}
  /\ new' = [new EXCEPT ![r] = @ \cup {f}]

\* No name, a name that is taken, or any other error: the next path.
Skip(r, f) == UNCHANGED <<pc, new, entry, maker, unlinked>>

LinkOne(r) ==
  /\ pc[r] = "linking"
  /\ \E f \in left[r] :
       /\ left' = [left EXCEPT ![r] = @ \ {f}]
       /\ \/ PutLink(r, f) /\ UNCHANGED pc
          \/ Skip(r, f)
  /\ UNCHANGED <<present, shared, map, thread, window, fresh>>

\* Variant: no cleaning after a failed send.
AddMapOrReturn(r) ==
  /\ pc[r] = "linking" /\ left[r] = {}
  /\ mapped' = IF up THEN mapped \cup new[r] ELSE mapped
  /\ Goto(r, "returned")
  /\ cleaner' = IF up THEN [cleaner EXCEPT ![r] = "opening"] ELSE cleaner
  /\ UNCHANGED <<disk, up, left, new, todo, at, history>>

\* The links are sent to the replacer, which may be gone, and the thread is started,
\* unless the system has none to give. The map changes when the message is sent:
\* Replacer!AnswersAsSent.
AddMap(r) ==
  /\ pc[r] = "linking" /\ left[r] = {}
  /\ mapped' = IF up THEN mapped \cup new[r] ELSE mapped
  /\ Goto(r, "returned")
  /\ \/ cleaner' = [cleaner EXCEPT ![r] = "opening"] /\ UNCHANGED fresh
     \/ cleaner' = [cleaner EXCEPT ![r] = "over"] /\ fresh' = Name
  /\ UNCHANGED <<disk, up, left, new, todo, at, maker, unlinked, window>>

\* Shutdown: the replacer returns, and the runtime drops a handler that awaits.
ReplacerReturns ==
  /\ up /\ up' = FALSE
  /\ UNCHANGED <<disk, mapped, request, thread, history>>

Drop(r) ==
  /\ ~up
  /\ pc[r] \in {"choosing", "linking"}
  /\ pc[r] = "linking" => left[r] = {}
  /\ Goto(r, "dropped")
  /\ UNCHANGED <<disk, map, left, new, thread, history>>

-----------------------------------------------------------------------------
(* The cleaner's thread. *)

Become(c, where) == cleaner' = [cleaner EXCEPT ![c] = where]

\* read_dir returns every name that is there now, and perhaps names made later.
OpenDir(c) ==
  /\ cleaner[c] = "opening"
  /\ \/ /\ \E names \in SUBSET Name :
             /\ {n \in Name : entry[n] # NoEntry} \subseteq names
             /\ todo' = [todo EXCEPT ![c] = names]
        /\ Become(c, "scanning") /\ UNCHANGED fresh
     \/ Become(c, "over") /\ fresh' = Name /\ UNCHANGED todo
  /\ UNCHANGED <<disk, map, request, at, maker, unlinked, window>>

\* The next entry cannot be read: logged, and the listing is over.
ReadEntryFails(c) ==
  /\ cleaner[c] = "scanning" /\ todo[c] # {}
  /\ todo' = [todo EXCEPT ![c] = {}] /\ fresh' = fresh \cup todo[c]
  /\ UNCHANGED <<disk, map, request, cleaner, at, maker, unlinked, window>>

\* symlink_metadata: only links are looked at further. When it fails, the entry is
\* passed over, whatever it is.
Inspect(c) ==
  /\ cleaner[c] = "scanning"
  /\ \E n \in todo[c] :
       /\ todo' = [todo EXCEPT ![c] = @ \ {n}]
       /\ \/ /\ entry[n] \in File /\ at' = [at EXCEPT ![c] = n]
             /\ Become(c, "looking") /\ UNCHANGED fresh
          \/ entry[n] \notin File /\ UNCHANGED <<cleaner, at, fresh>>
          \/ fresh' = fresh \cup {n} /\ UNCHANGED <<cleaner, at>>
  /\ window' = [window EXCEPT ![c] = {}]
  /\ UNCHANGED <<disk, map, request, maker, unlinked>>

\* metadata follows the link; any error means that it is broken, also one that has
\* another reason.
Look(c) ==
  /\ cleaner[c] = "looking"
  /\ \/ Works(at[c]) /\ Become(c, "scanning") /\ UNCHANGED window
     \/ /\ Become(c, "removing")
        /\ window' = [window EXCEPT ![c] = IF Works(at[c]) THEN @ \cup {NoRequest} ELSE @]
  /\ fresh' = fresh \ {at[c]}
  /\ UNCHANGED <<disk, map, request, todo, at, maker, unlinked>>

\* Variant: a failed removal is tried again.
KeepEntryRetry(c) == fresh' = fresh \cup {at[c]} /\ Become(c, "looking")

KeepEntry(c) == fresh' = fresh \cup {at[c]} /\ Become(c, "scanning")

\* remove_file takes away whatever has the name now, or fails.
Remove(c) ==
  /\ cleaner[c] = "removing"
  /\ \/ /\ entry[at[c]] # NoEntry
        /\ Replace(at[c], NoEntry)
        /\ Notes(Removing(at[c]) \ {c}, c)
        /\ Become(c, "scanning") /\ UNCHANGED fresh
     \/ KeepEntry(c) /\ UNCHANGED <<entry, maker, unlinked, window>>
  /\ UNCHANGED <<present, shared, map, request, todo, at>>

EndScan(c) ==
  /\ cleaner[c] = "scanning" /\ todo[c] = {}
  /\ Become(c, "over")
  /\ UNCHANGED <<disk, map, request, todo, at, history>>

-----------------------------------------------------------------------------
(* The world: files vanish and come back, programs use the directory. *)

Vanish(f) ==
  /\ f \in present /\ present' = present \ {f}
  /\ fresh' = fresh \cup {n \in Name : entry[n] = f}
  /\ UNCHANGED <<shared, entry, map, request, thread, maker, unlinked, window>>

Appear(f) ==
  /\ f \in File \ present /\ present' = present \cup {f}
  /\ Notes({c \in Request : cleaner[c] = "removing" /\ entry[at[c]] = f}, NoRequest)
  /\ UNCHANGED <<shared, entry, map, request, thread, maker, unlinked, fresh>>

\* A program renames a file of its own onto the name, or removes the entry.
UseName(n) ==
  /\ shared
  /\ \E e \in {Own, NoEntry} \ {entry[n]} : Replace(n, e)
  /\ Notes(Removing(n), NoRequest)
  /\ UNCHANGED <<present, shared, map, request, thread, fresh>>

Ended ==
  /\ \A r \in Request : pc[r] \in {"gaveup", "returned", "dropped"}
  /\ \A c \in Request : cleaner[c] \in {"none", "over"}
  /\ UNCHANGED vars

-----------------------------------------------------------------------------
Serve(r) == CheckShared(r) \/ MakeShared(r) \/ LinkOne(r) \/ AddMap(r)
Clean(c) ==
  OpenDir(c) \/ ReadEntryFails(c) \/ Inspect(c) \/ Look(c) \/ Remove(c) \/ EndScan(c)

Next ==
  \/ \E r \in Request : Ask(r) \/ Choose(r) \/ Serve(r) \/ Drop(r) \/ Clean(r)
  \/ ReplacerReturns
  \/ \E f \in File : Vanish(f) \/ Appear(f)
  \/ \E n \in Name : UseName(n)
  \/ Ended

Spec == Init /\ [][Next]_vars

\* Threads run; the user may never answer, and files and programs do as they like.
Fairness == \A r \in Request : WF_vars(Serve(r) \/ Drop(r)) /\ WF_vars(Clean(r))

LiveSpec == Spec /\ Fairness

-----------------------------------------------------------------------------
\* The replacer sends a path to Shared only where the file it stands for is: as long
\* as nobody took the link away, it leads to the chosen file and not to another one
\* of the same name that was chosen before, after or at the same time.
NeverAnotherFile ==
  \A f \in mapped \ unlinked : NameOf[f] \in Name /\ entry[NameOf[f]] = f

\* Each link made in this run is known to the replacer or will be: also when other
\* files of the same selection could not be linked, and when another request passed
\* the file over because the link was there.
LinkIsKnown ==
  \A n \in Name : maker[n] # NoRequest /\ up =>
    \/ entry[n] \in mapped
    \/ (pc[maker[n]] = "linking" /\ entry[n] \in new[maker[n]])

\* What a cleaner is about to remove is broken, with two exceptions. Someone outside
\* Init had a hand in it after the cleaner found the link: a program used the name, the
\* file came back, or looking at it failed for another reason. Or another cleaner has
\* removed the link this one dealt with, and a third request linked a file under the
\* name before this one came to remove it: that link is lost. So without interference
\* from outside two requests and their cleaners never lose a link, in whatever order
\* their calls come.
RemovalJustified ==
  \A c \in Request : cleaner[c] = "removing" /\ Works(at[c]) =>
    \/ NoRequest \in window[c]
    \/ window[c] # {} /\ maker[at[c]] \in Request \ (window[c] \cup {c})

\* When no request is being served and no cleaner runs, every link that is broken has
\* broken since the last cleaner looked, or a cleaner has failed at it: it could not
\* start, open the directory, read the entry or remove it. None is overlooked otherwise,
\* however requests, programs and other cleaners change the directory during a scan.
NothingExpiredLeft ==
  (\A r \in Request : pc[r] \in {"idle", "choosing", "gaveup", "returned"}
                     /\ cleaner[r] \in {"none", "over"})
  => \A n \in Name : Broken(n) => n \in fresh

\* A request whose user has answered ends, and so does its cleaner, whatever fails.
Settles ==
  \A r \in Request :
    (pc[r] = "checking") ~>
      (pc[r] \in {"gaveup", "returned", "dropped"} /\ cleaner[r] \in {"none", "over"})

\* ipc.rs:282: a directory that exists is no reason to give up a selection.
ExistingDirSuffices == \A r \in Request : pc[r] # "gaveup"
=============================================================================
