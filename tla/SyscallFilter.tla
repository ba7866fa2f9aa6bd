----------------------------- MODULE SyscallFilter -----------------------------
(***************************************************************************)
(* The system call filter as a function of the configuration               *)
(* (seccomp/list.rs, seccomp/filter.rs). The source sorts system calls     *)
(* into groups, the groups into four lists, and makes rules of some of the *)
(* lists. A call is represented here by its group, except for the calls    *)
(* that are treated on their own.                                          *)
(***************************************************************************)

AllowedGroup == {"async_io", "basic_io", "fs_op", "io_ev", "ipc", "memlock", "network",
                 "pkey", "resources", "sync", "process", "signal", "timer", "sandbox", "other"}
DeniedGroup == {"clock", "module", "obsolete", "chown", "raw_io", "reboot", "swap",
                "setuid", "keyring"}
DebugGroup == {"debug"}
LockdownGroup == {"mount", "process_notify", "lockdown"}

Group == AllowedGroup \cup DeniedGroup \cup DebugGroup \cup LockdownGroup

\* chroot is an fs_op and setfsuid in the lockdown list; 65535 is the number Wine
\* uses, which has no name; "unlisted" has a name but is in no group.
Call == Group \cup {"chroot", "setfsuid", "65535", "unlisted"}

GroupOf(c) == CASE c = "chroot" -> "fs_op" [] c = "setfsuid" -> "lockdown" [] OTHER -> c

Config == [whitelist : BOOLEAN, debugging : BOOLEAN]

\* The members of some groups whose names libseccomp resolves; the others are left out.
Resolved(groups, named) == {c \in named : GroupOf(c) \in groups}

\* compile_syscall_list. The lists are vectors, and the allow list has four names
\* twice; libseccomp takes a rule again that it has.
SyscallList(named) ==
  [allow |-> Resolved(AllowedGroup, named) \cup {"65535"},
   deny |-> Resolved(DeniedGroup, named),
   debug |-> Resolved(DebugGroup, named),
   selective |-> Resolved(LockdownGroup, named)]

\* Variants of the rules for the debug list: they do not depend on the switch; they
\* are made for the deny list only.
DebugRulesAlways(conf, list) ==
  IF conf.whitelist THEN list.debug \X {"Allow"} ELSE {}
DebugRulesOfDenyList(conf, list) ==
  IF ~conf.debugging /\ ~conf.whitelist THEN list.debug \X {"Notify"} ELSE {}

DebugRules(conf, list) ==
  CASE conf.debugging /\ conf.whitelist   -> list.debug \X {"Allow"}
    [] ~conf.debugging /\ ~conf.whitelist -> list.debug \X {"Notify"}
    [] OTHER                              -> {}

\* Variant: the debug list's rules take the place of the other list's.
CompiledForDebugging(conf, list) ==
  [default |-> IF conf.whitelist THEN "Notify" ELSE "Allow",
   badarch |-> IF conf.whitelist THEN "KillThread" ELSE "Allow",
   rules |-> IF conf.debugging THEN DebugRules(conf, list)
             ELSE IF conf.whitelist THEN list.allow \X {"Allow"} ELSE list.deny \X {"Notify"}]

\* compile_filter: the default action, the one for a foreign architecture, the rules.
Compiled(conf, list) ==
  [default |-> IF conf.whitelist THEN "Notify" ELSE "Allow",
   badarch |-> IF conf.whitelist THEN "KillThread" ELSE "Allow",
   rules |-> DebugRules(conf, list) \cup
               IF conf.whitelist THEN list.allow \X {"Allow"} ELSE list.deny \X {"Notify"}]

\* What the kernel does with a call under a filter.
ActionOn(filter, c, native) ==
  IF ~native THEN filter.badarch
  ELSE IF \E a \in {"Allow", "Notify"} : <<c, a>> \in filter.rules
    THEN CHOOSE a \in {"Allow", "Notify"} : <<c, a>> \in filter.rules
    ELSE filter.default

-----------------------------------------------------------------------------
\* What the lists are for (the comments in list.rs, SyscallList and InitInfo): the
\* groups of the first list are always permitted and those of the second never, the
\* debugging calls when allow_debug says so, all else unless there is a whitelist.
Permitted(conf, c) ==
  CASE c = "65535" \/ GroupOf(c) \in AllowedGroup -> TRUE
    [] GroupOf(c) \in DeniedGroup                 -> FALSE
    [] GroupOf(c) \in DebugGroup                  -> conf.debugging
    [] OTHER                                      -> ~conf.whitelist
=============================================================================
