----------------------------- MODULE LandlockRules -----------------------------
(***************************************************************************)
(* The rules of the Landlock domain (landlock.rs) and what they grant. A   *)
(* file is represented by the place it lies in: a directory a rule names,  *)
(* or "/" for everywhere else. The right "edit" stands for all those to    *)
(* create, remove, rename, link and truncate that are not named.           *)
(***************************************************************************)

Right == {"Execute", "ReadFile", "ReadDir", "WriteFile", "edit",
          "MakeChar", "MakeBlock", "IoctlDev"}
FileRight == {"Execute", "ReadFile", "WriteFile", "IoctlDev"}

Place == {"/bin", "/sys/fs/cgroup", "/etc", "/lib", "/lib64", "/opt", "/sbin", "/usr",
          "/.flatpak-info", "home", "/run", "/tmp", "/dev", "/proc", "/sys", "/sys/devices",
          "/sys/class", "/sys/module", "/sys/kernel", "/"}

Kind == {"ro", "rw", "full", "read_dir"}

\* LandlockFsAccess::rule, and the right of the last rule.
Access(kind) ==
  CASE kind = "full"     -> Right
    [] kind = "rw"       -> Right \ {"MakeChar", "MakeBlock", "IoctlDev"}
    [] kind = "ro"       -> {"Execute", "ReadDir", "ReadFile"}
    [] kind = "read_dir" -> {"ReadDir"}

\* Variant: all of /sys in place of its directories.
DefinedRulesSys(flatpak) ==
  [ro |-> {"/bin", "/sys/fs/cgroup", "/etc", "/lib", "/lib64", "/opt", "/sbin", "/usr"} \cup
            IF flatpak THEN {"/.flatpak-info"} ELSE {},
   rw |-> {"home", "/run", "/tmp"},
   full |-> {"/dev", "/proc", "/sys"},
   read_dir |-> {"/"}]

\* DefinedRules::get; "home" is the user's, which is in none of the other places.
DefinedRules(flatpak) ==
  [ro |-> {"/bin", "/sys/fs/cgroup", "/etc", "/lib", "/lib64", "/opt", "/sbin", "/usr"} \cup
            IF flatpak THEN {"/.flatpak-info"} ELSE {},
   rw |-> {"home", "/run", "/tmp"},
   full |-> {"/dev", "/proc", "/sys/devices", "/sys/class", "/sys/module", "/sys/kernel"},
   read_dir |-> {"/"}]

\* The directories above a place, and itself.
Above(place) ==
  {"/", place} \cup CASE place = "/sys/fs/cgroup" -> {"/sys", "/sys/fs"}
                      [] place \in {"/sys/devices", "/sys/class", "/sys/module", "/sys/kernel"} -> {"/sys"}
                      [] OTHER -> {}

\* path_beneath_rules: a rule for what exists only, and for a file without the rights
\* of directories.
RuleAccess(kind, path) ==
  IF path = "/.flatpak-info" THEN Access(kind) \cap FileRight ELSE Access(kind)

\* What a domain with rules for the `present` paths lets a program do in a place: rights
\* are all handled, and those granted to the directories above add up.
Granted(flatpak, present, place) ==
  {right \in Right :
     \E kind \in Kind : \E path \in DefinedRules(flatpak)[kind] \cap Above(place) \cap present :
       right \in RuleAccess(kind, path)}
=============================================================================
