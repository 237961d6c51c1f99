----------------------------- MODULE MCLinuxRun -----------------------------
(* Values for model checking LinuxRun: the rule lists a run may find, and    *)
(* the rules an administrator may add to them.                               *)
EXTENDS LinuxRun

P(field, value) == [field |-> field, op |-> "eq", value |-> value]

R(effect, scope, syscalls, predicates) ==
  [effect |-> effect, scope |-> scope, syscalls |-> syscalls, predicates |-> predicates]

Exec(arch) == R("include", "exit", {"execve", "execveat"}, {P("arch", arch)})
Compared   == R("include", "exit", {"open"}, {P("compare", "uid!=euid")})
ByNumber   == R("include", "exit", {"59"}, {})
Etc        == R("include", "exit", {}, {P("path", "etc"), P("perm", "wa")})
NeverExit32 == R("exclude", "exit", {"execve"}, {P("arch", "b32")})
NeverTask  == R("exclude", "task", {}, {})
Written    == R("include", "exit", {}, {P("path", "bin"), P("perm", "w")})
Changed    == R("include", "exit", {}, {P("path", "bin"), P("perm", "a")})

MCRuleChoices == {Exec("b64"), Exec("b32"), Compared, ByNumber, Etc, NeverExit32, NeverTask,
                  Written, Changed}

\* On a host nobody touches: lists for every outcome of the evaluation.
MCQuietLists ==
  {<<>>, <<Exec("b64"), Exec("b32"), Etc>>, <<Exec("b64"), Compared>>, <<ByNumber>>,
   <<NeverExit32, Exec("b32"), Exec("b64")>>, <<Etc, Exec("b64"), NeverTask>>,
   <<Written, Changed>>}

\* On a live host: lists from which a change leads to another outcome.
MCLiveLists == {<<>>, <<Exec("b64"), Exec("b32"), Etc>>}
MCLiveChoices == {Exec("b64"), Exec("b32"), Compared, Etc, NeverExit32}

MCArches   == {"b64", "b32"}
MCCalls    == {"execve", "execveat", "open"}
MCNumerals == {"59", "322", "2", "11", "358", "5"}
MCNumber   == [b64 |-> [execve |-> "59", execveat |-> "322", open |-> "2"],
               b32 |-> [execve |-> "11", execveat |-> "358", open |-> "5"]]
MCLetters  == [wa |-> {"w", "a"}, w |-> {"w"}, a |-> {"a"}]
MCFacts    == {P("compare", "uid!=euid")}
=============================================================================
