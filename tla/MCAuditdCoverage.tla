-------------------------- MODULE MCAuditdCoverage --------------------------
(* Rules for model checking AuditdCoverage: exec rules by ABI, without one,  *)
(* by number and narrowed; watches; never rules on each list.                *)
EXTENDS AuditdCoverage

P(field, value) == [field |-> field, op |-> "eq", value |-> value]
B64 == P("arch", "b64")
B32 == P("arch", "b32")
Sh  == P("exe", "sh")
Key == P("key", "k")

R(effect, scope, syscalls, predicates) ==
  [effect |-> effect, scope |-> scope, syscalls |-> syscalls, predicates |-> predicates]

Exec == {"execve", "execveat"}

ExecRules ==
  {R("include", "exit", Exec, {B64, Key}), R("include", "exit", Exec, {B32}),
   R("include", "exit", {"execve", "open"}, {B64}), R("include", "exit", {"all"}, {}),
   R("include", "exit", Exec, {B64, Sh}), R("include", "exit", {"open"}, {B64})}

NeverRules ==
  {R("exclude", "exit", {}, {B32}), R("exclude", "exit", Exec, {B32}),
   R("exclude", "exit", {"execveat"}, {Sh}), R("exclude", "exit", {"munmap"}, {}),
   R("exclude", "exit", {"open"}, {}), R("exclude", "task", {}, {Key}),
   R("exclude", "task", {}, {P("auid", "unset")}),
   R("exclude", "exclude", {}, {P("msgtype", "cwd")})}

\* Whole watches, in both of the forms they have, and one that is split in two.
WatchRules ==
  {R("include", "exit", {}, {P("path", "etc"), P("perm", "rwa")}),
   R("include", "exit", {"all"}, {B32, P("dir", "bin"), P("perm", "aw"), Sh}),
   R("include", "exit", {}, {P("dir", "bin"), P("perm", "w")}),
   R("include", "exit", {}, {P("path", "bin"), P("perm", "a")})}

\* Rules that decide on a machine whose arch selectors nobody interprets.
ArchlessRules ==
  {R("include", "exit", {"execve"}, {}), R("include", "exit", {"execveat"}, {Key}),
   R("include", "exit", {"execve"}, {Sh}), R("exclude", "exit", {"execve"}, {})}

MCAll == ExecRules \cup NeverRules \cup WatchRules \cup ArchlessRules
           \cup {R("include", "exit", {"59"}, {})}

MCNumeric ==
  {R("include", "exit", Exec, {B64}), R("include", "exit", Exec, {B32}),
   R("include", "exit", {"59", "open"}, {}), R("include", "exit", {"59"}, {}),
   R("exclude", "exit", {"59"}, {}), R("exclude", "exit", {"open"}, {})}

\* Both exec calls without an arch selector, and never rules on one of them.
MCArchless ==
  {R("include", "exit", Exec, {}), R("exclude", "exit", {"execve"}, {}), R("exclude", "exit", {"open"}, {})}

MCArches   == {"b64", "b32"}
MCCalls    == {"execve", "execveat", "open", "munmap"}
MCNumerals == {"59", "322", "2", "11", "358", "5", "91"}
MCNumber   == [b64 |-> [execve |-> "59", execveat |-> "322", open |-> "2", munmap |-> "11"],
               b32 |-> [execve |-> "11", execveat |-> "358", open |-> "5", munmap |-> "91"]]
MCLetters  == [w |-> {"w"}, a |-> {"a"}, aw |-> {"w", "a"}, rwa |-> {"r", "w", "a"}]
MCFacts    == {Sh, P("auid", "unset"), P("msgtype", "cwd")}
=============================================================================
