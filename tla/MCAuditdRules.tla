--------------------------- MODULE MCAuditdRules ---------------------------
(* Values for model checking AuditdRules: two orders of a good -a value, one *)
(* without an action, two syscall lists, one filter, one watch.              *)
EXTENDS AuditdRules

MCWords        == {"always", "never", "exit", "task"}
MCAddValues    == {<<"always", "exit">>, <<"task", "never">>, <<"exit", "exit">>}
MCSyscallLists == {{"execve", "execveat"}, {"59"}}
MCFilters      == {Eq("exe", "sh")}
MCPaths        == {"etc"}
MCPerms        == {"wa"}
=============================================================================
