---------------------------- MODULE KernelAudit ----------------------------
(***************************************************************************)
(* The rule lists of the Linux kernel, as far as sigmascope relies on      *)
(* them: which events a list of rules has the kernel emit. The kernel and  *)
(* auditctl are not part of the repository; this is what the comments,     *)
(* messages and conditions of sigmascope/evaluate/auditd.py take them to do. *)
(***************************************************************************)
EXTENDS Integers, Sequences

CONSTANTS
  Arches,    \* the system call ABIs of the machine, by the name of their arch field
  Native,    \* the one whose names auditctl looks up in a rule without an arch field
  Calls,     \* the system calls, by name
  Numerals,  \* the syscall selectors that are numbers
  Number,    \* Number[arch][call]: the number of the call in that ABI
  Letters,   \* the values a perm field may have, each with the letters in it
  Facts      \* the predicates other than arch and key that may hold of an exec

TargetSyscalls == {"execve", "execveat"}

ASSUME NativeAssumption == Native \in Arches

ASSUME NumberAssumption == TargetSyscalls \subseteq Calls /\ Number \in [Arches -> [Calls -> Numerals]]

ASSUME NumeralsAssumption == Numerals \cap (Calls \cup {"all"}) = {}

ASSUME LettersAssumption == \A value \in DOMAIN Letters : Letters[value] \subseteq {"r", "w", "x", "a"}

\* A rule as parse_auditd_rules returns it. Its order is its place in the list.
Predicate == [field : STRING, op : STRING, value : STRING]
Rule == [effect : {"include", "exclude"}, scope : STRING,
         syscalls : SUBSET STRING, predicates : SUBSET Predicate]

-----------------------------------------------------------------------------
(* Which events a rule matches.                                            *)

Event(arch, syscall, facts) == [arch |-> arch, syscall |-> syscall, facts |-> facts]

\* A key labels a record and selects nothing.
Holds(p, e) ==
  \/ p.field = "key"
  \/ p.field = "arch" /\ (p.op = "eq" <=> p.value = e.arch)
  \/ p.field \notin {"key", "arch"} /\ p \in e.facts

HoldAll(r, e) == \A p \in r.predicates : Holds(p, e)

\* auditctl replaces a name by its number in the ABI that the rule has an arch field
\* for, and in the native one if it has none: such a rule says nothing of the call in
\* another ABI, where it has another number.
LookedUpIn(r) ==
  LET arches == {p.value : p \in {q \in r.predicates : q.field = "arch"}}
  IN IF arches = {} THEN {Native} ELSE arches \cap Arches

NumbersOf(r) ==
  (r.syscalls \cap Numerals) \cup {Number[arch][call] : arch \in LookedUpIn(r), call \in r.syscalls \cap Calls}

\* A rule without -S matches every system call.
Selects(r, e) == r.syscalls = {} \/ "all" \in r.syscalls \/ Number[e.arch][e.syscall] \in NumbersOf(r)

IsOn(r, effect, list) == r.effect = effect /\ r.scope = list

ExitMatches(r, effect, e) == IsOn(r, effect, "exit") /\ Selects(r, e) /\ HoldAll(r, e)

\* A task a never,task rule matches has no audit context; an event a never,exclude
\* rule matches is dropped after the exit list has been consulted.
Suppressed(rules, e) ==
  \E i \in DOMAIN rules :
    (IsOn(rules[i], "exclude", "task") \/ IsOn(rules[i], "exclude", "exclude")) /\ HoldAll(rules[i], e)

\* The first rule of the exit list that matches decides.
Emits(rules, e) ==
  /\ ~Suppressed(rules, e)
  /\ \E i \in DOMAIN rules :
       /\ ExitMatches(rules[i], "include", e)
       /\ \A j \in 1 .. i - 1 : ~ExitMatches(rules[j], "exclude", e)

\* Without an audit context no rule on calls or files is evaluated.
NoContext(rules) ==
  \E i \in DOMAIN rules :
    IsOn(rules[i], "exclude", "task") /\ \A p \in rules[i].predicates : p.field = "key"

-----------------------------------------------------------------------------
(* Process creation: an exec call with the predicates that hold of it.     *)

\* What a Sigma rule for process creation needs: every exec, by each of those ABIs.
EmitsEvery(rules, arches) ==
  \A arch \in arches, syscall \in TargetSyscalls, facts \in SUBSET Facts :
    Emits(rules, Event(arch, syscall, facts))

\* No exec is emitted unless something particular is true of it.
EmitsNoneInGeneral(rules) ==
  \A arch \in Arches, syscall \in TargetSyscalls : ~Emits(rules, Event(arch, syscall, {}))

\* In its ABIs the rule selects an exec call that it does not name: by number, or by the
\* name of another call that has the same number in the ABI the name is looked up in.
SelectsUnnamed(r) ==
  /\ r.syscalls # {}
  /\ \E arch \in Arches, syscall \in TargetSyscalls :
       LET e == Event(arch, syscall, {})
       IN /\ Selects(r, e) /\ r.syscalls \cap {"all", syscall} = {}
          /\ \A p \in r.predicates : p.field = "arch" => Holds(p, e)

-----------------------------------------------------------------------------
(* File events: a call that accesses a path, which a path or dir predicate *)
(* names, for one of the things that perm is about.                        *)

Targets(p, path)  == p.field \in {"path", "dir"} /\ p.value = path
Grants(p, access) == p.field = "perm" /\ p.value \in DOMAIN Letters /\ access \in Letters[p.value]

\* Of the access hold its own file predicates, and of the facts those about other things.
FileEvent(path, access, arch, call, facts) ==
  Event(arch, call,
    {p \in facts : p.field \notin {"path", "dir", "perm"}}
      \cup {p \in Predicate : Targets(p, path) \/ Grants(p, access)})

HasPermission(r) == \E p \in r.predicates : p.field = "perm"

Paths(r) == {p.value : p \in {q \in r.predicates : q.field \in {"path", "dir"}}}

\* One rule with permissions matches both the writes and the attribute changes of a path.
WatchesAlone(r) ==
  /\ HasPermission(r)
  /\ \E path \in Paths(r) : \A access \in {"w", "a"} :
       \E arch \in Arches, call \in Calls :
         ExitMatches(r, "include", FileEvent(path, access, arch, call, r.predicates))

\* The paths whose writes and attribute changes are both emitted, in the circumstances
\* that the other predicates of some rule ask for.
Monitored(rules) ==
  {path \in UNION {Paths(rules[i]) : i \in DOMAIN rules} :
    \A access \in {"w", "a"} :
      \E i \in DOMAIN rules, arch \in Arches, call \in Calls :
        Emits(rules, FileEvent(path, access, arch, call, rules[i].predicates))}
=============================================================================
