--------------------------- MODULE AuditdEvaluate ---------------------------
(***************************************************************************)
(* sigmascope/evaluate/auditd.py: the verdict on process creation and on   *)
(* file events from the parsed rules, `parsed` being a record of           *)
(* determinacy and rules, on the machine that platform.machine() names.    *)
(* Explanations are left out.                                              *)
(***************************************************************************)
EXTENDS KernelAudit

Requirement == {"process_creation", "file_watch"}
X86 == {"x86_64", "amd64"}

\* On x86-64 the machine has the ABIs that evaluate_process_creation asks for.
ABIsOf(machine_arch) == machine_arch \in X86 => Arches \subseteq {"b64", "b32"}

\* The ABIs whose exec calls COVERED speaks of: elsewhere it rests on rules without an
\* arch selector, with which coverage of another ABI cannot be established.
Established(machine_arch) == IF machine_arch \in X86 THEN Arches ELSE {Native}

\* Mutants: "all" is taken for a name; a rule without -S is taken to select nothing; a
\* never rule can be a candidate; a watch needs only one of the two permissions.
Selected_Named(r) == r.syscalls \cap TargetSyscalls
Suppresses_Named(r, arch, syscall) ==
  /\ IsOn(r, "exclude", "exit") /\ r.syscalls \cap {"all", syscall} # {}
  /\ \A p \in r.predicates : p.field = "arch" => p.value = arch
Includes_AnyEffect(rules) == {i \in DOMAIN rules : rules[i].scope = "exit"}
Either(p) == Grants(p, "w") \/ Grants(p, "a")

_NON_NARROWING_FIELDS == {"arch", "key"}

PredicatesOn(r, field) == {p \in r.predicates : p.field = field}

SelectedSyscalls(r) ==
  IF "all" \in r.syscalls THEN TargetSyscalls ELSE r.syscalls \cap TargetSyscalls

ArchesOf(r) == {p.value : p \in {q \in PredicatesOn(r, "arch") : q.op = "eq"}}

Restrictive(r) == \E p \in r.predicates : p.field \notin _NON_NARROWING_FIELDS

ExitRuleSuppresses(r, arch, syscall) ==
  /\ IsOn(r, "exclude", "exit")
  /\ r.syscalls = {} \/ r.syscalls \cap {"all", syscall} # {}
  /\ ArchesOf(r) = {} \/ arch \in ArchesOf(r)

Unconditional(r) == \A p \in r.predicates : p.field = "key"

\* What _suppression returns, "none" for None.
Suppression(rules) ==
  LET task == {i \in DOMAIN rules : IsOn(rules[i], "exclude", "task")}
  IN IF \E i \in task : Unconditional(rules[i]) THEN "not_covered"
     ELSE IF task # {} \/ \E i \in DOMAIN rules : IsOn(rules[i], "exclude", "exclude")
          THEN "degraded" ELSE "none"

-----------------------------------------------------------------------------
(* evaluate_process_creation.                                              *)

Includes(rules) == {i \in DOMAIN rules : IsOn(rules[i], "include", "exit")}

Candidates(rules) == {i \in Includes(rules) : SelectedSyscalls(rules[i]) # {}}

OnlyNumeric(rules) ==
  \E i \in Includes(rules) : rules[i].syscalls # {} /\ rules[i].syscalls \subseteq Numerals

\* The candidates that cover the exec call on that ABI; the first of them is
\* coverage[(arch, syscall)].
Covering(rules, arch, syscall) ==
  {i \in Candidates(rules) :
    ~Restrictive(rules[i]) /\ arch \in ArchesOf(rules[i]) /\ syscall \in SelectedSyscalls(rules[i])}

Preempted(rules, arch, syscall) ==
  \E j \in DOMAIN rules :
    /\ ExitRuleSuppresses(rules[j], arch, syscall)
    /\ \A i \in Covering(rules, arch, syscall) : j < i

EvaluateX86(rules) ==
  IF \/ \E i \in Candidates(rules) : ArchesOf(rules[i]) = {}
     \/ \E arch \in {"b64", "b32"}, syscall \in TargetSyscalls :
          Covering(rules, arch, syscall) = {} \/ Preempted(rules, arch, syscall)
  THEN "degraded" ELSE "covered"

Broad(rules) ==
  UNION {SelectedSyscalls(rules[i]) : i \in {k \in Candidates(rules) : ~Restrictive(rules[k])}}

EvaluateOtherArch(rules) ==
  IF \E i \in Candidates(rules) : PredicatesOn(rules[i], "arch") # {} THEN "indeterminate"
  ELSE IF TargetSyscalls \subseteq Broad(rules) THEN "covered" ELSE "degraded"

EvaluateProcessCreation(parsed, machine_arch) ==
  LET rules == parsed.rules
  IN IF parsed.determinacy = "unknown" THEN "indeterminate"
     ELSE IF Candidates(rules) = {}
          THEN IF OnlyNumeric(rules) THEN "indeterminate" ELSE "not_covered"
     ELSE IF Suppression(rules) # "none" THEN Suppression(rules)
     ELSE IF machine_arch \in X86 THEN EvaluateX86(rules) ELSE EvaluateOtherArch(rules)

-----------------------------------------------------------------------------
(* evaluate_file_watch.                                                    *)

WritesAndAttributes(p) == Grants(p, "w") /\ Grants(p, "a")

WatchTargets(rules) ==
  {p \in UNION {rules[i].predicates : i \in
                 {k \in DOMAIN rules :
                    /\ rules[k].effect = "include"
                    /\ \E q \in PredicatesOn(rules[k], "perm") : WritesAndAttributes(q)}} :
     p.field \in {"path", "dir"}}

EvaluateFileWatch(parsed) ==
  IF parsed.determinacy = "unknown" THEN "indeterminate"
  ELSE IF WatchTargets(parsed.rules) = {} \/ Suppression(parsed.rules) = "not_covered"
       THEN "not_covered" ELSE "degraded"

NeverExit(rules) == {i \in DOMAIN rules : IsOn(rules[i], "exclude", "exit")}

\* The explanation of DEGRADED notes that rules may suppress the events of watches.
FileWatchNoted(rules) == Suppression(rules) # "none" \/ NeverExit(rules) # {}

Evaluate(requirement, parsed, machine_arch) ==
  IF requirement = "process_creation"
  THEN EvaluateProcessCreation(parsed, machine_arch)
  ELSE EvaluateFileWatch(parsed)

-----------------------------------------------------------------------------
(* What the evaluation does not look at, as conditions on a rule list.     *)

\* A rule has one ABI at most; no never,exit rule selects an exec call it does not
\* name; off x86-64 there is no never,exit rule.
Interpreted(rules, machine_arch) ==
  /\ \A i \in DOMAIN rules : \A p, q \in PredicatesOn(rules[i], "arch") : p = q
  /\ \A i \in NeverExit(rules) : ~SelectsUnnamed(rules[i])
  /\ machine_arch \in X86 \/ NeverExit(rules) = {}

\* An include rule that selects an exec call without naming it gives all its syscalls by
\* number; auditctl -l prints "-S all" for a rule on every syscall, so one without -S is
\* narrowed by a path.
ListedAsPrinted(rules) ==
  \A i \in Includes(rules) :
    /\ SelectsUnnamed(rules[i]) => rules[i].syscalls \subseteq Numerals
    /\ rules[i].syscalls = {} =>
         \E p \in rules[i].predicates : p.field \notin _NON_NARROWING_FIELDS

\* A rule with permissions is on the exit list, on every syscall, for one ABI of the
\* machine or all of them, with one path or directory and one perm field: auditctl
\* prints it as -w, or as -a with -S all.
WatchesAsPrinted(rules) ==
  \A i \in DOMAIN rules :
    LET r == rules[i]
    IN r.effect = "include" /\ HasPermission(r) =>
         /\ r.scope = "exit" /\ r.syscalls \subseteq {"all"}
         /\ \E arch \in Arches : \A p \in PredicatesOn(r, "arch") : p.op = "eq" /\ p.value = arch
         /\ \A p, q \in PredicatesOn(r, "path") \cup PredicatesOn(r, "dir") : p = q
         /\ \A p, q \in PredicatesOn(r, "perm") : p = q
=============================================================================
