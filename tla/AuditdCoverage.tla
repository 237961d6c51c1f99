--------------------------- MODULE AuditdCoverage ---------------------------
(***************************************************************************)
(* The verdicts of AuditdEvaluate against the events of KernelAudit: an    *)
(* administrator edits the rule list with auditctl, and at every moment    *)
(* the verdict sigmascope would give is compared with what the kernel      *)
(* emits. The edits are external to the repository.                        *)
(***************************************************************************)
EXTENDS AuditdEvaluate

CONSTANTS
  Machines,      \* what platform.machine() may return, with the same ABIs
  RuleChoices,   \* the rules an administrator may load
  MaxRules       \* bound: rules in the list

ASSUME MachinesAssumption == \A machine \in Machines : ABIsOf(machine)

ASSUME RuleChoicesAssumption == RuleChoices \subseteq Rule

VARIABLE rules

Init == rules = <<>>

\* auditctl -a, -A and -D.
AddRule    == Len(rules) < MaxRules /\ \E r \in RuleChoices : rules' = Append(rules, r)
InsertRule == Len(rules) < MaxRules /\ \E r \in RuleChoices : rules' = <<r>> \o rules
DeleteAll  == rules # <<>> /\ rules' = <<>>

Next == AddRule \/ InsertRule \/ DeleteAll

Spec == Init /\ [][Next]_rules

parsed == [determinacy |-> "effective", rules |-> rules]

ProcessVerdict(machine) == EvaluateProcessCreation(parsed, machine)
FileVerdict == EvaluateFileWatch(parsed)

-----------------------------------------------------------------------------

\* The rule list is a sequence of parsed rules.
TypeOK == rules \in Seq(Rule)

\* COVERED is a promise about every exec of every process: whatever else is in the
\* list, each exec call of each ABI is emitted. Off x86-64 that is true of the native ABI only:
\* the code answers COVERED there for rules without an arch selector, which it does not
\* do on x86-64, and they say nothing of the exec calls of another ABI.
CoveredIsSound ==
  \A machine \in Machines :
    Interpreted(rules, machine) /\ ProcessVerdict(machine) = "covered" =>
      EmitsEvery(rules, Established(machine))

\* NOT_COVERED sends an administrator to add rules: it is never said of a list under
\* which an exec is emitted with nothing particular about it.
NotCoveredIsSound ==
  \A machine \in Machines :
    ListedAsPrinted(rules) /\ ProcessVerdict(machine) = "not_covered" => EmitsNoneInGeneral(rules)

\* File events, by first match among all the rules: DEGRADED means that tasks have an
\* audit context and that writes and attribute changes of some path are both emitted,
\* or else notes that rules may suppress them. NOT_COVERED means that tasks have none
\* or that no single watch matches both; two watches of one path that share them count
\* for nothing, nor do rules without a path or without permissions.
FileWatchIsSound ==
  /\ FileVerdict = "degraded" /\ WatchesAsPrinted(rules) =>
       ~NoContext(rules) /\ (Monitored(rules) # {} \/ FileWatchNoted(rules))
  /\ FileVerdict = "not_covered" =>
       NoContext(rules) \/ \A i \in DOMAIN rules : ~WatchesAlone(rules[i])

\* Adding a never rule in front of the list or at its end, as auditctl does, takes
\* events away: it may not turn a host that was not attested COVERED into one that is.
NeverRuleNeverHelps ==
  [][\A r \in RuleChoices, machine \in Machines :
       /\ r.effect = "exclude"
       /\ rules' \in {Append(rules, r), <<r>> \o rules}
       => (ProcessVerdict(machine)' = "covered" => ProcessVerdict(machine) = "covered")]_rules

-----------------------------------------------------------------------------
(* What the repository says without those conditions.                      *)

\* tests/test_auditd.py: an earlier never rule prevents the COVERED verdict.
EarlierNeverPreventsCovered ==
  \A machine \in Machines : ProcessVerdict(machine) = "covered" => EmitsEvery(rules, Established(machine))

\* evaluate/auditd.py: architecture-specific syscall numbers are not guessed, so neither
\* definite verdict may be wrong about a list for the sake of one.
NumericIsNotGuessed ==
  \A machine \in Machines :
    /\ ProcessVerdict(machine) = "covered" => EmitsEvery(rules, Established(machine))
    /\ ProcessVerdict(machine) = "not_covered" => EmitsNoneInGeneral(rules)
=============================================================================
