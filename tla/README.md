# A verification of sigmascope in TLA+

sigmascope inspects one host and answers, for each logsource of its catalogue, whether
the host is configured to emit the events a Sigma rule for it would need: COVERED,
DEGRADED, NOT_COVERED or INDETERMINATE. The program is small and sequential; what is hard
about it is that its verdicts are claims about something it does not control. They are
derived from texts with no formal grammar, obtained by commands that may fail one by one,
from a host that changes in the meantime, and are right only if they agree with what the
kernel or Sysmon would emit. The modules here state that agreement, TLC checks it on small
instances, and TLAPS proves most of it for all instances.

## Inventory

| Component | State it keeps | Operations | What makes it correct |
|---|---|---|---|
| `parse/auditd_rules.py` | locals of a line; rules and diagnostics so far | one step per token, one per end of line | each line is a rule that says what the line says, or is diagnosed |
| `parse/auditd_status.py` | gates and diagnostics | a pure function of the lines | the last valid line of a key counts; anything else makes the text unknown |
| `evaluate/auditd.py` | none | `evaluate_process_creation`, `evaluate_file_watch` | verdicts agree with the kernel's first-match semantics |
| `collect/linux/auditd.py` | `AuditdCollection`, errors | search for auditctl, `-l`, `-s` | absence is claimed only if the search was conclusive; a failure leaves an error |
| `api.py`, `_run_linux` | findings, diagnostics, errors | the chain of gates | a definite verdict has its evidence; INDETERMINATE has its reason |
| `model.py`, `evaluate/resolver.py` | providers evaluated so far | disjunction of provider verdicts | definite exactly when open providers cannot change it |
| `parse/sysmon_current.py` | the open block; gates, rules, diagnostics | one step per line of `sysmon -c` | conditions stay with their block; a line not understood makes the dump unknown |
| `evaluate/sysmon.py` | none | `evaluate_event_type` | verdicts agree with what the configuration logs |
| `collect/windows/sysmon.py` | `SysmonCollection` | service queries, locating the executable, `sysmon -c` | as for auditd, with two names a service may have |
| `collect/windows/auditpol_native.py`, `auditpol_cli.py`, `parse/auditpol_csv.py` | states by subcategory, one error | native query, retry with a privilege, fallback to `auditpol` | an answer comes from one path, and the failure of the other is not lost |
| `collect/windows/registry.py`, `channels.py` | gate, channel configuration | one read each | missing is not unreadable |
| `evaluate/windows_gates.py`, `api.py` `_run_windows` | channel cache, findings | the chain of gates per provider | as for Linux, with several providers per requirement |
| `api.py` `run`, `__main__.py` | report, exit status | choice by system, `--fail-on` | the exit status agrees with the report |
| `catalog.py` | constants | none | its names are those the evaluators ask for |
| `report/`, `schema/`, `scripts/` | none | output, packaging | not modelled: no behaviour a verdict depends on |

How they interact: `_run_linux` calls the collector, which runs two commands; it parses the
two texts and asks an evaluator per provider, then `resolve_provider_disjunction` per
requirement. `_run_windows` reads the audit policy (natively, once more with a privilege,
or through `auditpol`), the registry and Sysmon, and then evaluates the providers one by
one, reading an event channel when the first provider needs it and keeping the answer.
There are no threads. The other actors are outside: an administrator who edits rules or
policies, switches auditing, stops or reconfigures a service; the kernel; the user's
permissions.

Hard behaviours, listed line by line under "hazards" in `PROJECT.json`: the order of
never and always rules against the kernel's first match; options of a rule in any order;
partial failure of the collection; a host that changes between the two commands; negative
searches that could not look everywhere; text forms that drift between versions; state
carried from one line or block to the next.

## Modules

| Module | What it is |
|---|---|
| `KernelAudit` | external: which exec calls and file accesses the kernel emits under a rule list, by number and first match |
| `AuditdRules` | `parse_auditd_rules`, token by token |
| `AuditdEvaluate` | `evaluate/auditd.py` as operators, and the conditions under which it is right |
| `AuditdCoverage` | an administrator edits the list; the evaluation against the kernel |
| `AuditdStatus` | `parse_auditd_status` as operators |
| `Verdicts` | the verdict order and `resolve_provider_disjunction` |
| `Attestation` | abstract: a run learns each fact once, and publishes verdicts those facts bear out |
| `LinuxRun` | `collect_auditd` and `_run_linux` on a live host; implements `Attestation` |
| `SysmonEvaluate`, `SysmonConfig` | `evaluate/sysmon.py`; `parse_sysmon_current` line by line |
| `WindowsHost` | external: the Windows host and its administrator; what the parts of a run share |
| `AuditpolCsv`, `AuditPolicy` | `parse_auditpol_csv` as operators; the three ways to the audit policy |
| `SysmonCollect` | `collect_sysmon`: services, executable, `sysmon -c` |
| `WindowsEvaluate` | the Windows catalogue and `evaluate_windows_audit` |
| `WindowsRun` | `_run_windows` on a live host, with registry and channels; implements `Attestation` |
| `CommandLine` | `main` and `run`: the loops over requirements and providers, `--fail-on` |
| `MC*` | values for the constants |
| `*_proofs` | theorems and lemmas of the module they extend |

`LinuxRun` composes `AuditdEvaluate` (over `KernelAudit`), `AuditdStatus` and `Verdicts`;
`AuditdRules` stands alone because its alphabet is tokens, and `LinuxRun` uses what it
establishes (a listing is understood rule by rule, or diagnosed). `WindowsRun` composes
`AuditPolicy` and `SysmonCollect`, which share `WindowsHost`, with `WindowsEvaluate`,
`SysmonEvaluate` and `Verdicts`; `SysmonConfig` stands alone as `AuditdRules` does.
`CommandLine` is around both: it leaves open what a provider's verdict is, which is their
matter, and follows what becomes of it.

### From code to model

* **AuditdRules.** `text` is the list of tokens to come, chosen freely within the
  alphabet; the locals of `_parse_rule` are one record. `TakeAdd`, `RejectAdd`,
  `TakeSyscalls`, `TakeFilter`, ... are the branches of its loop, `EndLine` what follows
  the loop. How a line is split into tokens (`split_options`) and how an `-F` expression is
  cut at its operator (`_filter`) are not modelled: `Tokens` is what comes of them.
* **KernelAudit.** Of the kernel and auditctl the module says three things. The kernel
  compares numbers: auditctl replaces a syscall name by its `Number` in the ABI of the
  rule's arch field, and in the `Native` one if the rule has none, so that a rule without
  an arch field says nothing of the calls of another ABI. It may even match another call
  there: munmap is 11 in b64, as execve is in b32, and a pool of the runs has a rule on it.
  The first rule of the exit list that matches decides, for accesses to files (`FileEvent`) as
  for exec calls; both are checked by the same `Emits`. Permissions are sets of
  letters (`Letters`), in whatever order a perm field gives them.
* **AuditdEvaluate.** `Candidates`, `Covering`, `Preempted`, `Suppression` follow the
  comprehensions of the code, and `machine_arch` is a parameter as it is there. Explanations
  are dropped, but for the one note the property on file events speaks of
  (`FileWatchNoted`). Three named conditions say what the code does not look at:
  `Interpreted` (a rule has one ABI at most, a never,exit rule selects no exec call that it
  does not name, and off x86-64 there is none), `ListedAsPrinted` (an include rule that
  selects an exec call without naming it gives all its syscalls by number; one without `-S`
  is narrowed by a path) and `WatchesAsPrinted` (the forms in which auditctl prints a watch:
  one path, one perm field, no particular syscalls, one ABI or none). None of them says which
  permissions a watch has. `Established` is what COVERED is a claim about: on
  x86-64 every ABI; elsewhere the native one, because it rests there on rules without an
  arch field. The two violation runs on this module show what happens without the first
  two conditions.
* **LinuxRun.** `pc` is the position in `collect_auditd` and `_run_linux`. `Locate` is the
  whole of `_locate_auditctl`; each command is one step that succeeds (`ListRules`,
  `ReadStatus`) with a text the host would print at that moment, or fails (`ListFails`,
  `StatusFails`) for any of OSError, timeout and nonzero exit, which the code treats
  alike. `Report` is everything after the collection, a pure computation. The `Host`
  actions may come anywhere between.
* **SysmonConfig.** A line is a kind, a form ("plain", as the regular expressions expect
  it, or "changed") and a meaning. The parser sees the form; `Logs` uses the meaning.
* **WindowsHost.** The host is one record, each change of which is an action. `faults`
  is a history: which reads failed, or answered in a form nobody expects. The properties
  relate it to what the report says.
* **AuditPolicy.** `pc` is the position in `_native_policy_result`: "query", "privilege",
  "requery" (the query once more, now with the privilege), "auditpol". `QueryDenied` is
  the PermissionError of the first query; every other failure, a second denial included,
  is `QueryFails` or `PrivilegeNotHeld` and leads to `auditpol`. A table is a sequence of rows
  of cells. `AuditpolCsv` finds its columns as the code does, by the first row that has a
  GUID and a setting, and `Tables` holds what a Windows system may print: a blank first
  line, an empty last column, an option's row without a GUID, and a row whose setting is
  empty, foreign or missing.
* **SysmonCollect.** `pc` is the service that is asked for, then "locate" and "ask". A
  blank ImagePath ends in "crashed": the IndexError is caught nowhere, and there is no report.
* **WindowsRun.** `EvaluateProvider` is one round of the loop over the catalogue, with the
  read of the channel inside it when it is the first that needs it (`Channel`, over the
  cache `channels`). A Sysmon provider whose service already decides it reads no channel.
* **CommandLine.** `findings` keeps, next to each verdict, the provider verdicts it comes
  from, so that the properties can speak of them at the end. An exception may end the run
  anywhere (`RunRaises`).

## Runs

| Run | Bounds | What it shows |
|---|---|---|
| `AuditdRules` | two lines, of three and two tokens; every token class, two values where a property tells them apart | `EveryLineAccountedFor`, `RuleMeansItsTokens`: two lines are enough for a local to leak, and three tokens for options in either order around a third, or repeated |
| `AuditdCoverage` | lists of up to four rules from a pool with b64, b32, both exec calls, restrictive predicates, never,exit, never,task, watches with both permissions and with one of them, and rules without an arch; an x86-64 machine and one whose arch selectors the code does not interpret; 292,561 states | `CoveredIsSound`, `NotCoveredIsSound`, `FileWatchIsSound` against the kernel, on either machine; `NeverRuleNeverHelps`: a never rule more, in front of the list or at its end, does not lead to COVERED. Four rules hold a never rule before, between and after the two ABI rules a COVERED list needs |
| `CommandLine` | the catalogue: up to three requirements of up to two providers | 32,336 states. `CommitsAsFarAsKnown`: a disjunction is definite exactly when the open providers cannot change it; `ExitAnswersTheQuestion`, see below |
| `LinuxQuiet` | seven lists, for every outcome of the evaluation, one with a watch split in two; two directories; 44,652 states | `SoundOnAQuietHost`, `DefiniteNeedsEvidence`, `IndeterminateIsExplained` under every combination of failures |
| `LinuxLive` | two changes during the run; 40,274 states | `EventuallyReports`, and `Attested`: the run implements `Attestation`. Two changes put one between the commands and one on either side |
| `SysmonConfig` | dumps of up to six lines, two event types, two fields; 567,422 states | `VerdictIsRight`, `DriftIsOwned`: the summary, the head and four lines hold two blocks with a condition each, or one with three. `Framed`, in both, says that the network-connection line and the head are in the form the parser knows. The parser may return after any line, so that dumps may be truncated or empty: `Whole`, in the first, says that a dump has its head, or says that there are no rules. Without either it does not say what the configuration is |
| `WindowsRun` | four hosts, three Sysmon configurations, one change and two faults during the run; 164,304 states | `SoundOnAQuietHost`, `IndeterminateHasAReason`, `ErrorsAccountForFaults`, `EventuallyReports` and `Attested`, see below |
| `AuditdEarlierNever`, `AuditdNumeric`, `LinuxHiddenSbin`, `WindowsRegistryError`, `SysmonDrift` | as above | each checks one statement of the repository and finds it violated, see below |

Two faults in `WindowsRun` are the least with which the native query and `auditpol` both
fail, or a failed query is answered by a table with an odd row, or one channel and another
read fail. One change is enough for a fact to differ between the
moment it is read and the moment it is used; the hosts are chosen so that a single change
leads from one verdict to another, under both names of the service, with the executable
where the service says, only on PATH, or nowhere. Each read happens once, so a second
change of the same fact is seen no differently from the first.

**What is said of a Windows run.** `SoundOnAQuietHost` compares the report with the host
when nobody touched it. It excludes two faults (`Usual`): policy flags of an unknown
combination, whose word "unknown:5" the evaluation reads as not auditing, and a
`sysmon -c` that succeeds and prints nothing, which is taken for a configuration without
rules. `IndeterminateHasAReason` is the converse, per provider: a doubt comes from a read
of that provider's own, never from another's. `ErrorsAccountForFaults`: each failure that
raises an error is in the errors of the report, once, also when several providers need the
same channel, or when `auditpol` answered in the stead of the native query. Two failures
raise none (`ErrorOf`). That of the registry leaves a diagnostic, and the property says so;
`WindowsRegistryError` shows it against the documentation. That of the ImagePath is passed
over, since `_service_image_path` returns None for it: if PATH has Sysmon nothing tells of
it, and else the report has the error of an executable that was not found. That error
says no more than the property does: a path was not read, or the one read names no file.
`EventuallyReports` holds from every state in which the ImagePath is not blank.
`Attested`, with the host changing, says that a verdict follows from what was read, each
fact once, at the moment of its reading; `WaysOf` lists, per requirement, the facts that
each of its providers needs.

**What the exit status means.** `ExitAnswersTheQuestion`: the status is 3 exactly when
`--fail-on` was given and some requirement is either not certain to reach a degree of
coverage it accepts (`Certainly`: for every outcome of the open providers, an accepted
degree) or its degree is not known (`Known`: one degree for every outcome). The second is
the code's own choice, since INDETERMINATE is past every threshold. It makes
the status strict: of a requirement one of whose providers is DEGRADED and one INDETERMINATE it
is certain that it is covered at least in part, and `--fail-on not_covered` gives 3.

A mutant in `PROJECT.json` is a plausible slip in the code (a local not reset, a gate
not asked, an effect not compared, a cache that forgets) that the property next to it then
catches; every property of a passing run has one.

**Fairness.** `LinuxLive` and `WindowsRun` assume weak fairness of `Program`, the run's own
steps taken together, and no other run assumes any. The run is one thread, its loops are
over finite lists, system calls return and `subprocess.run` has a timeout, so that some
step is always taken. Nothing is assumed of the host, and neither success nor failure of a
read is.

**Deadlock** is not checked where the program ends: runs stop at "done" or "crashed".

## Findings

1. `AuditdEarlierNever`: off x86-64 a list is COVERED although a never,exit rule in front of
   its only always,exit rule suppresses execve of the native ABI; the order of rules is looked
   at on x86-64 only. Both rules are without an arch field.
2. `AuditdNumeric`: the code says that syscall numbers are not guessed. An always,exit
   rule that mixes execve's number with a name is taken to select neither exec call:
   NOT_COVERED, although execve is emitted. A never,exit rule that gives execve by number
   is taken not to concern it: COVERED, although it is suppressed.
3. `LinuxHiddenSbin`: an sbin directory below one the user may not search counts as
   absent, against the README's promise.
4. `WindowsRegistryError`: a registry value the user may not read is a diagnostic but no
   collection error, as `docs/POC_VALIDATION.md` demands; the provider is INDETERMINATE,
   as it should be.
5. `SysmonDrift`: lines before the rule section that are not understood are skipped
   without a diagnostic, and event types that are not logged are COVERED: network
   connections when the line that disables them is in an unknown form.

What the verdicts do not claim, and where a reader may expect more of them:

* Off x86-64 COVERED rests on rules without an arch field, which on x86-64 give DEGRADED with
  the message that 32-bit coverage cannot be established. A 64-bit ARM host that runs 32-bit
  programs is COVERED with none of their exec calls emitted. `CoveredIsSound` holds COVERED
  to the native ABI there, and says so.
* Two watches of one path, one for writes and one for attributes, monitor the path and
  count for nothing: NOT_COVERED, as the code asks for one watch with both permissions. So
  do a rule with permissions and no path, and one with a path and no permissions.
  `FileWatchIsSound` has no condition on NOT_COVERED and allows it in these cases.
* DEGRADED for file events does not look at where a never,exit rule stands. The property has
  the kernel's first match for files as well, and lets DEGRADED note the rule instead.

## Proofs

All theorems are proved for every value of the constants under the assumptions the modules
name. None uses a bound of the runs.

* **Parser** (`AuditdRules_proofs`). `EveryLineIsAccountedFor`, from an invariant that
  counts: every line ended so far is in the result or among the diagnosed, and rules are
  numbered by their place. It needs the type invariant, because whether a line gives a rule
  depends on which locals have a value. `RuleMeansItsTokensHolds`: the invariant `Understood`
  says that, unless an issue was noted, the locals hold exactly what the tokens of the line
  so far say, whatever their order; of two actions on one line the last counts in the code
  and in the meaning alike, and the step to one more token (`OneMoreToken`) has to show it.
* **Evaluation** (`AuditdEvaluate_proofs`). For every list of interpreted rules COVERED
  implies that the kernel emits every exec call of the ABIs it speaks of
  (`CoveredEmitsEvery`): take the first covering rule of the ABI and call, show that the
  kernel matches it by number, because the name it gives is looked up in that ABI, and that
  no never,exit rule before it does, since otherwise the list would be preempted or select a
  call it does not name. That a first rule exists is the well-foundedness of the order on
  the naturals. Off x86-64 the covering rule has no arch field, and its names are looked up
  in the native ABI: it is there that the proof needs `Established`.
  `NotCoveredEmitsNone` is the other direction. `FileWatchDegraded`: a target of the code is
  the path of a rule that matches writes and attribute changes alike, and either no
  never rule is in the list, so that the first match emits both, or it is noted.
  `FileWatchNotCovered` has no condition on the list: a single rule that matches both has a
  perm field with both letters and a path or directory, which makes it a target.
  `AuditdCoverage_proofs` makes them invariants of the editing administrator, on every
  machine. `NeverRuleNeverHelpsHolds` is of two lists: with a never rule more, at either end
  of the list, the candidates are the same rules, if need be one place further on (`SameCandidates`), and
  whatever suppressed or pre-empted before still does, so that a list COVERED with the rule
  was COVERED without it (`CoveredBefore`).
* **Disjunction and exit status** (`Verdicts_proofs`, `CommandLine_proofs`). A disjunction
  of any number of verdicts has a best one and resolves to it (`ResolvesToTheBest`). The
  invariant is that each finding is the disjunction of as many verdicts as its requirement
  has providers, and that a status of 0 or 3 was computed from the findings as they stand.
  From it follow `CommitsAsFarAsKnownHolds` and `ExitAnswersTheQuestionHolds` for every
  catalogue in which each requirement has a provider (`MappingsAssumption`). For the second,
  a definite finding is what its providers come to however the open ones turn out, so that
  it is accepted exactly if an accepted degree is reached in each case; and a finding is
  INDETERMINATE exactly if it is not known.
* **Run** (`LinuxRun_proofs`). Three invariants carry it. `Evidence` relates the errors to
  the missing texts at every stage; it is needed because `DefiniteNeedsEvidence` speaks
  only of the end of the run, and what failed earlier is visible at the end only through
  it. `Reported` says that the findings stay those of the collection. `Quiet` says that,
  until the first change, each text is one the host would still print and the search was
  over the same disk. From them follow `DefiniteNeedsEvidenceHolds`,
  `IndeterminateIsExplainedHolds`, and, with the theorems on the evaluation,
  `SoundOnAQuietHostHolds` provided no directory is hidden; `LinuxHiddenSbin` shows that
  the proviso is needed.
* **Refinement of Linux** (`AttestedHolds`, in the same module). Four tables (`KnownFacts`,
  `TruthFacts`, and both primed) say what is known and what is true of each kind of fact.
  With them `Locate`, the reading of the rules and that of the status are each a `Look` at
  the facts they settle, `Report` is a `Publish` whose verdict the known facts bear out
  (`VerdictIsBorne`), and an edit of the host changes only what is true. It assumes that no
  directory is hidden.
* **Sysmon parser** (`SysmonConfig_proofs`). `VerdictIsRightHolds` and `DriftIsOwnedHolds`,
  for dumps of any length. `VerdictIsRight` is far from inductive. The invariant `Inv` adds,
  as long as nothing was diagnosed, that the rules found so far, with the one still open,
  are the blocks read so far, each with its own conditions (`Faithful`), and that
  every line so far that is not in the form the parser knows is diagnosed (`Owned`). That no
  condition strays into another block is what `Faithful` says; the type invariant
  (`TypeCorrect`) only has it that blocks are well formed and one at most is open.
* **Windows run** (`WindowsRun_proofs`). `ErrorsAccountForFaultsHolds` needs to know that
  no read is listed twice: the invariant `Accounted` says that the sources still to be read
  at the current stage are not among the errors. Of the two failures that raise no error a
  second invariant, `Noticed`, keeps account: the diagnostic of the registry is there
  from the moment of its failure, and an executable that was not found has its cause. `SoundOnAQuietHostHolds` has the invariant
  `Quiet`: while nobody has touched the host and the faults are the usual ones, what was
  learned of each gate is true or is known not to be known, for every gate by the read that
  yields it (`ReadPolicyTells`, `CollectSysmonTells`, `RegistryTells`,
  `EvaluateProviderTells`). `IndeterminateHasAReasonHolds` has the converse invariant,
  `Doubt`: while nobody has touched the host, each answer that is missing, from the word of
  a subcategory to the dump, has the fault, or the ambiguity of the host, that it is missing
  for, and no other provider's. Under both lies `TableIsTrue`: of every subcategory that is audited
  the table of `auditpol` tells the truth unless that subcategory's own row is odd, whichever
  rows come first and wherever the columns are found. `ConfigsAssumption` is used here: what
  Sysmon is configured to log has no unknown part, only a dump of it has.

* **Refinement of Windows** (`AttestedHolds`, in the same module). The facts are read one
  by one and in several ways, so each kind has its own lemma on what a step learns of it:
  the truth of that moment, or that it cannot be known (`Learned`). Two invariants carry
  it. `Informed` says which answers are still missing at each stage, and what the search
  for the service has come to; with it every step before the report is a `Look`
  (`LookingIsLook`). `Borne` says that every verdict given so far is borne out by what is
  known, as long as the faults are usual ones; it stays so because what was learned is not
  forgotten (`BearsStays`), which is what the cache of the channels is for. At the report the
  best verdict decides, and the others are no better (`BestIsJustified`), so that it is a
  `Publish`; a report after an unusual fault is, by the mapping, no step of `Attestation`.

Of what the passing runs check only `EventuallyReports`, of either host, is not proved:
liveness under fairness is beyond the prover.

## Not modelled

The wording of explanations, messages and output; evidence lists; the contents of the demo
report but its verdict; renderers, schema and scripts; the description of the host in the
report. Of the Windows calls: handles, buffers and tokens, whose mishandling would not show
in a verdict, and the forms a path may have. The gates of ImageLoad and ProcessAccess,
which no parser produces. Processes that existed before a never,task rule was loaded keep
their audit context: the verdicts, and `KernelAudit`, speak of processes created from then
on. Two Sysmon services at once: Sysmon installs one, under the name of its executable; the
code would look at Sysmon64 alone.

## Plan

**From the lines of a dump to the run.** `SysmonConfig_proofs` shows what is parsed of any
dump, `WindowsRun` takes a parsed dump to be the configuration or one that has drifted. A
theorem should join the two: whatever a configuration is printed as, what the parser makes
of it is one of the dumps of `AskConfig`.

**From the lines of `auditctl` to the run**, likewise: `AuditdRules_proofs` has what each line
means, and `LinuxRun` a text with its interpreted rules.
