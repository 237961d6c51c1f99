------------------------------ MODULE LinuxRun ------------------------------
(***************************************************************************)
(* One run on a Linux host: collect_auditd (collect/linux/auditd.py) looks *)
(* for auditctl, lists the rules and reads the status with two commands,   *)
(* and _run_linux (api.py) turns the two texts into findings. The host is  *)
(* live: an administrator edits the rules, switches auditing on and off    *)
(* and restarts the daemon at any moment, between the two commands too.    *)
(***************************************************************************)
EXTENDS AuditdEvaluate, AuditdStatus, Verdicts

CONSTANTS
  MachineArch,   \* platform.machine()
  RuleChoices,   \* the rules an administrator may load
  RuleLists,     \* the lists loaded when the run begins
  Dirs,          \* the standard sbin directories
  Reaches,       \* how a directory may stand to the user of the run, see Reach
  Nothing,       \* Python's None: a text that could not be read
  MaxEdits       \* bound: changes to the host during the run

\* A directory the user may search or not, one behind a parent that the user may not
\* search, and one that does not exist.
Reach == {"open", "closed", "hidden", "missing"}

ASSUME ReachesAssumption == Reaches \subseteq Reach

ASSUME ArchesAssumption == ABIsOf(MachineArch)

ASSUME MaxEditsAssumption == MaxEdits \in Nat

\* What evaluate/auditd.py does not look at (AuditdEvaluate) is not loaded.
ASSUME RulesAssumption ==
  /\ RuleChoices \subseteq Rule
  /\ RuleLists \subseteq Seq(RuleChoices)
  /\ \A r \in RuleChoices : Interpreted(<<r>>, MachineArch) /\ ListedAsPrinted(<<r>>)

VARIABLES
  host,         \* the audit subsystem: enabled, the daemon's pid, the rule list
  disk,         \* where auditctl is
  edits,        \* the changes made to the host so far
  pc,           \* what the run does next
  collection,   \* the AuditdCollection
  errors,       \* the steps a CollectionError was recorded for
  diagnostics,  \* the texts a Diagnostic was issued for
  findings      \* the verdict on each requirement

program == <<pc, collection, errors, diagnostics, findings>>
vars == <<host, disk, edits, program>>

Directory == {d \in [reach : Reaches, file : BOOLEAN] : d.reach = "missing" => ~d.file}

Disk == [on_path : BOOLEAN, dirs : [Dirs -> Directory]]

Init ==
  /\ host \in [enabled : 0 .. 2, pid : {0, 827}, rules : RuleLists]
  /\ disk \in Disk
  /\ edits = 0
  /\ pc = "locate"
  /\ collection = [installed |-> "unknown", effective_rules |-> Nothing, status |-> Nothing]
  /\ errors = {}
  /\ diagnostics = {}
  /\ findings = [q \in Requirement |-> "none"]

-----------------------------------------------------------------------------
(* The host (external).                                                    *)

Edit(h) == edits < MaxEdits /\ edits' = edits + 1 /\ host' = h /\ UNCHANGED <<disk, program>>

\* enabled 2 locks the configuration until the next boot.
Unlocked == host.enabled # 2

AddRule    == Unlocked /\ \E r \in RuleChoices : Edit([host EXCEPT !.rules = Append(@, r)])
InsertRule == Unlocked /\ \E r \in RuleChoices : Edit([host EXCEPT !.rules = <<r>> \o @])
DeleteAll  == Unlocked /\ host.rules # <<>> /\ Edit([host EXCEPT !.rules = <<>>])
SetEnabled == Unlocked /\ \E n \in 0 .. 2 : n # host.enabled /\ Edit([host EXCEPT !.enabled = n])
Restart    == \E n \in {0, 827} : n # host.pid /\ Edit([host EXCEPT !.pid = n])

\* What `auditctl -l` prints: the rules, or for none a notice that there are none.
RulesTexts ==
  {[rules |-> host.rules, notice |-> b] : b \in IF host.rules = <<>> THEN BOOLEAN ELSE {FALSE}}

\* What `auditctl -s` prints: both lines, or a format in which one or both of them
\* are missing or have no number.
Line(key)    == [key |-> key, numeric |-> TRUE, value |-> host[key]]
Garbled(key) == [key |-> key, numeric |-> FALSE, value |-> 0]

StatusTexts ==
  {<<Line("enabled"), Line("pid")>>, <<Line("enabled")>>, <<>>,
   <<Line("enabled"), Garbled("pid")>>, <<Garbled("enabled"), Line("pid")>>}

-----------------------------------------------------------------------------
(* _locate_auditctl.                                                       *)

Exists(d) == disk.dirs[d].reach = "open" /\ disk.dirs[d].file
IsDir(d)  == disk.dirs[d].reach \in {"open", "closed"}
Access(d) == disk.dirs[d].reach = "open"

Found == disk.on_path \/ \E d \in Dirs : Exists(d)

\* Mutants: every search is conclusive; a search that found nothing goes on.
Conclusive_Always == TRUE
AfterSearch_GoOn  == "list"

Conclusive  == ~\E d \in Dirs : IsDir(d) /\ ~Access(d)
AfterSearch == IF Found THEN "list" ELSE "evaluate"

Locate ==
  /\ pc = "locate"
  /\ collection' = [collection EXCEPT !.installed =
                      IF Found THEN "yes" ELSE IF Conclusive THEN "no" ELSE "unknown"]
  /\ errors' = IF Found \/ Conclusive THEN errors ELSE errors \cup {"locate"}
  /\ pc' = AfterSearch
  /\ UNCHANGED <<host, disk, edits, diagnostics, findings>>

-----------------------------------------------------------------------------
(* _auditctl, once with -l and once with -s: the text, or a CollectionError *)
(* on an OSError, a timeout or a nonzero exit.                             *)

\* Mutants: a command that hangs is waited for; a failed listing leaves no trace.
AfterListFails_NoTimeout == "waiting"

ListFails_Silent ==
  pc = "list" /\ pc' = "status" /\ UNCHANGED <<host, disk, edits, collection, errors, diagnostics, findings>>

AfterListFails == "status"

ListRules ==
  /\ pc = "list"
  /\ \E text \in RulesTexts : collection' = [collection EXCEPT !.effective_rules = text]
  /\ pc' = "status"
  /\ UNCHANGED <<host, disk, edits, errors, diagnostics, findings>>

ListFails ==
  /\ pc = "list"
  /\ errors' = errors \cup {"list"}
  /\ pc' = AfterListFails
  /\ UNCHANGED <<host, disk, edits, collection, diagnostics, findings>>

ReadStatus ==
  /\ pc = "status"
  /\ \E text \in StatusTexts : collection' = [collection EXCEPT !.status = text]
  /\ pc' = "evaluate"
  /\ UNCHANGED <<host, disk, edits, errors, diagnostics, findings>>

StatusFails ==
  /\ pc = "status"
  /\ errors' = errors \cup {"status"}
  /\ pc' = "evaluate"
  /\ UNCHANGED <<host, disk, edits, collection, diagnostics, findings>>

-----------------------------------------------------------------------------
(* _run_linux after the collection.                                        *)

\* parse_auditd_rules: a predicate of `-C field=field` is an option it does not know,
\* and so is the notice; either is diagnosed.
Compares(r) == PredicatesOn(r, "compare") # {}

Understood(r) == [r EXCEPT !.predicates = @ \ PredicatesOn(r, "compare")]

RulesDeterminacy(text) ==
  IF text.notice \/ \E i \in DOMAIN text.rules : Compares(text.rules[i])
  THEN "unknown" ELSE "effective"

ParseRules(text) ==
  [determinacy |-> RulesDeterminacy(text),
   rules |-> [i \in DOMAIN text.rules |-> Understood(text.rules[i])]]

\* Gates of a text that could not be read are missing, not zero.
Gate(key) == IF collection.status = Nothing THEN {} ELSE GateValue(collection.status, key)

\* Mutant: a status that was read is taken to be understood.
RuntimeUnknown_Unread == collection.status = Nothing

RuntimeUnknown ==
  \/ collection.status = Nothing
  \/ StatusDeterminacy(collection.status) = "unknown"

\* Mutant: the daemon's pid is not asked.
NotRunning_Enabled == Gate("enabled") = {0}

IsZero(key) == Gate(key) = {0}
NotRunning  == IsZero("enabled") \/ IsZero("pid")

ProviderVerdict(q) ==
  IF collection.installed = "unknown" THEN "indeterminate"
  ELSE IF collection.installed = "no" \/ NotRunning THEN "not_covered"
  ELSE IF RuntimeUnknown \/ collection.effective_rules = Nothing THEN "indeterminate"
  ELSE Evaluate(q, ParseRules(collection.effective_rules), MachineArch)

Report ==
  /\ pc = "evaluate"
  /\ findings' = [q \in Requirement |-> resolve_provider_disjunction(<<ProviderVerdict(q)>>)]
  /\ diagnostics' =
       {t \in {"auditctl -l"} :
          collection.effective_rules # Nothing /\ RulesDeterminacy(collection.effective_rules) = "unknown"}
       \cup
       {t \in {"auditctl -s"} :
          collection.status # Nothing /\ StatusDeterminacy(collection.status) = "unknown"}
  /\ pc' = "done"
  /\ UNCHANGED <<host, disk, edits, collection, errors>>

-----------------------------------------------------------------------------

Host == AddRule \/ InsertRule \/ DeleteAll \/ SetEnabled \/ Restart
Program == Locate \/ ListRules \/ ListFails \/ ReadStatus \/ StatusFails \/ Report

Next == Host \/ Program

Spec == Init /\ [][Next]_vars

\* The program is one thread that the operating system runs; subprocess.run returns
\* within its timeout.
FairSpec == Spec /\ WF_vars(Program)

-----------------------------------------------------------------------------
(* Correctness.                                                            *)

HostState == [enabled : 0 .. 2, pid : {0, 827}, rules : Seq(RuleChoices)]

RulesText == [rules : Seq(RuleChoices), notice : BOOLEAN]

ASSUME NothingAssumption == Nothing \notin RulesText /\ Nothing \notin Seq(StatusLine)

Collection ==
  [installed : {"yes", "no", "unknown"}, effective_rules : {Nothing} \cup RulesText,
   status : {Nothing} \cup Seq(StatusLine)]

Rank == [locate |-> 1, list |-> 2, status |-> 3, evaluate |-> 4, done |-> 5]

Published(stage) == IF stage = "done" THEN Verdict ELSE {"none"}

\* Types, and what each stage may take for granted: commands are run only once
\* auditctl has been found, and there are no findings before the report.
TypeOK ==
  /\ host \in HostState
  /\ disk \in Disk
  /\ edits \in 0 .. MaxEdits
  /\ pc \in DOMAIN Rank
  /\ collection \in Collection
  /\ errors \subseteq {"locate", "list", "status"}
  /\ diagnostics \subseteq {"auditctl -l", "auditctl -s"}
  /\ pc \in {"list", "status"} => collection.installed = "yes"
  /\ findings \in [Requirement -> Published(pc)]

Installed == disk.on_path \/ \E d \in Dirs : disk.dirs[d].file

Running(h) == h.enabled # 0 /\ h.pid # 0

\* Nothing that q asks for is emitted under the rules, for files by a single watch; or
\* everything is.
Missing(q, rules) ==
  IF q = "process_creation" THEN EmitsNoneInGeneral(rules)
  ELSE NoContext(rules) \/ \A i \in DOMAIN rules : ~WatchesAlone(rules[i])

Complete(q, rules) == q = "process_creation" /\ EmitsEvery(rules, Established(MachineArch))

\* On a host nobody touches during the run the report is right about the host: an
\* administrator who is told COVERED gets every event, one who is told DEGRADED has
\* auditing up, and NOT_COVERED is never said of a host that emits.
SoundOnAQuietHost ==
  pc = "done" /\ edits = 0 =>
    \A q \in Requirement :
      /\ findings[q] = "covered" => Installed /\ Running(host) /\ Complete(q, host.rules)
      /\ findings[q] = "degraded" => Installed /\ Running(host)
      /\ findings[q] = "not_covered" =>
           ~Installed \/ ~Running(host) \/ Missing(q, host.rules)

ReadsZero == \E key \in StatusKeys : IsZero(key)

\* README, "Conservative semantics": failures and parser gaps resolve to INDETERMINATE.
\* A definite verdict means that absence was conclusive, or that a status line said
\* zero, or that nothing at all failed, was garbled or was not understood.
DefiniteNeedsEvidence ==
  pc = "done" =>
    \A q \in Requirement :
      findings[q] # "indeterminate" =>
        \/ collection.installed = "no" /\ errors = {}
        \/ ReadsZero
        \/ errors = {} /\ diagnostics = {}

OnlyByNumber ==
  collection.effective_rules # Nothing /\ OnlyNumeric(collection.effective_rules.rules)

\* INDETERMINATE is never silent: the report says what failed or was not understood,
\* unless the rules name the exec calls by number. (Off x86-64 a rule with an arch
\* selector is another reason.)
IndeterminateIsExplained ==
  pc = "done" /\ MachineArch \in X86 =>
    \A q \in Requirement :
      findings[q] = "indeterminate" =>
        errors # {} \/ diagnostics # {} \/ (q = "process_creation" /\ OnlyByNumber)

\* The run ends and reports, whatever fails and however the host is edited.
EventuallyReports == <>(pc = "done")

\* README: when the sbin directories cannot be searched, the installation state stays
\* INDETERMINATE rather than being read as absence.
UnsearchableIsNotAbsence == collection.installed = "no" => ~Installed

-----------------------------------------------------------------------------
(* The run as an Attestation.                                              *)

Gates == {"installed", "enabled", "pid"}

IsBad(f) == IF f = "installed" THEN ~Installed ELSE host[f] = 0

StateOf(q, rules) ==
  IF Missing(q, rules) THEN "bad" ELSE IF Complete(q, rules) THEN "good" ELSE "partial"

truthBar ==
  [f \in Gates \cup Requirement |->
    IF f \in Requirement THEN StateOf(f, host.rules) ELSE IF IsBad(f) THEN "bad" ELSE "good"]

Searched == [yes |-> "good", no |-> "bad", unknown |-> "unknown"]

Looked(stage) == Rank[pc] > Rank[stage] /\ (stage # "locate" => collection.installed = "yes")

KnownGate(key) ==
  IF IsZero(key) THEN "bad" ELSE IF RuntimeUnknown THEN "unknown" ELSE "good"

KnownRules(q) ==
  IF collection.effective_rules = Nothing THEN "unknown"
  ELSE IF Evaluate(q, ParseRules(collection.effective_rules), MachineArch) = "indeterminate" THEN "unknown"
  ELSE StateOf(q, collection.effective_rules.rules)

knownBar ==
  [f \in Gates \cup Requirement |->
    IF f = "installed"
    THEN IF Looked("locate") THEN Searched[collection.installed] ELSE "unseen"
    ELSE IF f \in Requirement
    THEN IF Looked("list") THEN KnownRules(f) ELSE "unseen"
    ELSE IF Looked("status") THEN KnownGate(f) ELSE "unseen"]

A == INSTANCE Attestation WITH
  Facts <- Gates \cup Requirement, Gates <- Gates, Requirements <- Requirement,
  Ways <- [q \in Requirement |-> {Gates \cup {q}}],
  truth <- truthBar, known <- knownBar,
  report <- findings

\* The run keeps the promise of Attestation: each fact is looked at once, with the
\* truth of that moment or nothing, and the verdicts follow from what was learned,
\* also when the host changes between the two commands and the report.
Attested == A!Spec
=============================================================================
