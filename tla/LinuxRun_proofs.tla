--------------------------- MODULE LinuxRun_proofs ---------------------------
(***************************************************************************)
(* What holds of every run on a Linux host, whatever the rules on it, the  *)
(* directories searched, and the number of changes made meanwhile.         *)
(***************************************************************************)
EXTENDS LinuxRun, AuditdEvaluate_proofs

\* A requirement of the Linux catalogue has one provider, whose verdict is the finding.
LEMMA OneProvider ==
  ASSUME NEW v \in Verdict
  PROVE  resolve_provider_disjunction(<<v>>) = v
<1>1. _PROVIDER_ORDER[v] \in Int
  BY DEF _PROVIDER_ORDER, Verdict
<1>2. \A j \in DOMAIN <<v>> : _PROVIDER_ORDER[<<v>>[j]] <= _PROVIDER_ORDER[<<v>>[1]]
  BY <1>1
<1>3. Best(<<v>>) \in DOMAIN <<v>>
  BY <1>2 DEF Best
<1> QED
  BY <1>3 DEF resolve_provider_disjunction

\* Every branch of the evaluation ends in a verdict.
LEMMA EvaluateGivesVerdict ==
  ASSUME NEW q, NEW parsed
  PROVE  Evaluate(q, parsed, MachineArch) \in Verdict
<1>1. Suppression(parsed.rules) \in {"none", "degraded", "not_covered"}
  BY DEF Suppression
<1>2. EvaluateX86(parsed.rules) \in Verdict /\ EvaluateOtherArch(parsed.rules) \in Verdict
  BY DEF EvaluateX86, EvaluateOtherArch, Verdict
<1>3. EvaluateProcessCreation(parsed, MachineArch) \in Verdict
  BY <1>1, <1>2 DEF EvaluateProcessCreation, Verdict
<1>4. EvaluateFileWatch(parsed) \in Verdict
  BY DEF EvaluateFileWatch, Verdict
<1> QED
  BY <1>3, <1>4 DEF Evaluate

\* So does every branch of the chain of gates in _run_linux.
LEMMA ProviderGivesVerdict ==
  ASSUME NEW q
  PROVE  ProviderVerdict(q) \in Verdict
  BY EvaluateGivesVerdict DEF ProviderVerdict, Verdict

\* What auditctl prints is of the type that the collection declares.
LEMMA TextsAreTexts ==
  ASSUME TypeOK
  PROVE  RulesTexts \subseteq RulesText /\ StatusTexts \subseteq Seq(StatusLine)
<1>0. host \in HostState
  BY DEF TypeOK
<1>1. RulesTexts \subseteq RulesText
  <2>1. host.rules \in Seq(RuleChoices)
    BY <1>0 DEF HostState
  <2>2. \A b \in BOOLEAN : [rules |-> host.rules, notice |-> b] \in RulesText
    BY <2>1 DEF RulesText
  <2> QED
    BY <2>2 DEF RulesTexts
<1>2. host.enabled \in Nat /\ host.pid \in Nat
  <2>1. host.enabled \in 0 .. 2 /\ host.pid \in {0, 827}
    BY <1>0 DEF HostState
  <2> QED
    BY <2>1
<1>3. /\ Line("enabled") \in StatusLine /\ Line("pid") \in StatusLine
      /\ Garbled("enabled") \in StatusLine /\ Garbled("pid") \in StatusLine
  BY <1>2 DEF Line, Garbled, StatusLine, StatusKeys
<1>4. StatusTexts \subseteq Seq(StatusLine)
  BY <1>3 DEF StatusTexts
<1> QED
  BY <1>1, <1>4

\* Each step of the collection fills in one field and leaves the others alone.
LEMMA FillInstalled ==
  ASSUME NEW c \in Collection, NEW v \in {"yes", "no", "unknown"},
         NEW d, d = [c EXCEPT !.installed = v]
  PROVE  /\ d \in Collection /\ d.installed = v
         /\ d.effective_rules = c.effective_rules /\ d.status = c.status
  BY DEF Collection

\* The same of the listing.
LEMMA FillRules ==
  ASSUME NEW c \in Collection, NEW t \in RulesText, NEW d, d = [c EXCEPT !.effective_rules = t]
  PROVE  /\ d \in Collection /\ d.effective_rules = t
         /\ d.installed = c.installed /\ d.status = c.status
  BY DEF Collection

\* The same of the status.
LEMMA FillStatus ==
  ASSUME NEW c \in Collection, NEW t \in Seq(StatusLine), NEW d, d = [c EXCEPT !.status = t]
  PROVE  /\ d \in Collection /\ d.status = t
         /\ d.installed = c.installed /\ d.effective_rules = c.effective_rules
  BY DEF Collection

-----------------------------------------------------------------------------
(* Types.                                                                  *)

\* An administrator changes the host and nothing that belongs to the run.
LEMMA HostSteps ==
  ASSUME Host
  PROVE  UNCHANGED <<disk, program>> /\ edits < MaxEdits /\ edits' = edits + 1
<1>1. CASE AddRule \/ InsertRule \/ DeleteAll
  BY <1>1 DEF AddRule, InsertRule, DeleteAll, Edit
<1>2. CASE SetEnabled
  <2>1. PICK n \in 0 .. 2 : Edit([host EXCEPT !.enabled = n])
    BY <1>2 DEF SetEnabled
  <2> QED
    BY <2>1 DEF Edit
<1>3. CASE Restart
  <2>1. PICK n \in {0, 827} : Edit([host EXCEPT !.pid = n])
    BY <1>3 DEF Restart
  <2> QED
    BY <2>1 DEF Edit
<1> QED
  BY <1>1, <1>2, <1>3 DEF Host

\* Whoever replaces the rules by other rules leaves a host.
LEMMA RulesReplaced ==
  ASSUME NEW h \in HostState, NEW rules \in Seq(RuleChoices)
  PROVE  [h EXCEPT !.rules = rules] \in HostState
  BY DEF HostState

\* Rules come from the choices however the list is edited.
LEMMA HostType ==
  ASSUME TypeOK, Host
  PROVE  host' \in HostState
<1>0. host \in HostState
  BY DEF TypeOK
<1>r. host.rules \in Seq(RuleChoices)
  BY <1>0 DEF HostState
<1>1. CASE AddRule
  <2>1. PICK r \in RuleChoices : host' = [host EXCEPT !.rules = Append(host.rules, r)]
    BY <1>1 DEF AddRule, Edit
  <2>2. Append(host.rules, r) \in Seq(RuleChoices)
    BY <1>r
  <2> QED
    BY <1>0, <2>1, <2>2, RulesReplaced
<1>2. CASE InsertRule
  <2>1. PICK r \in RuleChoices : host' = [host EXCEPT !.rules = <<r>> \o host.rules]
    BY <1>2 DEF InsertRule, Edit
  <2>2. <<r>> \o host.rules \in Seq(RuleChoices)
    BY <1>r
  <2> QED
    BY <1>0, <2>1, <2>2, RulesReplaced
<1>3. CASE DeleteAll
  <2>1. host' = [host EXCEPT !.rules = <<>>]
    BY <1>3 DEF DeleteAll, Edit
  <2>2. <<>> \in Seq(RuleChoices)
    OBVIOUS
  <2> QED
    BY <1>0, <2>1, <2>2, RulesReplaced
<1>4. CASE SetEnabled
  <2>1. PICK n \in 0 .. 2 : host' = [host EXCEPT !.enabled = n]
    BY <1>4 DEF SetEnabled, Edit
  <2> QED
    BY <1>0, <2>1 DEF HostState
<1>5. CASE Restart
  <2>1. PICK n \in {0, 827} : host' = [host EXCEPT !.pid = n]
    BY <1>5 DEF Restart, Edit
  <2> QED
    BY <1>0, <2>1 DEF HostState
<1> QED
  BY <1>1, <1>2, <1>3, <1>4, <1>5 DEF Host

\* Before the report there is nothing in place of the findings.
LEMMA Stages ==
  /\ DOMAIN Rank = {"locate", "list", "status", "evaluate", "done"}
  /\ \A p \in {"locate", "list", "status", "evaluate"} : Published(p) = {"none"}
  BY DEF Rank, Published

\* The types of the state and of what is known at each stage hold of every run: above
\* all, no command is run before auditctl is found and nothing is reported too early.
THEOREM TypeCorrect == Spec => []TypeOK
<1>1. Init => TypeOK
  BY RulesAssumption, MaxEditsAssumption, Stages
     DEF Init, TypeOK, HostState, Disk, Directory, Collection
<1>2. TypeOK /\ [Next]_vars => TypeOK'
  <2> SUFFICES ASSUME TypeOK, [Next]_vars PROVE TypeOK'
    OBVIOUS
  <2>c. collection \in Collection
    BY DEF TypeOK
  <2>e. edits \in 0 .. MaxEdits
    BY Zenon DEF TypeOK
  <2>0. /\ host \in HostState /\ disk \in Disk
        /\ errors \subseteq {"locate", "list", "status"}
        /\ diagnostics \subseteq {"auditctl -l", "auditctl -s"}
    BY Zenon DEF TypeOK
  <2>f. /\ findings \in [Requirement -> Published(pc)]
        /\ pc \in {"list", "status"} => collection.installed = "yes"
    BY Zenon DEF TypeOK
  <2>1. CASE Host
    <3>1. UNCHANGED <<disk, pc, collection, errors, diagnostics, findings>>
      BY <2>1, HostSteps DEF program
    <3>2. edits' \in 0 .. MaxEdits
      <4>1. edits < MaxEdits /\ edits' = edits + 1
        BY <2>1, HostSteps
      <4> HIDE DEF Host
      <4> QED
        BY <2>e, <4>1, MaxEditsAssumption
    <3>3. host' \in HostState
      BY <2>1, HostType
    <3> HIDE DEF Host
    <3> QED
      BY <3>1, <3>2, <3>3 DEF TypeOK
  <2>2. CASE Locate
    <3>0. PICK v \in {"yes", "no", "unknown"} :
            collection' = [collection EXCEPT !.installed = v] /\ (Found => v = "yes")
      BY <2>2 DEF Locate
    <3>1. collection' \in Collection /\ collection'.installed = v
      BY <2>c, <3>0, FillInstalled
    <3>2. pc' = "list" => collection'.installed = "yes"
      BY <2>2, <3>0, <3>1 DEF Locate, AfterSearch
    <3>3. pc = "locate" /\ pc' \in {"list", "evaluate"} /\ UNCHANGED <<host, disk, edits, diagnostics, findings>>
      BY <2>2 DEF Locate, AfterSearch
    <3>4. errors' \subseteq {"locate", "list", "status"}
      BY <2>0, <2>2 DEF Locate
    <3> QED
      BY <2>0, <2>c, <2>e, <2>f, <3>1, <3>2, <3>3, <3>4, Stages DEF TypeOK
  <2>3. CASE ListRules
    <3>1. PICK t \in RulesTexts : collection' = [collection EXCEPT !.effective_rules = t]
      BY <2>3 DEF ListRules
    <3>2. t \in RulesText
      BY TextsAreTexts
    <3>3. collection' \in Collection /\ collection'.installed = collection.installed
      BY <2>c, <3>1, <3>2, FillRules
    <3>4. pc = "list" /\ pc' = "status" /\ UNCHANGED <<host, disk, edits, errors, diagnostics, findings>>
      BY <2>3 DEF ListRules
    <3> QED
      BY <2>0, <2>c, <2>e, <2>f, <3>3, <3>4, Stages DEF TypeOK
  <2>4. CASE ListFails
    <3>1. /\ pc = "list" /\ pc' = "status" /\ errors' = errors \cup {"list"}
          /\ UNCHANGED <<host, disk, edits, collection, diagnostics, findings>>
      BY <2>4 DEF ListFails, AfterListFails
    <3> QED
      BY <2>0, <2>c, <2>e, <2>f, <3>1, Stages DEF TypeOK
  <2>5. CASE ReadStatus
    <3>1. PICK t \in StatusTexts : collection' = [collection EXCEPT !.status = t]
      BY <2>5 DEF ReadStatus
    <3>2. t \in Seq(StatusLine)
      BY TextsAreTexts
    <3>3. collection' \in Collection
      BY <2>c, <3>1, <3>2, FillStatus
    <3>4. pc = "status" /\ pc' = "evaluate" /\ UNCHANGED <<host, disk, edits, errors, diagnostics, findings>>
      BY <2>5 DEF ReadStatus
    <3> QED
      BY <2>0, <2>c, <2>e, <2>f, <3>3, <3>4, Stages DEF TypeOK
  <2>6. CASE StatusFails
    <3>1. /\ pc = "status" /\ pc' = "evaluate" /\ errors' = errors \cup {"status"}
          /\ UNCHANGED <<host, disk, edits, collection, diagnostics, findings>>
      BY <2>6 DEF StatusFails
    <3> QED
      BY <2>0, <2>c, <2>e, <2>f, <3>1, Stages DEF TypeOK
  <2>7. CASE Report
    <3>1. findings' \in [Requirement -> Verdict]
      BY <2>7, ProviderGivesVerdict, OneProvider DEF Report
    <3>2. pc' = "done" /\ UNCHANGED <<host, disk, edits, collection, errors>>
      BY <2>7 DEF Report
    <3>3. diagnostics' \subseteq {"auditctl -l", "auditctl -s"}
      BY <2>7 DEF Report
    <3>4. findings' \in [Requirement -> Published(pc')]
      BY <3>1, <3>2 DEF Published
    <3> QED
      BY <2>0, <2>c, <2>e, <3>2, <3>3, <3>4, Stages DEF TypeOK
  <2>8. CASE UNCHANGED vars
    BY <2>8, Zenon DEF vars, program, TypeOK
  <2> QED
    BY <2>1, <2>2, <2>3, <2>4, <2>5, <2>6, <2>7, <2>8 DEF Next, Program
<1> QED
  BY <1>1, <1>2, PTL DEF Spec

-----------------------------------------------------------------------------
(* Evidence: what the errors and the texts of the collection say of one    *)
(* another at every stage, so that the report can be read off from them.   *)

Evidence ==
  /\ pc \in {"locate", "list"} => errors = {} /\ collection.effective_rules = Nothing
  /\ pc \in {"locate", "list", "status"} => collection.status = Nothing
  /\ collection.installed = "no" => errors = {}
  /\ pc = "locate" => collection.installed = "unknown"
  /\ pc # "locate" => (collection.installed = "unknown" <=> "locate" \in errors)
  /\ pc = "status" => "status" \notin errors
  /\ collection.installed = "yes" /\ pc \in {"status", "evaluate", "done"} =>
       (collection.effective_rules = Nothing <=> "list" \in errors)
  /\ collection.installed = "yes" /\ pc \in {"evaluate", "done"} =>
       (collection.status = Nothing <=> "status" \in errors)

Reported ==
  pc = "done" =>
    /\ findings = [q \in Requirement |-> ProviderVerdict(q)]
    /\ "auditctl -l" \in diagnostics <=>
         collection.effective_rules # Nothing /\ RulesDeterminacy(collection.effective_rules) = "unknown"
    /\ "auditctl -s" \in diagnostics <=>
         collection.status # Nothing /\ StatusDeterminacy(collection.status) = "unknown"

\* Each step of the collection leaves a text, or an error in its place.
LEMMA EvidenceStep == TypeOK /\ Evidence /\ [Next]_vars => Evidence'
<1> SUFFICES ASSUME TypeOK, Evidence, [Next]_vars PROVE Evidence'
  OBVIOUS
<1>0. collection \in Collection /\ pc \in DOMAIN Rank /\ errors \subseteq {"locate", "list", "status"}
      /\ (pc \in {"list", "status"} => collection.installed = "yes")
  BY DEF TypeOK
<1>1. CASE Host
  <2>1. UNCHANGED <<pc, collection, errors>>
    BY <1>1, HostSteps DEF program
  <2> QED
    BY <2>1 DEF Evidence
<1>2. CASE Locate
  <2>1. PICK v \in {"yes", "no", "unknown"} :
          /\ collection' = [collection EXCEPT !.installed = v]
          /\ v = "unknown" <=> ~Found /\ ~Conclusive
          /\ v = "yes" <=> Found
    BY <1>2 DEF Locate
  <2>2. /\ collection'.installed = v
        /\ collection'.effective_rules = Nothing /\ collection'.status = Nothing
    <3>1. collection.effective_rules = Nothing /\ collection.status = Nothing
      BY <1>2 DEF Locate, Evidence
    <3> QED
      BY <1>0, <2>1, <3>1, FillInstalled
  <2>3. errors' = IF v = "unknown" THEN {"locate"} ELSE {}
    BY <1>2, <2>1 DEF Locate, Evidence
  <2>4. pc' = IF v = "yes" THEN "list" ELSE "evaluate"
    BY <1>2, <2>1 DEF Locate, AfterSearch
  <2> QED
    BY <2>2, <2>3, <2>4 DEF Evidence
<1>3. CASE ListRules
  <2>1. PICK t \in RulesTexts : collection' = [collection EXCEPT !.effective_rules = t]
    BY <1>3 DEF ListRules
  <2>2. t # Nothing
    BY TextsAreTexts, NothingAssumption
  <2>3. /\ collection'.installed = "yes" /\ collection'.status = Nothing
        /\ collection'.effective_rules = t
    <3>1. collection.installed = "yes" /\ collection.status = Nothing
      BY <1>0, <1>3 DEF ListRules, Evidence
    <3> QED
      BY <1>0, <2>1, <3>1, TextsAreTexts, FillRules
  <2> QED
    BY <1>3, <2>2, <2>3 DEF ListRules, Evidence
<1>4. CASE ListFails
  BY <1>0, <1>4 DEF ListFails, AfterListFails, Evidence
<1>5. CASE ReadStatus
  <2>1. PICK t \in StatusTexts : collection' = [collection EXCEPT !.status = t]
    BY <1>5 DEF ReadStatus
  <2>2. t # Nothing
    BY TextsAreTexts, NothingAssumption
  <2>3. /\ collection'.installed = "yes" /\ collection'.status = t
        /\ collection'.effective_rules = collection.effective_rules
    <3>1. collection.installed = "yes"
      BY <1>0, <1>5 DEF ReadStatus
    <3> QED
      BY <1>0, <2>1, <3>1, TextsAreTexts, FillStatus
  <2> QED
    BY <1>0, <1>5, <2>2, <2>3 DEF ReadStatus, Evidence
<1>6. CASE StatusFails
  BY <1>0, <1>6 DEF StatusFails, Evidence
<1>7. CASE Report
  BY <1>7 DEF Report, Evidence
<1>8. CASE UNCHANGED vars
  BY <1>8 DEF vars, program, Evidence
<1> QED
  BY <1>1, <1>2, <1>3, <1>4, <1>5, <1>6, <1>7, <1>8 DEF Next, Program

\* The report is computed from the collection, which nothing changes afterwards.
LEMMA ReportedStep == TypeOK /\ Reported /\ [Next]_vars => Reported'
<1> SUFFICES ASSUME TypeOK, Reported, [Next]_vars PROVE Reported'
  OBVIOUS
<1>1. CASE pc = "done"
  <2>1. UNCHANGED <<pc, collection, findings, diagnostics>>
    BY <1>1, HostSteps
       DEF Next, Program, Locate, ListRules, ListFails, ReadStatus, StatusFails, Report, vars, program
  <2>2. \A q : ProviderVerdict(q)' = ProviderVerdict(q)
    BY <2>1 DEF ProviderVerdict, NotRunning, IsZero, Gate, RuntimeUnknown
  <2> QED
    BY <1>1, <2>1, <2>2 DEF Reported
<1>2. CASE Report
  <2>1. findings' = [q \in Requirement |-> ProviderVerdict(q)]
    BY <1>2, ProviderGivesVerdict, OneProvider DEF Report
  <2>2. UNCHANGED collection
    BY <1>2 DEF Report
  <2>3. \A q : ProviderVerdict(q)' = ProviderVerdict(q)
    BY <2>2 DEF ProviderVerdict, NotRunning, IsZero, Gate, RuntimeUnknown
  <2> QED
    BY <1>2, <2>1, <2>2, <2>3 DEF Report, Reported
<1>3. CASE pc # "done" /\ ~Report
  <2>1. pc' # "done"
    BY <1>3, HostSteps
       DEF Next, Program, Locate, AfterSearch, ListRules, ListFails, AfterListFails, ReadStatus,
           StatusFails, vars, program
  <2> QED
    BY <2>1 DEF Reported
<1> QED
  BY <1>1, <1>2, <1>3

\* At every stage of a run the errors account for exactly the texts that are missing,
\* and the findings and diagnostics are those of the collection.
THEOREM EvidenceHolds == Spec => []Evidence /\ []Reported
<1>1. Init => Evidence /\ Reported
  BY DEF Init, Evidence, Reported
<1> QED
  BY <1>1, EvidenceStep, ReportedStep, TypeCorrect, PTL DEF Spec

-----------------------------------------------------------------------------
(* What the verdicts say of the evidence.                                  *)

\* Rules that were not all understood are never evaluated.
LEMMA UnknownIsIndeterminate ==
  ASSUME NEW q, NEW parsed, parsed.determinacy = "unknown"
  PROVE  Evaluate(q, parsed, MachineArch) = "indeterminate"
  BY DEF Evaluate, EvaluateProcessCreation, EvaluateFileWatch

\* Whatever fails and however the host is edited, a definite verdict has its evidence.
THEOREM DefiniteNeedsEvidenceHolds == Spec => []DefiniteNeedsEvidence
<1>1. TypeOK /\ Evidence /\ Reported => DefiniteNeedsEvidence
  <2> SUFFICES ASSUME TypeOK, Evidence, Reported, pc = "done", NEW q \in Requirement,
                      findings[q] # "indeterminate", ~(collection.installed = "no" /\ errors = {}), ~ReadsZero
               PROVE  errors = {} /\ diagnostics = {}
    BY DEF DefiniteNeedsEvidence
  <2>0. collection \in Collection /\ errors \subseteq {"locate", "list", "status"}
        /\ diagnostics \subseteq {"auditctl -l", "auditctl -s"}
    BY DEF TypeOK
  <2>1. ProviderVerdict(q) # "indeterminate"
    BY DEF Reported
  <2>2. collection.installed = "yes"
    BY <2>0, <2>1 DEF ProviderVerdict, Evidence, Collection
  <2>3. ~NotRunning
    BY DEF NotRunning, ReadsZero, StatusKeys
  <2>4. /\ ~RuntimeUnknown /\ collection.effective_rules # Nothing
        /\ Evaluate(q, ParseRules(collection.effective_rules), MachineArch) # "indeterminate"
    BY <2>1, <2>2, <2>3 DEF ProviderVerdict
  <2>5. RulesDeterminacy(collection.effective_rules) # "unknown"
    BY <2>4, UnknownIsIndeterminate DEF ParseRules
  <2>6. errors = {}
    BY <2>0, <2>2, <2>4 DEF Evidence, RuntimeUnknown
  <2>7. diagnostics = {}
    BY <2>0, <2>4, <2>5 DEF Reported, RuntimeUnknown
  <2> QED
    BY <2>6, <2>7
<1> QED
  BY <1>1, TypeCorrect, EvidenceHolds, PTL

\* On x86-64 only a list of numbers or a text not understood defeats the evaluation.
LEMMA IndeterminateCases ==
  ASSUME NEW q \in Requirement, NEW parsed, MachineArch \in X86,
         Evaluate(q, parsed, MachineArch) = "indeterminate"
  PROVE  \/ parsed.determinacy = "unknown"
         \/ q = "process_creation" /\ OnlyNumeric(parsed.rules)
<1>1. Suppression(parsed.rules) # "indeterminate" /\ EvaluateX86(parsed.rules) # "indeterminate"
  BY DEF Suppression, EvaluateX86
<1> QED
  BY <1>1 DEF Evaluate, EvaluateProcessCreation, EvaluateFileWatch, Requirement

\* Dropping the predicates of -C changes no syscall selector.
LEMMA OnlyNumericIsListed ==
  ASSUME NEW text \in RulesText, OnlyNumeric(ParseRules(text).rules)
  PROVE  OnlyNumeric(text.rules)
<1> DEFINE parsed == ParseRules(text).rules
<1>1. parsed = [i \in DOMAIN text.rules |-> Understood(text.rules[i])]
  BY DEF ParseRules
<1>2. PICK i \in Includes(parsed) : parsed[i].syscalls # {} /\ parsed[i].syscalls \subseteq Numerals
  BY DEF OnlyNumeric
<1>3. i \in DOMAIN text.rules /\ parsed[i] = Understood(text.rules[i])
  BY <1>1, <1>2 DEF Includes
<1>4. text.rules[i] \in Rule
  BY <1>3, RulesAssumption DEF RulesText
<1>5. /\ parsed[i].effect = text.rules[i].effect /\ parsed[i].scope = text.rules[i].scope
      /\ parsed[i].syscalls = text.rules[i].syscalls
  BY <1>3, <1>4 DEF Understood, Rule
<1> QED
  BY <1>2, <1>3, <1>5 DEF OnlyNumeric, Includes, IsOn

\* Whatever fails and however the host is edited, INDETERMINATE has its explanation.
THEOREM IndeterminateIsExplainedHolds == Spec => []IndeterminateIsExplained
<1>1. TypeOK /\ Evidence /\ Reported => IndeterminateIsExplained
  <2> SUFFICES ASSUME TypeOK, Evidence, Reported, pc = "done", MachineArch \in X86,
                      NEW q \in Requirement, findings[q] = "indeterminate",
                      errors = {}, diagnostics = {}
               PROVE  q = "process_creation" /\ OnlyByNumber
    BY DEF IndeterminateIsExplained
  <2>0. collection \in Collection
    BY DEF TypeOK
  <2>1. ProviderVerdict(q) = "indeterminate"
    BY DEF Reported
  <2>2. collection.installed = "yes"
    BY <2>0, <2>1 DEF ProviderVerdict, Evidence, Collection
  <2>3. collection.effective_rules # Nothing /\ collection.status # Nothing
    BY <2>2 DEF Evidence
  <2>4. /\ ~RuntimeUnknown
        /\ RulesDeterminacy(collection.effective_rules) # "unknown"
    BY <2>3 DEF Reported, RuntimeUnknown
  <2>5. Evaluate(q, ParseRules(collection.effective_rules), MachineArch) = "indeterminate"
    BY <2>1, <2>2, <2>3, <2>4 DEF ProviderVerdict
  <2>6. q = "process_creation" /\ OnlyNumeric(ParseRules(collection.effective_rules).rules)
    BY <2>4, <2>5, IndeterminateCases DEF ParseRules
  <2>7. collection.effective_rules \in RulesText
    BY <2>0, <2>3 DEF Collection
  <2> QED
    BY <2>3, <2>6, <2>7, OnlyNumericIsListed DEF OnlyByNumber
<1> QED
  BY <1>1, TypeCorrect, EvidenceHolds, PTL

-----------------------------------------------------------------------------
(* A host nobody touches.                                                  *)

\* Until the first change, the texts are the host's and the search is over the disk.
Quiet ==
  /\ pc # "locate" =>
       collection.installed = IF Found THEN "yes" ELSE IF Conclusive THEN "no" ELSE "unknown"
  /\ edits = 0 =>
       /\ collection.effective_rules # Nothing => collection.effective_rules \in RulesTexts
       /\ collection.status # Nothing => collection.status \in StatusTexts

\* A text read before the first change is what the host would still print.
LEMMA QuietStep == TypeOK /\ Quiet /\ [Next]_vars => Quiet'
<1> SUFFICES ASSUME TypeOK, Quiet, [Next]_vars PROVE Quiet'
  OBVIOUS
<1>0. collection \in Collection /\ edits \in Nat
  <2>1. collection \in Collection /\ edits \in 0 .. MaxEdits
    BY Zenon DEF TypeOK
  <2> QED
    BY <2>1
<1>h. UNCHANGED host => RulesTexts' = RulesTexts /\ StatusTexts' = StatusTexts
  BY DEF RulesTexts, StatusTexts, Line, Garbled
<1>d. UNCHANGED disk => (Found' <=> Found) /\ (Conclusive' <=> Conclusive)
  BY DEF Found, Exists, Conclusive, IsDir, Access
<1>1. CASE Host
  <2>1. UNCHANGED <<disk, pc, collection>> /\ edits' = edits + 1
    BY <1>1, HostSteps DEF program
  <2>2. edits' # 0
    BY <1>0, <2>1
  <2> HIDE DEF Host
  <2> QED
    BY <2>1, <2>2, <1>d DEF Quiet
<1>2. CASE Locate
  <2>1. /\ collection'.installed = IF Found THEN "yes" ELSE IF Conclusive THEN "no" ELSE "unknown"
        /\ collection'.effective_rules = collection.effective_rules
        /\ collection'.status = collection.status
    BY <1>0, <1>2, FillInstalled DEF Locate
  <2>2. UNCHANGED <<host, disk, edits>>
    BY <1>2 DEF Locate
  <2> QED
    BY <1>h, <1>d, <2>1, <2>2 DEF Quiet
<1>3. CASE ListRules
  <2>1. PICK t \in RulesTexts : collection' = [collection EXCEPT !.effective_rules = t]
    BY <1>3 DEF ListRules
  <2>2. /\ collection'.installed = collection.installed /\ collection'.status = collection.status
        /\ collection'.effective_rules = t
    BY <1>0, <2>1, TextsAreTexts, FillRules
  <2>3. UNCHANGED <<host, disk, edits>> /\ pc = "list"
    BY <1>3 DEF ListRules
  <2> QED
    BY <1>h, <1>d, <2>2, <2>3 DEF Quiet
<1>4. CASE ReadStatus
  <2>1. PICK t \in StatusTexts : collection' = [collection EXCEPT !.status = t]
    BY <1>4 DEF ReadStatus
  <2>2. /\ collection'.installed = collection.installed /\ collection'.status = t
        /\ collection'.effective_rules = collection.effective_rules
    BY <1>0, <2>1, TextsAreTexts, FillStatus
  <2>3. UNCHANGED <<host, disk, edits>> /\ pc = "status"
    BY <1>4 DEF ReadStatus
  <2> QED
    BY <1>h, <1>d, <2>2, <2>3 DEF Quiet
<1>5. CASE ListFails \/ StatusFails \/ Report \/ UNCHANGED vars
  <2>1. UNCHANGED <<host, disk, edits, collection>> /\ (pc = "locate" => pc' = "locate")
    BY <1>5 DEF ListFails, StatusFails, Report, vars, program
  <2> QED
    BY <1>h, <1>d, <2>1 DEF Quiet
<1> QED
  BY <1>1, <1>2, <1>3, <1>4, <1>5 DEF Next, Program

\* The search finds what is there, and without hidden directories it is conclusive
\* only about what is not.
LEMMA SearchIsSound ==
  ASSUME "hidden" \notin Reaches, TypeOK
  PROVE  (Found => Installed) /\ (~Found /\ Conclusive => ~Installed)
<1>0. disk \in [on_path : BOOLEAN, dirs : [Dirs -> Directory]]
  BY DEF TypeOK, Disk
<1>1. \A d \in Dirs : /\ disk.dirs[d].reach \in {"open", "closed", "missing"}
                      /\ disk.dirs[d].reach = "missing" => ~disk.dirs[d].file
  <2> TAKE d \in Dirs
  <2>1. disk.dirs[d] \in Directory
    BY <1>0
  <2> QED
    BY <2>1, ReachesAssumption DEF Directory, Reach
<1> QED
  BY <1>1 DEF Found, Exists, Installed, Conclusive, IsDir, Access

\* The gate that a text of the host gives is the host's, or missing.
LEMMA GateIsTheHosts ==
  ASSUME TypeOK, NEW text \in StatusTexts, NEW key \in StatusKeys
  PROVE  GateValue(text, key) \subseteq {host[key]}
<1>1. text \in Seq(StatusLine)
  BY TextsAreTexts
<1>2. \A n \in DOMAIN text : text[n].numeric => text[n].value = host[text[n].key]
  BY DEF StatusTexts, Line, Garbled
<1> QED
  BY <1>2 DEF GateValue, Valid

\* A text without doubt says both lines, so a gate that is not zero there is not zero.
LEMMA EffectiveStatus ==
  ASSUME TypeOK, NEW text \in StatusTexts, StatusDeterminacy(text) # "unknown", NEW key \in StatusKeys
  PROVE  GateValue(text, key) = {host[key]}
<1>1. /\ \A n \in DOMAIN text : text[n].numeric
      /\ \E n \in DOMAIN text : text[n].key = "pid"
  BY DEF StatusDeterminacy, StatusKeys, Valid
<1>2. text # <<>> /\ text # <<Line("enabled")>>
  BY <1>1 DEF Line
<1>3. text = <<Line("enabled"), Line("pid")>>
  BY <1>1, <1>2 DEF StatusTexts, Garbled
<1>4. /\ DOMAIN text = {1, 2}
      /\ text[1].key = "enabled" /\ text[1].numeric /\ text[1].value = host["enabled"]
      /\ text[2].key = "pid" /\ text[2].numeric /\ text[2].value = host["pid"]
  BY <1>3 DEF Line
<1>5. CASE key = "enabled"
  <2>1. Valid(text, key) = {1}
    BY <1>4, <1>5 DEF Valid
  <2>2. {m \in Valid(text, key) : \A k \in Valid(text, key) : k <= m} = {1}
    BY <2>1
  <2> QED
    BY <1>4, <1>5, <2>2 DEF GateValue
<1>6. CASE key = "pid"
  <2>1. Valid(text, key) = {2}
    BY <1>4, <1>6 DEF Valid
  <2>2. {m \in Valid(text, key) : \A k \in Valid(text, key) : k <= m} = {2}
    BY <2>1
  <2> QED
    BY <1>4, <1>6, <2>2 DEF GateValue
<1> QED
  BY <1>5, <1>6 DEF StatusKeys

\* What holds of each rule that may be loaded holds of a list of them.
LEMMA ConditionsLift ==
  ASSUME NEW rules \in Seq(RuleChoices)
  PROVE  /\ rules \in Seq(Rule)
         /\ Interpreted(rules, MachineArch) /\ ListedAsPrinted(rules)
<1>1. rules \in Seq(Rule)
  BY RulesAssumption
<1>2. \A i \in DOMAIN rules :
        Interpreted(<<rules[i]>>, MachineArch) /\ ListedAsPrinted(<<rules[i]>>)
  BY RulesAssumption
<1>3. \A i \in DOMAIN rules : DOMAIN <<rules[i]>> = {1} /\ <<rules[i]>>[1] = rules[i]
  OBVIOUS
<1>4. Interpreted(rules, MachineArch)
  <2>1. \A i \in DOMAIN rules : \A p, q \in PredicatesOn(rules[i], "arch") : p = q
    <3> TAKE i \in DOMAIN rules
    <3>1. Interpreted(<<rules[i]>>, MachineArch) /\ 1 \in DOMAIN <<rules[i]>> /\ <<rules[i]>>[1] = rules[i]
      BY <1>2, <1>3
    <3>2. \A p, q \in PredicatesOn(<<rules[i]>>[1], "arch") : p = q
      BY <3>1, Zenon DEF Interpreted
    <3> QED
      BY <3>1, <3>2
  <2>2. \A i \in DOMAIN rules : IsOn(rules[i], "exclude", "exit") =>
          NeverExit(<<rules[i]>>) = {1}
    BY <1>3 DEF NeverExit
  <2>3. \A i \in NeverExit(rules) : ~SelectsUnnamed(rules[i]) /\ MachineArch \in X86
    <3> TAKE i \in NeverExit(rules)
    <3>1. i \in DOMAIN rules /\ NeverExit(<<rules[i]>>) = {1}
      BY <2>2 DEF NeverExit
    <3>2. Interpreted(<<rules[i]>>, MachineArch) /\ <<rules[i]>>[1] = rules[i]
      BY <1>2, <1>3, <3>1
    <3> QED
      BY <3>1, <3>2 DEF Interpreted
  <2> QED
    BY <2>1, <2>3 DEF Interpreted
<1>5. ListedAsPrinted(rules)
  BY <1>2, <1>3 DEF ListedAsPrinted, Includes
<1> QED
  BY <1>1, <1>4, <1>5

\* A text that is understood is evaluated as it stands.
LEMMA EffectiveRules ==
  ASSUME NEW text \in RulesText, RulesDeterminacy(text) # "unknown"
  PROVE  ParseRules(text).rules = text.rules
<1>1. \A i \in DOMAIN text.rules : PredicatesOn(text.rules[i], "compare") = {}
  BY DEF RulesDeterminacy, Compares
<1>2. \A i \in DOMAIN text.rules : text.rules[i] \in Rule
  BY RulesAssumption DEF RulesText
<1>3. \A i \in DOMAIN text.rules : Understood(text.rules[i]) = text.rules[i]
  BY <1>1, <1>2 DEF Understood, Rule
<1>4. text.rules = [i \in DOMAIN text.rules |-> text.rules[i]]
  BY DEF RulesText
<1> QED
  BY <1>3, <1>4 DEF ParseRules

\* When every standard directory that exists can at least be seen, the report on a
\* host that nobody touched is right about the host.
THEOREM SoundOnAQuietHostHolds ==
  ASSUME "hidden" \notin Reaches PROVE Spec => []SoundOnAQuietHost
<1>1. Init => Quiet
  BY DEF Init, Quiet
<1>2. TypeOK /\ Evidence /\ Reported /\ Quiet => SoundOnAQuietHost
  <2> SUFFICES ASSUME TypeOK, Evidence, Reported, Quiet, pc = "done", edits = 0, NEW q \in Requirement
      PROVE  /\ findings[q] = "covered" => Installed /\ Running(host) /\ Complete(q, host.rules)
             /\ findings[q] = "degraded" => Installed /\ Running(host)
             /\ findings[q] = "not_covered" => ~Installed \/ ~Running(host) \/ Missing(q, host.rules)
    BY DEF SoundOnAQuietHost
  <2> DEFINE text == collection.effective_rules
             parsed == ParseRules(text)
             evaluated == /\ collection.installed = "yes" /\ ~NotRunning /\ ~RuntimeUnknown
                          /\ text # Nothing /\ findings[q] = Evaluate(q, parsed, MachineArch)
  <2>0. collection \in Collection /\ host.rules \in Seq(RuleChoices)
    <3>1. collection \in Collection /\ host \in HostState
      BY Zenon DEF TypeOK
    <3> QED
      BY <3>1 DEF HostState
  <2>1. findings[q] = ProviderVerdict(q)
    BY DEF Reported
  <2>2. findings[q] # "indeterminate" /\ collection.installed = "yes" /\ ~NotRunning => evaluated
    BY <2>1 DEF ProviderVerdict
  <2>3. findings[q] \in {"covered", "degraded"} => evaluated
    BY <2>0, <2>1, <2>2 DEF ProviderVerdict, Collection
  <2>4. ASSUME evaluated PROVE Installed /\ Running(host)
    <3>1. Installed
      BY <2>4, SearchIsSound DEF Quiet
    <3>2. collection.status \in StatusTexts /\ StatusDeterminacy(collection.status) # "unknown"
      BY <2>4 DEF Quiet, RuntimeUnknown
    <3>3. Gate("enabled") = {host["enabled"]} /\ Gate("pid") = {host["pid"]}
      BY <2>4, <3>2, EffectiveStatus DEF Gate, RuntimeUnknown, StatusKeys
    <3>4. host.enabled # 0 /\ host.pid # 0
      BY <2>4, <3>3 DEF NotRunning, IsZero
    <3> QED
      BY <3>1, <3>4 DEF Running
  <2>5. ASSUME evaluated, findings[q] # "indeterminate"
        PROVE  parsed.rules = host.rules
    <3>0. text \in RulesTexts
      BY <2>5 DEF Quiet
    <3>1. text \in RulesTexts /\ text.rules = host.rules
      <4>1. PICK b \in BOOLEAN : text = [rules |-> host.rules, notice |-> b]
        BY <3>0 DEF RulesTexts
      <4> QED
        BY <3>0, <4>1
    <3>2. text \in RulesText
      BY <3>1, TextsAreTexts
    <3>3. RulesDeterminacy(text) # "unknown"
      BY <2>5, UnknownIsIndeterminate DEF ParseRules
    <3> QED
      BY <3>1, <3>2, <3>3, EffectiveRules
  <2>6. findings[q] = "covered" => Complete(q, host.rules)
    <3> SUFFICES ASSUME findings[q] = "covered" PROVE Complete(q, host.rules)
      OBVIOUS
    <3>1. evaluated /\ parsed.rules = host.rules
      BY <2>3, <2>5
    <3>2. q = "process_creation"
      BY <3>1 DEF Evaluate, EvaluateFileWatch, Requirement
    <3>3. EvaluateProcessCreation(parsed, MachineArch) = "covered"
      BY <3>1, <3>2 DEF Evaluate
    <3> QED
      BY <2>0, <3>1, <3>2, <3>3, ArchesAssumption, ConditionsLift, CoveredEmitsEvery DEF Complete
  <2>7. findings[q] = "not_covered" => ~Installed \/ ~Running(host) \/ Missing(q, host.rules)
    <3> SUFFICES ASSUME findings[q] = "not_covered", Installed, Running(host)
                 PROVE  Missing(q, host.rules)
      OBVIOUS
    <3>1. collection.installed = "yes"
      BY <2>0, <2>1, SearchIsSound DEF ProviderVerdict, Quiet, Collection
    <3>2. \A key \in StatusKeys : Gate(key) \subseteq {host[key]}
      BY GateIsTheHosts DEF Gate, Quiet
    <3>3. ~NotRunning
      BY <3>2 DEF NotRunning, IsZero, Running, StatusKeys
    <3>4. evaluated /\ parsed.rules = host.rules
      BY <2>2, <2>5, <3>1, <3>3
    <3>5. CASE q = "process_creation"
      <4>1. EvaluateProcessCreation(parsed, MachineArch) = "not_covered"
        BY <3>4, <3>5 DEF Evaluate
      <4> QED
        BY <2>0, <3>4, <3>5, <4>1, ConditionsLift, NotCoveredEmitsNone DEF Missing
    <3>6. CASE q # "process_creation"
      <4>1. EvaluateFileWatch(parsed) = "not_covered"
        BY <3>4, <3>6 DEF Evaluate
      <4> QED
        BY <2>0, <3>4, <3>6, <4>1, ConditionsLift, FileWatchNotCovered DEF Missing
    <3> QED
      BY <3>5, <3>6
  <2> QED
    BY <2>3, <2>4, <2>6, <2>7
<1> QED
  BY <1>1, <1>2, QuietStep, TypeCorrect, EvidenceHolds, PTL DEF Spec

-----------------------------------------------------------------------------
(* The run keeps the promise of Attestation.                               *)

Fact    == Gates \cup Requirement
Unseen  == "unseen"

\* What is known of each kind of fact, and what is true.
KnownFacts ==
  /\ knownBar = [f \in Fact |-> knownBar[f]]
  /\ knownBar["installed"] = IF Looked("locate") THEN Searched[collection.installed] ELSE Unseen
  /\ \A q \in Requirement : knownBar[q] = IF Looked("list") THEN KnownRules(q) ELSE Unseen
  /\ \A key \in StatusKeys : knownBar[key] = IF Looked("status") THEN KnownGate(key) ELSE Unseen

TruthFacts ==
  /\ truthBar = [f \in Fact |-> truthBar[f]]
  /\ truthBar["installed"] = IF Installed THEN "good" ELSE "bad"
  /\ \A q \in Requirement : truthBar[q] = StateOf(q, host.rules)
  /\ \A key \in StatusKeys : truthBar[key] = IF host[key] = 0 THEN "bad" ELSE "good"

\* The facts are three, of which one is one of the two requirements.
LEMMA KindsOfFact ==
  Fact = {"installed"} \cup StatusKeys \cup Requirement
  BY DEF Fact, Gates, StatusKeys

\* What is known of each kind of fact.
LEMMA KnownFactsHold == KnownFacts
<1>1. knownBar = [f \in Fact |-> knownBar[f]]
  BY DEF knownBar, Fact
<1>2. knownBar["installed"] = IF Looked("locate") THEN Searched[collection.installed] ELSE Unseen
  BY DEF knownBar, Gates, Unseen
<1>3. \A q \in Requirement : knownBar[q] = IF Looked("list") THEN KnownRules(q) ELSE Unseen
  BY DEF knownBar, Requirement, Unseen
<1>4. \A key \in StatusKeys : knownBar[key] = IF Looked("status") THEN KnownGate(key) ELSE Unseen
  BY DEF knownBar, StatusKeys, Gates, Requirement, Unseen
<1> QED
  BY <1>1, <1>2, <1>3, <1>4 DEF KnownFacts

\* What is true of each kind.
LEMMA TruthFactsHold == TruthFacts
<1>1. truthBar = [f \in Fact |-> truthBar[f]]
  BY DEF truthBar, Fact
<1>2. truthBar["installed"] = IF Installed THEN "good" ELSE "bad"
  BY DEF truthBar, Gates, Requirement, IsBad
<1>3. \A q \in Requirement : truthBar[q] = StateOf(q, host.rules)
  BY DEF truthBar
<1>4. \A key \in StatusKeys : truthBar[key] = IF host[key] = 0 THEN "bad" ELSE "good"
  BY DEF truthBar, StatusKeys, Gates, Requirement, IsBad
<1> QED
  BY <1>1, <1>2, <1>3, <1>4 DEF TruthFacts

\* The same of the next state.
LEMMA NextFactsHold == KnownFacts' /\ TruthFacts'
  BY KnownFactsHold, TruthFactsHold, PTL

\* What is true is good, bad or partial.
LEMMA TruthType == truthBar \in [Fact -> A!State]
<1>1. \A f \in Fact : truthBar[f] \in A!State
  BY KindsOfFact, TruthFactsHold DEF TruthFacts, A!State, StateOf
<1> QED
  BY <1>1, TruthFactsHold DEF TruthFacts

\* And what is known, or not seen yet.
LEMMA KnownType ==
  TypeOK => knownBar \in [Fact -> A!State \cup {Unseen, "unknown"}]
<1> SUFFICES ASSUME TypeOK PROVE knownBar \in [Fact -> A!State \cup {Unseen, "unknown"}]
  OBVIOUS
<1>1. collection.installed \in {"yes", "no", "unknown"}
  BY DEF TypeOK, Collection
<1>2. \A f \in Fact : knownBar[f] \in A!State \cup {Unseen, "unknown"}
  BY <1>1, KindsOfFact, KnownFactsHold
     DEF KnownFacts, A!State, Searched, KnownRules, KnownGate, StateOf, Unseen
<1> QED
  BY <1>2, KnownFactsHold DEF KnownFacts

\* The same of the next state.
LEMMA NextTypes ==
  /\ (truthBar \in [Fact -> A!State])'
  /\ (TypeOK => knownBar \in [Fact -> A!State \cup {Unseen, "unknown"}])'
  BY TruthType, KnownType, PTL

\* A verdict on rules that were all understood says what they have the kernel emit.
LEMMA RulesVerdict ==
  ASSUME NEW text \in RulesText, NEW q \in Requirement, Evaluate(q, ParseRules(text), MachineArch) # "indeterminate"
  PROVE  /\ Evaluate(q, ParseRules(text), MachineArch) = "covered" => Complete(q, text.rules)
         /\ Evaluate(q, ParseRules(text), MachineArch) = "not_covered" => Missing(q, text.rules)
<1> DEFINE parsed == ParseRules(text)
<1>1. RulesDeterminacy(text) # "unknown"
  BY UnknownIsIndeterminate DEF ParseRules
<1>2. parsed.rules = text.rules /\ text.rules \in Seq(RuleChoices)
  BY <1>1, EffectiveRules DEF RulesText
<1>3. CASE q = "process_creation"
  <2>1. Evaluate(q, parsed, MachineArch) = EvaluateProcessCreation(parsed, MachineArch)
    BY <1>3 DEF Evaluate
  <2> QED
    BY <1>2, <1>3, <2>1, ArchesAssumption, ConditionsLift, CoveredEmitsEvery, NotCoveredEmitsNone DEF Complete, Missing
<1>4. CASE q # "process_creation"
  <2>1. Evaluate(q, parsed, MachineArch) = EvaluateFileWatch(parsed) /\ EvaluateFileWatch(parsed) # "covered"
    BY <1>4 DEF Evaluate, EvaluateFileWatch
  <2> QED
    BY <1>2, <1>4, <2>1, ConditionsLift, FileWatchNotCovered DEF Missing
<1> QED
  BY <1>3, <1>4

\* What is complete misses nothing.
LEMMA CompleteIsNotMissing ==
  ASSUME NEW q, NEW rules, Complete(q, rules)
  PROVE  ~Missing(q, rules)
<1>1. PICK arch \in Arches : arch \in Established(MachineArch)
  BY NativeAssumption DEF Established
<1>2. "execve" \in TargetSyscalls /\ {} \in SUBSET Facts
  BY DEF TargetSyscalls
<1>3. q = "process_creation" /\ Emits(rules, Event(arch, "execve", {}))
  BY <1>1, <1>2 DEF Complete, EmitsEvery
<1> QED
  BY <1>1, <1>2, <1>3 DEF Missing, EmitsNoneInGeneral

\* Between the steps of the program the host changes as it likes.
LEMMA HostIsHost ==
  ASSUME UNCHANGED <<pc, collection, findings>>
  PROVE  A!HostChanges
<1>1. knownBar' = knownBar
  BY DEF knownBar, Looked, KnownRules, KnownGate, IsZero, Gate, RuntimeUnknown
<1>2. truthBar' \in [Fact -> A!State]
  <2>1. (truthBar \in [Fact -> A!State])'
    BY NextTypes
  <2> QED
    BY <2>1 DEF Fact, Gates, Requirement, A!State
<1> QED
  BY <1>1, <1>2 DEF A!HostChanges, Fact

\* A step of the collection, which leaves the host alone, and what it learns.
LEMMA StepIsLook ==
  ASSUME TypeOK, TypeOK', UNCHANGED <<host, disk, findings>>, pc # "done",
         \A f \in Fact : knownBar'[f] = knownBar[f]
                           \/ (knownBar[f] = Unseen /\ knownBar'[f] \in {truthBar[f], "unknown"})
  PROVE  A!Look
<1>1. findings = A!Unpublished
  BY Stages DEF TypeOK, A!Unpublished, Published
<1>2. knownBar' \in [Fact -> A!State \cup {Unseen, "unknown"}]
  <2>1. (knownBar \in [Fact -> A!State \cup {Unseen, "unknown"}])'
    BY NextTypes
  <2> QED
    BY <2>1 DEF Fact, Gates, Requirement, A!State, Unseen
<1>3. truthBar' = truthBar
  BY DEF truthBar, StateOf, IsBad, Installed
<1> QED
  BY <1>1, <1>2, <1>3 DEF A!Look, A!Learns, Fact, Unseen

\* The search learns whether auditctl is installed, and nothing else.
LEMMA LocateIsLook ==
  ASSUME "hidden" \notin Reaches, TypeOK, TypeOK', Locate
  PROVE  A!Look
<1>0. collection \in Collection
  BY DEF TypeOK
<1>1. PICK v \in {"yes", "no", "unknown"} :
        /\ collection' = [collection EXCEPT !.installed = v]
        /\ v = "yes" => Found
        /\ v = "no" => ~Found /\ Conclusive
        /\ pc' = IF v = "yes" THEN "list" ELSE "evaluate"
  BY DEF Locate, AfterSearch
<1>2. collection'.installed = v
  BY <1>0, <1>1, FillInstalled
<1>3. pc = "locate" /\ UNCHANGED <<host, disk, findings>>
  BY DEF Locate
<1>4. /\ ~Looked("locate") /\ ~Looked("list") /\ ~Looked("status")
      /\ Looked("locate")' /\ ~Looked("list")' /\ ~Looked("status")'
  BY <1>1, <1>2, <1>3 DEF Looked, Rank
<1>5. knownBar["installed"] = Unseen /\ knownBar'["installed"] \in {truthBar["installed"], "unknown"}
  BY <1>1, <1>2, <1>4, KnownFactsHold, TruthFactsHold, NextFactsHold, SearchIsSound
     DEF KnownFacts, TruthFacts, Searched
<1>6. \A f \in StatusKeys \cup Requirement : knownBar'[f] = knownBar[f]
  BY <1>4, KnownFactsHold, NextFactsHold DEF KnownFacts
<1> QED
  BY <1>3, <1>5, <1>6, KindsOfFact, StepIsLook

\* The listing.
LEMMA ListIsLook ==
  ASSUME TypeOK, TypeOK', Evidence, ListRules \/ ListFails
  PROVE  A!Look
<1>0. /\ collection \in Collection /\ collection.installed = "yes" /\ collection.effective_rules = Nothing
      /\ pc = "list" /\ pc' = "status" /\ UNCHANGED <<host, disk, findings>>
  BY DEF TypeOK, Evidence, ListRules, ListFails, AfterListFails
<1>1. collection'.installed = "yes"
  BY <1>0, TextsAreTexts, FillRules DEF ListRules, ListFails
<1>2. /\ Looked("locate") /\ ~Looked("list") /\ ~Looked("status")
      /\ Looked("locate")' /\ Looked("list")' /\ ~Looked("status")'
  BY <1>0, <1>1 DEF Looked, Rank
<1>3. \A f \in {"installed"} \cup StatusKeys : knownBar'[f] = knownBar[f]
  BY <1>0, <1>1, <1>2, KnownFactsHold, NextFactsHold DEF KnownFacts
<1>4. ASSUME NEW q \in Requirement
      PROVE  KnownRules(q)' \in {StateOf(q, host.rules), "unknown"}
  <2>1. CASE ListFails
    BY <1>0, <2>1 DEF ListFails, KnownRules
  <2>2. CASE ListRules
    <3>1. PICK text \in RulesTexts : collection' = [collection EXCEPT !.effective_rules = text]
      BY <2>2 DEF ListRules
    <3>2. text \in RulesText /\ text.rules = host.rules
      <4>1. text \in RulesText
        BY <3>1, TextsAreTexts
      <4>2. PICK b \in BOOLEAN : text = [rules |-> host.rules, notice |-> b]
        BY <3>1 DEF RulesTexts
      <4> QED
        BY <4>1, <4>2
    <3>3. collection'.effective_rules = text
      BY <1>0, <3>1, <3>2, FillRules
    <3>4. KnownRules(q)' = IF text = Nothing THEN "unknown"
                           ELSE IF Evaluate(q, ParseRules(text), MachineArch) = "indeterminate" THEN "unknown"
                           ELSE StateOf(q, text.rules)
      BY <3>3 DEF KnownRules
    <3> QED
      BY <3>2, <3>4
  <2> QED
    BY <2>1, <2>2
<1>5. \A q \in Requirement : knownBar[q] = Unseen /\ knownBar'[q] \in {truthBar[q], "unknown"}
  BY <1>2, <1>4, KnownFactsHold, TruthFactsHold, NextFactsHold DEF KnownFacts, TruthFacts
<1> QED
  BY <1>0, <1>3, <1>5, KindsOfFact, StepIsLook

\* The status.
LEMMA StatusIsLook ==
  ASSUME TypeOK, TypeOK', Evidence, ReadStatus \/ StatusFails
  PROVE  A!Look
<1>0. /\ collection \in Collection /\ collection.installed = "yes" /\ collection.status = Nothing
      /\ pc = "status" /\ pc' = "evaluate" /\ UNCHANGED <<host, disk, findings>>
  BY DEF TypeOK, Evidence, ReadStatus, StatusFails
<1>1. collection'.installed = "yes" /\ collection'.effective_rules = collection.effective_rules
  BY <1>0, TextsAreTexts, FillStatus DEF ReadStatus, StatusFails
<1>2. /\ Looked("locate") /\ Looked("list") /\ ~Looked("status")
      /\ Looked("locate")' /\ Looked("list")' /\ Looked("status")'
  BY <1>0, <1>1 DEF Looked, Rank
<1>3. \A q : KnownRules(q)' = KnownRules(q)
  BY <1>1 DEF KnownRules
<1>4. \A f \in {"installed"} \cup Requirement : knownBar'[f] = knownBar[f]
  BY <1>0, <1>1, <1>2, <1>3, KnownFactsHold, NextFactsHold DEF KnownFacts
<1>5. ASSUME NEW key \in StatusKeys
      PROVE  KnownGate(key)' \in {IF host[key] = 0 THEN "bad" ELSE "good", "unknown"}
  <2>1. CASE StatusFails
    BY <1>0, <2>1 DEF StatusFails, KnownGate, IsZero, Gate, RuntimeUnknown
  <2>2. CASE ReadStatus
    <3>1. PICK text \in StatusTexts : collection' = [collection EXCEPT !.status = text]
      BY <2>2 DEF ReadStatus
    <3>2. text # Nothing /\ collection'.status = text
      BY <1>0, <3>1, TextsAreTexts, FillStatus, NothingAssumption
    <3>3. /\ IsZero(key)' <=> GateValue(text, key) = {0}
          /\ RuntimeUnknown' <=> StatusDeterminacy(text) = "unknown"
      BY <3>2 DEF IsZero, Gate, RuntimeUnknown
    <3>4. GateValue(text, key) \subseteq {host[key]}
      BY GateIsTheHosts
    <3>5. StatusDeterminacy(text) # "unknown" => GateValue(text, key) = {host[key]}
      BY EffectiveStatus
    <3> QED
      BY <3>3, <3>4, <3>5 DEF KnownGate
  <2> QED
    BY <2>1, <2>2
<1>6. \A key \in StatusKeys : knownBar[key] = Unseen /\ knownBar'[key] \in {truthBar[key], "unknown"}
  BY <1>2, <1>5, KnownFactsHold, TruthFactsHold, NextFactsHold DEF KnownFacts, TruthFacts
<1> QED
  BY <1>0, <1>4, <1>6, KindsOfFact, StepIsLook

\* Each verdict is borne out by what was learned.
LEMMA VerdictIsBorne ==
  ASSUME TypeOK, pc = "evaluate", NEW q \in Requirement
  PROVE  A!Bears(knownBar, Gates \cup {q}, ProviderVerdict(q))
<1> DEFINE v == ProviderVerdict(q)
           way == Gates \cup {q}
           text == collection.effective_rules
<1>0. /\ collection \in Collection /\ Looked("locate")
      /\ collection.installed = "yes" => Looked("list") /\ Looked("status")
  <2>1. collection \in Collection
    BY DEF TypeOK
  <2>2. \A stage \in {"locate", "list", "status"} : Rank[pc] > Rank[stage]
    BY DEF Rank
  <2> QED
    BY <2>1, <2>2 DEF Looked
<1>1. /\ way = {"installed"} \cup StatusKeys \cup {q}
      /\ Gates = {"installed"} \cup StatusKeys
      /\ q \notin Gates
  BY DEF Gates, StatusKeys, Requirement
<1>2. knownBar["installed"] = Searched[collection.installed]
  BY <1>0, KnownFactsHold DEF KnownFacts
<1>3. collection.installed = "yes" =>
        knownBar[q] = KnownRules(q) /\ \A key \in StatusKeys : knownBar[key] = KnownGate(key)
  BY <1>0, KnownFactsHold DEF KnownFacts
<1>4. CASE collection.installed # "yes"
  <2>1. \/ v = "indeterminate" /\ knownBar["installed"] = "unknown"
        \/ v = "not_covered" /\ knownBar["installed"] = "bad"
    BY <1>0, <1>2, <1>4 DEF ProviderVerdict, Searched, Collection
  <2> QED
    BY <1>1, <2>1 DEF A!Bears
<1>5. CASE collection.installed = "yes" /\ NotRunning
  <2>1. PICK key \in StatusKeys : IsZero(key)
    BY <1>5 DEF NotRunning, StatusKeys
  <2>2. v = "not_covered" /\ knownBar[key] = "bad"
    BY <1>3, <1>5, <2>1 DEF ProviderVerdict, KnownGate
  <2> QED
    BY <1>1, <2>2 DEF A!Bears
<1>6. CASE collection.installed = "yes" /\ ~NotRunning /\ RuntimeUnknown
  <2>1. v = "indeterminate" /\ knownBar["pid"] = "unknown"
    BY <1>3, <1>6 DEF ProviderVerdict, KnownGate, NotRunning, StatusKeys
  <2> QED
    BY <1>1, <2>1 DEF A!Bears, StatusKeys
<1>7. CASE collection.installed = "yes" /\ ~NotRunning /\ ~RuntimeUnknown
  <2>1. \A key \in Gates : knownBar[key] = "good"
    BY <1>1, <1>2, <1>3, <1>7 DEF KnownGate, NotRunning, StatusKeys, Searched
  <2>2. CASE v = "indeterminate"
    <3>1. knownBar[q] = "unknown"
      BY <1>3, <1>7, <2>2 DEF ProviderVerdict, KnownRules
    <3> QED
      BY <2>2, <3>1 DEF A!Bears
  <2>3. CASE v # "indeterminate"
    <3>1. text \in RulesText /\ v = Evaluate(q, ParseRules(text), MachineArch) /\ text # Nothing
      BY <1>0, <1>7, <2>3 DEF ProviderVerdict, Collection
    <3>2. knownBar[q] = StateOf(q, text.rules)
      BY <1>3, <1>7, <2>3, <3>1 DEF KnownRules
    <3>3. v = "covered" => knownBar[q] = "good"
      BY <2>3, <3>1, <3>2, RulesVerdict, CompleteIsNotMissing DEF StateOf
    <3>4. v = "not_covered" => knownBar[q] = "bad"
      BY <2>3, <3>1, <3>2, RulesVerdict DEF StateOf
    <3>5. knownBar[q] \in A!State
      BY <3>2 DEF StateOf, A!State
    <3>6. v \in {"covered", "degraded", "not_covered"}
      BY <2>3, ProviderGivesVerdict DEF Verdict
    <3>7. CASE v = "covered"
      BY <2>1, <3>3, <3>7 DEF A!Bears
    <3>8. CASE v = "not_covered"
      BY <3>4, <3>8 DEF A!Bears
    <3>9. CASE v = "degraded"
      BY <1>1, <2>1, <3>5, <3>9 DEF A!Bears
    <3> QED
      BY <3>6, <3>7, <3>8, <3>9
  <2> QED
    BY <2>2, <2>3
<1> QED
  BY <1>4, <1>5, <1>6, <1>7

\* The report publishes them.
LEMMA ReportIsPublish ==
  ASSUME TypeOK, Report
  PROVE  A!Publish
<1>1. findings = A!Unpublished
  BY Stages DEF Report, TypeOK, A!Unpublished, Published
<1>2. findings' = [q \in Requirement |-> ProviderVerdict(q)]
  <2>1. \A q \in Requirement : resolve_provider_disjunction(<<ProviderVerdict(q)>>) = ProviderVerdict(q)
    BY OneProvider, ProviderGivesVerdict
  <2> QED
    BY <2>1 DEF Report
<1>3. findings' \in [Requirement -> A!Verdict]
  BY <1>2, ProviderGivesVerdict DEF Verdict, A!Verdict
<1>4. \A q \in Requirement : A!Bears(knownBar, Gates \cup {q}, findings'[q])
  BY <1>2, VerdictIsBorne DEF Report
<1>5. A!Justified(findings', knownBar)
  BY <1>4 DEF A!Justified
<1>6. truthBar' = truthBar /\ knownBar' = knownBar
  <2>1. UNCHANGED <<host, disk, collection>> /\ pc = "evaluate" /\ pc' = "done"
    BY DEF Report
  <2>2. truthBar' = truthBar
    BY <2>1 DEF truthBar, StateOf, IsBad, Installed
  <2>3. \A stage \in {"locate", "list", "status"} : Looked(stage)' <=> Looked(stage)
    BY <2>1 DEF Looked, Rank
  <2>4. (\A q : KnownRules(q)' = KnownRules(q)) /\ (\A key : KnownGate(key)' = KnownGate(key))
    BY <2>1 DEF KnownRules, KnownGate, IsZero, Gate, RuntimeUnknown
  <2>5. knownBar' = knownBar
    BY <2>1, <2>3, <2>4 DEF knownBar
  <2> QED
    BY <2>2, <2>5
<1> QED
  BY <1>1, <1>3, <1>5, <1>6 DEF A!Publish

\* Every run is a behaviour of Attestation, whatever the rules, the directories, the
\* edits and the failures, unless a directory is hidden or there is nothing to emit.
THEOREM AttestedHolds ==
  ASSUME "hidden" \notin Reaches PROVE Spec => Attested
<1>1. Init => A!Init
  <2> SUFFICES ASSUME Init PROVE A!Init
    OBVIOUS
  <2>1. knownBar = [f \in Fact |-> "unseen"]
    <3>1. ~Looked("locate") /\ ~Looked("list") /\ ~Looked("status")
      BY DEF Init, Looked, Rank
    <3> QED
      BY <3>1, KindsOfFact, KnownFactsHold DEF KnownFacts, Unseen
  <2>2. findings = A!Unpublished
    BY DEF Init, A!Unpublished
  <2> QED
    BY <2>1, <2>2, TruthType DEF A!Init, Fact
<1>2. TypeOK /\ TypeOK' /\ Evidence /\ [Next]_vars => [A!Next]_A!vars
  <2> SUFFICES ASSUME TypeOK, TypeOK', Evidence, [Next]_vars PROVE A!Next
    BY DEF A!vars
  <2>1. CASE Host \/ UNCHANGED vars
    BY <2>1, HostSteps, HostIsHost DEF vars, program, A!Next
  <2>2. CASE Locate
    BY <2>2, LocateIsLook DEF A!Next
  <2>3. CASE ListRules \/ ListFails
    BY <2>3, ListIsLook DEF A!Next
  <2>4. CASE ReadStatus \/ StatusFails
    BY <2>4, StatusIsLook DEF A!Next
  <2>5. CASE Report
    BY <2>5, ReportIsPublish DEF A!Next
  <2> QED
    BY <2>1, <2>2, <2>3, <2>4, <2>5 DEF Next, Program
<1> QED
  BY <1>1, <1>2, TypeCorrect, EvidenceHolds, PTL DEF Spec, Attested, A!Spec
=============================================================================
