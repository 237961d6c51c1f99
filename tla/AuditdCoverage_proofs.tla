----------------------- MODULE AuditdCoverage_proofs -----------------------
(* The invariants of AuditdCoverage hold of every list that can be loaded.   *)
EXTENDS AuditdCoverage, AuditdEvaluate_proofs

\* Whatever an administrator loads is a list of rules.
THEOREM TypeCorrect == Spec => []TypeOK
<1>1. Init => TypeOK
  BY DEF Init, TypeOK
<1>2. TypeOK /\ [Next]_rules => TypeOK'
  <2> SUFFICES ASSUME TypeOK, [Next]_rules PROVE TypeOK'
    OBVIOUS
  <2> USE RuleChoicesAssumption DEF TypeOK
  <2>1. CASE AddRule
    BY <2>1 DEF AddRule
  <2>2. CASE InsertRule
    BY <2>2 DEF InsertRule
  <2>3. CASE DeleteAll
    BY <2>3 DEF DeleteAll
  <2>4. CASE UNCHANGED rules
    BY <2>4
  <2> QED
    BY <2>1, <2>2, <2>3, <2>4 DEF Next
<1> QED
  BY <1>1, <1>2, PTL DEF Spec

\* Whatever an administrator loads: COVERED implies that every exec is emitted, by each
\* ABI on x86-64 and by the native one elsewhere.
THEOREM CoveredSound == Spec => []CoveredIsSound
<1>1. TypeOK => CoveredIsSound
  BY CoveredEmitsEvery, MachinesAssumption DEF TypeOK, CoveredIsSound, ProcessVerdict, parsed
<1> QED
  BY <1>1, TypeCorrect, PTL

\* Whatever an administrator loads, on any machine: NOT_COVERED implies that none is in general.
THEOREM NotCoveredSound == Spec => []NotCoveredIsSound
<1>1. NotCoveredIsSound
  BY NotCoveredEmitsNone DEF NotCoveredIsSound, ProcessVerdict, parsed
<1> QED
  BY <1>1, PTL

\* Whatever an administrator loads: DEGRADED implies an audit context and a path whose
\* writes and attribute changes are emitted, or notes that they may be suppressed, and
\* NOT_COVERED that there is no context or no single watch for both.
THEOREM FileWatchSound == Spec => []FileWatchIsSound
<1>1. TypeOK => FileWatchIsSound
  <2> SUFFICES ASSUME TypeOK PROVE FileWatchIsSound
    OBVIOUS
  <2>1. parsed.rules \in Seq(Rule) /\ parsed.rules = rules
    BY DEF TypeOK, parsed
  <2>2. FileVerdict = "degraded" /\ WatchesAsPrinted(rules) =>
          ~NoContext(rules) /\ (Monitored(rules) # {} \/ FileWatchNoted(rules))
    BY <2>1, FileWatchDegraded DEF FileVerdict
  <2>3. FileVerdict = "not_covered" => NoContext(rules) \/ \A i \in DOMAIN rules : ~WatchesAlone(rules[i])
    BY <2>1, FileWatchNotCovered DEF FileVerdict
  <2> QED
    BY <2>2, <2>3 DEF FileWatchIsSound
<1> QED
  BY <1>1, TypeCorrect, PTL

-----------------------------------------------------------------------------
(* A never rule takes events away.                                         *)

\* The list new is old with one more rule, a never rule, before or behind it.
WithNever(new, old, shift) ==
  /\ new \in Seq(Rule) /\ old \in Seq(Rule) /\ shift \in {0, 1}
  /\ \A i \in DOMAIN old : i + shift \in DOMAIN new /\ new[i + shift] = old[i]
  /\ \A k \in DOMAIN new : new[k].effect = "exclude" \/ (k - shift \in DOMAIN old /\ new[k] = old[k - shift])

\* Candidates are always rules, so that both lists have the same.
LEMMA SameCandidates ==
  ASSUME NEW new, NEW old, NEW shift, WithNever(new, old, shift)
  PROVE  /\ \A i \in Candidates(old) : i + shift \in Candidates(new) /\ new[i + shift] = old[i]
         /\ \A k \in Candidates(new) : k - shift \in Candidates(old) /\ new[k] = old[k - shift]
         /\ Candidates(old) \subseteq Nat /\ Candidates(new) \subseteq Nat
<1>1. \A i \in DOMAIN old : i + shift \in DOMAIN new /\ new[i + shift] = old[i]
  BY DEF WithNever
<1>2. \A k \in DOMAIN new : new[k].effect # "exclude" => k - shift \in DOMAIN old /\ new[k] = old[k - shift]
  BY DEF WithNever
<1>3. DOMAIN old \subseteq Nat /\ DOMAIN new \subseteq Nat
  BY DEF WithNever
<1> QED
  BY <1>1, <1>2, <1>3 DEF Candidates, Includes, IsOn

\* What suppresses nothing in the longer list suppresses nothing in the shorter.
LEMMA NoSuppressionBefore ==
  ASSUME NEW new, NEW old, NEW shift, WithNever(new, old, shift), Suppression(new) = "none"
  PROVE  Suppression(old) = "none"
<1>1. \A i \in DOMAIN new : ~IsOn(new[i], "exclude", "task") /\ ~IsOn(new[i], "exclude", "exclude")
  BY DEF Suppression
<1>2. \A i \in DOMAIN old : ~IsOn(old[i], "exclude", "task") /\ ~IsOn(old[i], "exclude", "exclude")
  BY <1>1 DEF WithNever
<1> QED
  BY <1>2 DEF Suppression

\* x86-64: each call is covered by the same rules, and what came before them still does.
LEMMA X86Before ==
  ASSUME NEW new, NEW old, NEW shift, WithNever(new, old, shift), EvaluateX86(new) = "covered"
  PROVE  EvaluateX86(old) = "covered"
<1>1. /\ \A k \in Candidates(new) : ArchesOf(new[k]) # {}
      /\ \A arch \in {"b64", "b32"}, syscall \in TargetSyscalls :
           Covering(new, arch, syscall) # {} /\ ~Preempted(new, arch, syscall)
  BY DEF EvaluateX86
<1>2. \A i \in Candidates(old) : ArchesOf(old[i]) # {}
  BY <1>1, SameCandidates
<1>3. ASSUME NEW arch \in {"b64", "b32"}, NEW syscall \in TargetSyscalls
      PROVE  Covering(old, arch, syscall) # {} /\ ~Preempted(old, arch, syscall)
  <2>1. PICK k \in Covering(new, arch, syscall) : TRUE
    BY <1>1
  <2>2. k - shift \in Covering(old, arch, syscall)
    BY <2>1, SameCandidates DEF Covering
  <2>3. ASSUME Preempted(old, arch, syscall) PROVE FALSE
    <3>1. PICK j \in DOMAIN old :
            /\ ExitRuleSuppresses(old[j], arch, syscall)
            /\ \A i \in Covering(old, arch, syscall) : j < i
      BY <2>3 DEF Preempted
    <3>2. j + shift \in DOMAIN new /\ ExitRuleSuppresses(new[j + shift], arch, syscall)
      BY <3>1 DEF WithNever
    <3>3. ASSUME NEW i \in Covering(new, arch, syscall) PROVE j + shift < i
      <4>1. i \in Candidates(new) /\ i \in Nat
        BY SameCandidates DEF Covering
      <4>2. i - shift \in Covering(old, arch, syscall)
        BY <4>1, SameCandidates DEF Covering
      <4>3. j < i - shift /\ j \in Nat /\ shift \in Nat
        BY <3>1, <4>2 DEF WithNever
      <4> QED
        BY <4>1, <4>3
    <3> QED
      BY <1>1, <3>2, <3>3 DEF Preempted
  <2> QED
    BY <2>2, <2>3
<1> QED
  BY <1>2, <1>3 DEF EvaluateX86

\* Elsewhere: the broad candidates are the same.
LEMMA OtherArchBefore ==
  ASSUME NEW new, NEW old, NEW shift, WithNever(new, old, shift), EvaluateOtherArch(new) = "covered"
  PROVE  EvaluateOtherArch(old) = "covered"
<1>1. /\ \A k \in Candidates(new) : PredicatesOn(new[k], "arch") = {}
      /\ TargetSyscalls \subseteq Broad(new)
  BY DEF EvaluateOtherArch
<1>2. \A i \in Candidates(old) : PredicatesOn(old[i], "arch") = {}
  BY <1>1, SameCandidates
<1>3. ASSUME NEW syscall \in TargetSyscalls PROVE syscall \in Broad(old)
  <2>1. PICK k \in Candidates(new) : ~Restrictive(new[k]) /\ syscall \in SelectedSyscalls(new[k])
    BY <1>1 DEF Broad
  <2>2. k - shift \in Candidates(old) /\ new[k] = old[k - shift]
    BY SameCandidates
  <2> QED
    BY <2>1, <2>2 DEF Broad
<1> QED
  BY <1>2, <1>3 DEF EvaluateOtherArch

\* A list that is COVERED with a never rule is COVERED without it.
LEMMA CoveredBefore ==
  ASSUME NEW p, NEW q, NEW machine, NEW shift, WithNever(p.rules, q.rules, shift), q.determinacy = "effective",
         EvaluateProcessCreation(p, machine) = "covered"
  PROVE  EvaluateProcessCreation(q, machine) = "covered"
<1>1. /\ Suppression(p.rules) = "none"
      /\ \/ machine \in X86 /\ EvaluateX86(p.rules) = "covered"
         \/ machine \notin X86 /\ EvaluateOtherArch(p.rules) = "covered"
  BY CoveredCases
<1>2. Candidates(p.rules) # {}
  BY DEF EvaluateProcessCreation
<1>3. Candidates(q.rules) # {}
  BY <1>2, SameCandidates
<1> QED
  BY <1>1, <1>3, NoSuppressionBefore, X86Before, OtherArchBefore DEF EvaluateProcessCreation

\* What an edit may not do.
NeverHelps ==
  \A r \in RuleChoices, machine \in Machines :
    /\ r.effect = "exclude"
    /\ rules' \in {Append(rules, r), <<r>> \o rules}
    => (ProcessVerdict(machine)' = "covered" => ProcessVerdict(machine) = "covered")

\* Whatever an administrator loads, wherever in the list: a never rule does not turn a
\* verdict into COVERED.
THEOREM NeverRuleNeverHelpsHolds == Spec => NeverRuleNeverHelps
<1>1. TypeOK => NeverHelps
  <2> SUFFICES ASSUME TypeOK, NEW r \in RuleChoices, NEW machine \in Machines, r.effect = "exclude",
                      rules' \in {Append(rules, r), <<r>> \o rules}, ProcessVerdict(machine)' = "covered"
               PROVE  ProcessVerdict(machine) = "covered"
    BY DEF NeverHelps
  <2>1. r \in Rule /\ rules \in Seq(Rule)
    BY RuleChoicesAssumption DEF TypeOK
  <2>2. \E shift \in {0, 1} : WithNever(rules', rules, shift)
    <3>1. CASE rules' = Append(rules, r)
      <4>1. WithNever(rules', rules, 0)
        BY <2>1, <3>1 DEF WithNever
      <4> QED
        BY <4>1
    <3>2. CASE rules' = <<r>> \o rules
      <4>1. /\ rules' \in Seq(Rule) /\ Len(rules') = Len(rules) + 1 /\ rules'[1] = r
            /\ \A i \in 1 .. Len(rules) : rules'[i + 1] = rules[i]
        BY <2>1, <3>2
      <4>2. \A i \in DOMAIN rules : i + 1 \in DOMAIN rules' /\ rules'[i + 1] = rules[i]
        BY <2>1, <4>1
      <4>3. ASSUME NEW k \in DOMAIN rules', k # 1
            PROVE  k - 1 \in DOMAIN rules /\ rules'[k] = rules[k - 1]
        <5>1. k - 1 \in 1 .. Len(rules)
          BY <2>1, <4>1, <4>3
        <5>2. rules'[(k - 1) + 1] = rules[k - 1]
          BY <4>1, <5>1
        <5> QED
          BY <2>1, <5>1, <5>2
      <4>4. WithNever(rules', rules, 1)
        BY <2>1, <4>1, <4>2, <4>3 DEF WithNever
      <4> QED
        BY <4>4
    <3> QED
      BY <3>1, <3>2
  <2>3. parsed.determinacy = "effective" /\ parsed.rules = rules /\ parsed'.rules = rules'
    BY DEF parsed
  <2>4. EvaluateProcessCreation(parsed', machine) = "covered"
    BY DEF ProcessVerdict
  <2> QED
    BY <2>2, <2>3, <2>4, CoveredBefore DEF ProcessVerdict
<1> QED
  BY <1>1, TypeCorrect, PTL DEF NeverRuleNeverHelps, NeverHelps
=============================================================================
