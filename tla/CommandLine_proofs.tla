------------------------- MODULE CommandLine_proofs -------------------------
(***************************************************************************)
(* The resolver commits itself as far as the evidence goes, and the exit   *)
(* code says what the findings say, for every catalogue: any number of     *)
(* requirements and of providers for each, and all their verdicts.         *)
(***************************************************************************)
EXTENDS CommandLine, Verdicts_proofs

Definite == {"covered", "degraded", "not_covered"}

\* So it does for the outputs of a requirement.
LEMMA BestIsBest ==
  ASSUME NEW ps \in Seq(Verdict), ps # <<>>
  PROVE  /\ Best(ps) \in DOMAIN ps
         /\ \A j \in DOMAIN ps : _PROVIDER_ORDER[ps[j]] <= _PROVIDER_ORDER[ps[Best(ps)]]
<1>1. 1 \in DOMAIN ps /\ \A i \in DOMAIN ps : ps[i] \in Verdict
  OBVIOUS
<1>2. DOMAIN ps # {}
  BY <1>1
<1> QED
  BY <1>1, <1>2, BestExists

\* Settling what is indeterminate as w gives one of the possible outcomes.
LEMMA SettleAll ==
  ASSUME NEW ps \in Seq(Verdict), NEW w \in Definite
  PROVE  [i \in DOMAIN ps |-> IF ps[i] = "indeterminate" THEN w ELSE ps[i]] \in Settled(ps)
  BY DEF Settled, Definite, Degree, Verdict

\* A definite verdict of the best provider decides, however the others turn out.
LEMMA DefiniteDecides ==
  ASSUME NEW ps \in Seq(Verdict), ps # <<>>, ps[Best(ps)] \in Definite,
         NEW s \in Settled(ps)
  PROVE  Decides(ps[Best(ps)], s)
<1> DEFINE v == ps[Best(ps)]
<1>1. DOMAIN s = DOMAIN ps /\ \A i \in DOMAIN ps : s[i] \in Definite
  BY DEF Settled, Degree, Definite
<1>2. s[Best(ps)] = v
  BY BestIsBest DEF Settled, Definite
<1>3. ASSUME NEW i \in DOMAIN ps PROVE Degree[s[i]] <= Degree[v]
  <2>1. _PROVIDER_ORDER[ps[i]] <= _PROVIDER_ORDER[v]
    BY BestIsBest
  <2>2. CASE ps[i] = "indeterminate"
    BY <1>1, <2>1, <2>2 DEF _PROVIDER_ORDER, Degree, Definite
  <2>3. CASE ps[i] # "indeterminate"
    <3>1. s[i] = ps[i]
      BY <2>3 DEF Settled
    <3> QED
      BY <1>1, <2>1, <3>1 DEF _PROVIDER_ORDER, Degree, Definite
  <2> QED
    BY <2>2, <2>3
<1> QED
  BY <1>1, <1>2, <1>3, BestIsBest DEF Decides

\* At most one verdict decides an outcome.
LEMMA OneDecides ==
  ASSUME NEW s, \A i \in DOMAIN s : s[i] \in Definite,
         NEW v \in Definite, NEW w \in Definite, Decides(v, s), Decides(w, s)
  PROVE  v = w
  BY DEF Decides, Degree, Definite

\* The resolved verdict is v exactly when every way to settle what is open gives v.
LEMMA ResolvesAsFarAsKnown ==
  ASSUME NEW ps \in Seq(Verdict), ps # <<>>, NEW v \in Definite
  PROVE  resolve_provider_disjunction(ps) = v <=> \A s \in Settled(ps) : Decides(v, s)
<1> DEFINE b == ps[Best(ps)]
           Settle(w) == [i \in DOMAIN ps |-> IF ps[i] = "indeterminate" THEN w ELSE ps[i]]
<1>1. resolve_provider_disjunction(ps) = b
  BY DEF resolve_provider_disjunction
<1>2. b \in Verdict
  BY BestIsBest
<1>3. b = v => \A s \in Settled(ps) : Decides(v, s)
  BY DefiniteDecides
<1>4. ASSUME \A s \in Settled(ps) : Decides(v, s) PROVE b = v
  <2>1. CASE b \in Definite
    <3>1. Settle("not_covered") \in Settled(ps)
      BY SettleAll DEF Definite
    <3>2. \A i \in DOMAIN Settle("not_covered") : Settle("not_covered")[i] \in Definite
      BY <3>1 DEF Settled, Degree, Definite
    <3>3. Decides(b, Settle("not_covered")) /\ Decides(v, Settle("not_covered"))
      BY <1>4, <2>1, <3>1, DefiniteDecides
    <3> HIDE DEF Settle, b
    <3> QED
      BY <2>1, <3>2, <3>3, OneDecides
  <2>2. CASE b = "indeterminate"
    <3>1. \A i \in DOMAIN ps : ps[i] # "covered"
      BY <2>2, BestIsBest DEF _PROVIDER_ORDER
    <3>2. Decides(v, Settle("covered")) /\ Decides(v, Settle("not_covered"))
      BY <1>4, SettleAll DEF Definite
    <3>3. v = "covered"
      <4>1. Settle("covered")[Best(ps)] = "covered" /\ Best(ps) \in DOMAIN Settle("covered")
        BY <2>2, BestIsBest
      <4>2. Degree["covered"] <= Degree[v]
        BY <3>2, <4>1 DEF Decides
      <4> QED
        BY <4>2 DEF Degree, Definite
    <3>4. \A i \in DOMAIN Settle("not_covered") : Settle("not_covered")[i] # "covered"
      BY <3>1
    <3> QED
      BY <3>2, <3>3, <3>4 DEF Decides
  <2> QED
    BY <1>2, <2>1, <2>2 DEF Verdict, Definite
<1> QED
  BY <1>1, <1>3, <1>4

-----------------------------------------------------------------------------

Resolved ==
  ~args.demo =>
    \A n \in DOMAIN findings :
      /\ findings[n].providers # <<>>
      /\ findings[n].verdict = resolve_provider_disjunction(findings[n].providers)

Answered ==
  pc = "done" /\ ~args.demo /\ status # 1 =>
    status = IF _threshold_met(args.fail_on) THEN 3 ELSE 0

Inv == TypeOK /\ Resolved /\ Answered /\ (pc = "parse" => findings = <<>>)

\* What is resolved is a verdict.
LEMMA ResolvedIsVerdict ==
  ASSUME NEW ps \in Seq(Verdict)
  PROVE  resolve_provider_disjunction(ps) \in Verdict
  BY BestIsBest DEF resolve_provider_disjunction, Verdict

\* The catalogue of the host is a sequence of positive numbers.
LEMMA RequirementsType ==
  ASSUME product \in Products
  PROVE  requirements \in Seq(Nat \ {0})
  BY MappingsAssumption DEF requirements

\* What Inv says of a finding.
LEMMA FindingsAreResolved ==
  ASSUME Inv, ~args.demo, NEW n \in DOMAIN findings
  PROVE  /\ findings[n].providers \in Seq(Verdict) /\ findings[n].providers # <<>>
         /\ findings[n].verdict = resolve_provider_disjunction(findings[n].providers)
<1>1. findings \in Seq(Finding)
  BY Zenon DEF Inv, TypeOK
<1>2. findings[n] \in Finding
  BY <1>1
<1>3. findings[n].providers \in Seq(Verdict)
  BY <1>2 DEF Finding
<1> QED
  BY <1>3, Zenon DEF Inv, Resolved

\* A step that only moves on from the command line, with nothing found, preserves Inv.
LEMMA StartPreserves ==
  ASSUME Inv, PrintSchema \/ PrintCatalogVersion \/ DemoReport \/ Run
  PROVE  Inv'
<1>1. CASE PrintSchema
  BY <1>1 DEF PrintSchema, Exit, Inv, TypeOK, Resolved, Answered, _threshold_met, requirements
<1>2. CASE PrintCatalogVersion
  BY <1>2 DEF PrintCatalogVersion, Exit, Inv, TypeOK, Resolved, Answered, _threshold_met, requirements
<1>3. CASE DemoReport
  <2>1. [providers |-> <<>>, verdict |-> "degraded"] \in Finding
    BY DEF Finding, Verdict
  <2>2. findings' \in Seq(Finding)
    BY <1>3, <2>1 DEF DemoReport
  <2> QED
    BY <1>3, <2>2 DEF DemoReport, Wanted, Inv, TypeOK, Resolved, Answered
<1>4. CASE Run
  BY <1>4 DEF Run, Wanted, Inv, TypeOK, Resolved, Answered, requirements
<1> QED
  BY <1>1, <1>2, <1>3, <1>4

\* The next requirement starts with all of its own providers ahead.
LEMMA NextRequirementPreserves ==
  ASSUME Inv, NextRequirement
  PROVE  Inv'
<1>1. /\ requirements \in Seq(Nat \ {0})
      /\ Len(findings) \in Nat /\ Len(findings) < Len(requirements)
  BY RequirementsType DEF Inv, TypeOK, NextRequirement
<1>2. requirements[Len(findings) + 1] \in Nat
  BY <1>1
<1>3. TypeOK'
  BY <1>1, <1>2 DEF NextRequirement, NoOutputs, Inv, TypeOK, requirements
<1> QED
  BY <1>3 DEF NextRequirement, Inv, Resolved, Answered

\* A provider adds its verdict.
LEMMA EvaluateProviderPreserves ==
  ASSUME Inv, EvaluateProvider
  PROVE  Inv'
<1>1. PICK v \in Verdict : provider_outputs' = Append(provider_outputs, v)
  BY DEF EvaluateProvider
<1>2. /\ provider_outputs' \in Seq(Verdict)
      /\ Len(provider_outputs') = Len(provider_outputs) + 1
      /\ Len(provider_outputs) \in Nat
  BY <1>1 DEF Inv, TypeOK
<1>3. todo \in Nat /\ todo > 0 /\ todo' = todo - 1
  BY DEF EvaluateProvider, Inv, TypeOK
<1>4. todo' \in Nat /\ Len(provider_outputs') + todo' = Len(provider_outputs) + todo
  BY <1>2, <1>3
<1>5. TypeOK'
  BY <1>2, <1>4 DEF EvaluateProvider, Inv, TypeOK, requirements
<1> QED
  BY <1>5 DEF EvaluateProvider, Inv, Resolved, Answered

\* A finding is resolved from the outputs of all the providers of its requirement.
LEMMA ResolveProvidersPreserves ==
  ASSUME Inv, ResolveProviders
  PROVE  Inv'
<1> DEFINE f == [providers |-> provider_outputs,
                 verdict |-> resolve_provider_disjunction(provider_outputs)]
<1>1. f \in Finding
  BY ResolvedIsVerdict DEF Inv, TypeOK, Finding
<1>2. /\ findings' = Append(findings, f)
      /\ UNCHANGED <<args, product, todo, provider_outputs, status>>
      /\ pc = "providers" /\ todo = 0 /\ pc' = "requirement"
  BY DEF ResolveProviders
<1>3. /\ f.providers = provider_outputs
      /\ f.verdict = resolve_provider_disjunction(provider_outputs)
  OBVIOUS
<1> HIDE DEF f
<1>4. /\ findings \in Seq(Finding) /\ findings' \in Seq(Finding)
      /\ Len(findings) \in Nat /\ Len(findings') = Len(findings) + 1
      /\ findings'[Len(findings) + 1] = f
      /\ \A n \in DOMAIN findings : findings'[n] = findings[n]
      /\ DOMAIN findings' = DOMAIN findings \cup {Len(findings) + 1}
  BY <1>1, <1>2 DEF Inv, TypeOK
<1>5. ASSUME ~args.demo
      PROVE  /\ Len(findings) + 1 <= Len(requirements)
             /\ Len(provider_outputs) = requirements[Len(findings) + 1]
             /\ provider_outputs # <<>>
  <2>1. /\ requirements \in Seq(Nat \ {0})
        /\ Len(findings) < Len(requirements)
        /\ Len(provider_outputs) + 0 = requirements[Len(findings) + 1]
    BY <1>2, <1>5, RequirementsType DEF Inv, TypeOK
  <2>2. Len(provider_outputs) \in Nat /\ Len(requirements) \in Nat
    BY <2>1 DEF Inv, TypeOK
  <2>3. requirements[Len(findings) + 1] # 0
    BY <1>4, <2>1, <2>2
  <2> QED
    BY <1>4, <2>1, <2>2, <2>3
<1>6. ASSUME ~args.demo
      PROVE  /\ Len(findings') <= Len(requirements)
             /\ \A n \in DOMAIN findings' : Len(findings'[n].providers) = requirements[n]
  BY <1>3, <1>4, <1>5, <1>6 DEF Inv, TypeOK
<1>7. TypeOK'
  BY <1>2, <1>4, <1>6 DEF Inv, TypeOK, requirements
<1>8. Resolved'
  BY <1>2, <1>3, <1>4, <1>5 DEF Inv, Resolved
<1> QED
  BY <1>2, <1>7, <1>8 DEF Inv, Answered

\* The exit code is that of the findings, unless the run has failed.
LEMMA EndPreserves ==
  ASSUME Inv, Return \/ RunRaises \/ ExitWithReport
  PROVE  Inv'
<1>1. CASE Return
  BY <1>1 DEF Return, Inv, TypeOK, Resolved, Answered, requirements
<1>2. CASE RunRaises
  BY <1>2 DEF RunRaises, Exit, Inv, TypeOK, Resolved, Answered, requirements
<1>3. CASE ExitWithReport
  <2>1. _threshold_met(args.fail_on)' = _threshold_met(args.fail_on)
    BY <1>3 DEF ExitWithReport, Exit, _threshold_met
  <2> QED
    BY <1>3, <2>1 DEF ExitWithReport, Exit, Inv, TypeOK, Resolved, Answered, requirements
<1> QED
  BY <1>1, <1>2, <1>3

\* The findings are resolved from the verdicts of their own providers, and the exit code
\* is computed from them.
LEMMA InvHolds == Spec => []Inv
<1>1. Init => Inv
  BY MappingsAssumption DEF Init, Inv, TypeOK, Resolved, Answered, requirements
<1>2. Inv /\ [Next]_vars => Inv'
  <2> SUFFICES ASSUME Inv, [Next]_vars PROVE Inv'
    OBVIOUS
  <2>1. CASE Next
    BY <2>1, StartPreserves, NextRequirementPreserves, EvaluateProviderPreserves,
       ResolveProvidersPreserves, EndPreserves DEF Next
  <2>2. CASE UNCHANGED vars
    BY <2>2 DEF vars, Inv, TypeOK, Resolved, Answered, requirements, _threshold_met
  <2> QED
    BY <2>1, <2>2
<1> QED
  BY <1>1, <1>2, PTL DEF Spec

\* Types, and every finding rests on the outputs of each provider of its own requirement
\* and of no other (the loops of api.py), for every catalogue.
THEOREM TypeOKHolds == Spec => []TypeOK
<1>1. Inv => TypeOK
  BY DEF Inv
<1> QED
  BY <1>1, InvHolds, PTL

\* A finding is a definite verdict if and only if no provider that could not be
\* evaluated could have changed it (resolve_provider_disjunction), for any number of
\* providers.
THEOREM CommitsAsFarAsKnownHolds == Spec => []CommitsAsFarAsKnown
<1>1. Inv => CommitsAsFarAsKnown
  <2>1. DOMAIN Degree = Definite
    BY DEF Degree, Definite
  <2> QED
    BY <2>1, ResolvesAsFarAsKnown, FindingsAreResolved DEF CommitsAsFarAsKnown
<1> QED
  BY <1>1, InvHolds, PTL

\* A resolved verdict is past a threshold exactly if no accepted degree is certain or the
\* degree is not known.
LEMMA ThresholdAsksForCertainty ==
  ASSUME NEW ps \in Seq(Verdict), ps # <<>>, NEW t \in FailOn \ {"none"}
  PROVE  order[resolve_provider_disjunction(ps)] >= order[t]
           <=> ~Certainly(ps, Accepted[t]) \/ ~Known(ps)
<1> DEFINE r == resolve_provider_disjunction(ps)
<1>1. r \in Verdict
  BY ResolvedIsVerdict
<1>2. Accepted[t] \subseteq Definite
  BY DEF Accepted, Definite, Degree, FailOn
<1>3. \A v \in Definite : r = v <=> \A s \in Settled(ps) : Decides(v, s)
  BY ResolvesAsFarAsKnown
<1> HIDE DEF r
<1>4. ASSUME r \in Accepted[t] PROVE Certainly(ps, Accepted[t]) /\ Known(ps)
  <2>1. r \in Definite /\ \A s \in Settled(ps) : Decides(r, s)
    BY <1>2, <1>3, <1>4
  <2> QED
    BY <1>4, <2>1 DEF Certainly, Known, Definite, Degree
<1>5. ASSUME Certainly(ps, Accepted[t]), Known(ps) PROVE r \in Accepted[t]
  <2>1. PICK v \in Definite : \A s \in Settled(ps) : Decides(v, s)
    BY <1>5 DEF Known, Definite, Degree
  <2>2. PICK s \in Settled(ps) : \A i \in DOMAIN s : s[i] \in Definite
    <3>1. PICK s \in Settled(ps) : TRUE
      BY SettleAll DEF Definite
    <3> QED
      BY <3>1 DEF Settled, Definite, Degree
  <2>3. PICK w \in Accepted[t] : Decides(w, s)
    BY <1>5 DEF Certainly
  <2>4. v = w
    BY <1>2, <2>1, <2>2, <2>3, OneDecides
  <2> QED
    BY <1>3, <2>1, <2>3, <2>4
<1>6. order[r] >= order[t] <=> r \notin Accepted[t]
  BY <1>1 DEF order, Accepted, Degree, Verdict, FailOn
<1> QED
  BY <1>4, <1>5, <1>6 DEF r

\* The exit code of a report (main) is 3 exactly when --fail-on was asked for and some
\* requirement is not certain to reach a degree that it accepts, or its degree is unknown.
THEOREM ExitAnswersTheQuestionHolds == Spec => []ExitAnswersTheQuestion
<1>1. Inv => ExitAnswersTheQuestion
  <2> SUFFICES ASSUME Inv, pc = "done", ~args.demo, status # 1
               PROVE  status = 3 <=>
                        /\ args.fail_on # "none"
                        /\ \E n \in DOMAIN findings :
                             \/ ~Certainly(findings[n].providers, Accepted[args.fail_on])
                             \/ ~Known(findings[n].providers)
    BY DEF ExitAnswersTheQuestion
  <2>1. args.fail_on \in FailOn
    BY DEF Inv, TypeOK, Args
  <2>2. \A n \in DOMAIN findings :
          /\ findings[n].providers \in Seq(Verdict) /\ findings[n].providers # <<>>
          /\ findings[n].verdict = resolve_provider_disjunction(findings[n].providers)
    BY FindingsAreResolved
  <2>3. status = 3 <=> _threshold_met(args.fail_on)
    BY DEF Inv, Answered
  <2> QED
    BY <2>1, <2>2, <2>3, ThresholdAsksForCertainty DEF _threshold_met
<1> QED
  BY <1>1, InvHolds, PTL
=============================================================================
