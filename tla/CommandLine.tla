---------------------------- MODULE CommandLine ----------------------------
(***************************************************************************)
(* The command, main (sigmascope/__main__.py), around run (api.py): the    *)
(* providers of each requirement of the host's catalogue are evaluated in  *)
(* turn and their verdicts resolved, and the exit code answers --fail-on.  *)
(* How a provider is evaluated is the matter of LinuxRun and WindowsRun.   *)
(***************************************************************************)
EXTENDS Verdicts

CONSTANT MAPPINGS_BY_OS   \* the number of providers of each requirement

Products == {"linux", "windows", "other"}

ASSUME MappingsAssumption == MAPPINGS_BY_OS \in [Products -> Seq(Nat \ {0})]

VARIABLES
  args,               \* the command line
  product,            \* the operating system
  pc,
  todo,               \* the providers of the requirement that are still to be evaluated
  provider_outputs,   \* the verdicts of the others
  findings,           \* the verdicts on the requirements, with those they come from
  status              \* the exit code, -1 before

vars == <<args, product, pc, todo, provider_outputs, findings, status>>

FailOn == {"none", "degraded", "not_covered", "indeterminate"}
Args   == [print_schema : BOOLEAN, print_catalog_version : BOOLEAN, demo : BOOLEAN, fail_on : FailOn]

requirements == MAPPINGS_BY_OS[product]

Init ==
  /\ args \in Args
  /\ product \in Products
  /\ pc = "parse"
  /\ todo = 0
  /\ provider_outputs = <<>>
  /\ findings = <<>>
  /\ status = -1

Exit(code) ==
  /\ status' = code
  /\ pc' = "done"
  /\ UNCHANGED <<args, product, todo, provider_outputs, findings>>

\* The schema may be missing from the package.
PrintSchema == pc = "parse" /\ args.print_schema /\ \E code \in {0, 1} : Exit(code)

PrintCatalogVersion ==
  pc = "parse" /\ ~args.print_schema /\ args.print_catalog_version /\ Exit(0)

Wanted == pc = "parse" /\ ~args.print_schema /\ ~args.print_catalog_version

DemoReport ==
  /\ Wanted /\ args.demo
  /\ findings' = <<[providers |-> <<>>, verdict |-> "degraded"]>>
  /\ pc' = "report"
  /\ UNCHANGED <<args, product, todo, provider_outputs, status>>

Run ==
  /\ Wanted /\ ~args.demo
  /\ pc' = "requirement"
  /\ UNCHANGED <<args, product, todo, provider_outputs, findings, status>>

\* Mutant: the outputs of the last requirement are kept.
NoOutputs_Carried == provider_outputs

NoOutputs == <<>>

NextRequirement ==
  /\ pc = "requirement" /\ Len(findings) < Len(requirements)
  /\ todo' = requirements[Len(findings) + 1]
  /\ provider_outputs' = NoOutputs
  /\ pc' = "providers"
  /\ UNCHANGED <<args, product, findings, status>>

EvaluateProvider ==
  /\ pc = "providers" /\ todo > 0
  /\ \E v \in Verdict : provider_outputs' = Append(provider_outputs, v)
  /\ todo' = todo - 1
  /\ UNCHANGED <<args, product, pc, findings, status>>

ResolveProviders ==
  /\ pc = "providers" /\ todo = 0
  /\ findings' = Append(findings,
       [providers |-> provider_outputs, verdict |-> resolve_provider_disjunction(provider_outputs)])
  /\ pc' = "requirement"
  /\ UNCHANGED <<args, product, todo, provider_outputs, status>>

\* Also where the operating system is none the catalogue knows, with no finding.
Return ==
  /\ pc = "requirement" /\ Len(findings) = Len(requirements)
  /\ pc' = "report"
  /\ UNCHANGED <<args, product, todo, provider_outputs, findings, status>>

\* A collector raises what nobody catches; what main does not catch either exits with 1, too.
RunRaises == pc \in {"requirement", "providers"} /\ Exit(1)

\* Mutant: the order in which the resolver prefers them.
Order_Resolver == [covered |-> 0, degraded |-> 2, not_covered |-> 3, indeterminate |-> 1]

order == [covered |-> 0, degraded |-> 1, not_covered |-> 2, indeterminate |-> 3]

_threshold_met(threshold) ==
  /\ threshold # "none"
  /\ \E n \in DOMAIN findings : order[findings[n].verdict] >= order[threshold]

ExitWithReport == pc = "report" /\ Exit(IF _threshold_met(args.fail_on) THEN 3 ELSE 0)

Next ==
  \/ PrintSchema \/ PrintCatalogVersion \/ DemoReport \/ Run
  \/ NextRequirement \/ EvaluateProvider \/ ResolveProviders \/ Return \/ RunRaises
  \/ ExitWithReport

Spec == Init /\ [][Next]_vars

-----------------------------------------------------------------------------
(* Correctness.                                                            *)

\* Types, and what a finding rests on: the outputs of the requirement's own providers,
\* each of them, and no others.
Finding == [providers : Seq(Verdict), verdict : Verdict]

TypeOK ==
  /\ args \in Args /\ product \in Products
  /\ pc \in {"parse", "requirement", "providers", "report", "done"}
  /\ todo \in Nat
  /\ provider_outputs \in Seq(Verdict)
  /\ findings \in Seq(Finding)
  /\ status \in {-1, 0, 1, 3}
  /\ ~args.demo =>
       /\ Len(findings) <= Len(requirements)
       /\ \A n \in DOMAIN findings : Len(findings[n].providers) = requirements[n]
       /\ pc = "providers" =>
            /\ Len(findings) < Len(requirements)
            /\ Len(provider_outputs) + todo = requirements[Len(findings) + 1]

\* What a verdict promises, from nothing to everything: INDETERMINATE is not a
\* fourth degree but the absence of knowledge.
Degree == [not_covered |-> 0, degraded |-> 1, covered |-> 2]

\* The providers' true verdicts, as far as the evaluation leaves them open.
Settled(providers) ==
  {s \in [DOMAIN providers -> DOMAIN Degree] :
    \A i \in DOMAIN providers : providers[i] # "indeterminate" => s[i] = providers[i]}

\* One provider is enough: the best one decides.
Decides(v, s) ==
  /\ \E i \in DOMAIN s : s[i] = v
  /\ \A i \in DOMAIN s : Degree[s[i]] <= Degree[v]

\* A disjunction commits itself exactly as far as its evidence goes: a finding is v
\* if and only if it is v however the providers that could not be evaluated would
\* have turned out, and INDETERMINATE if that makes a difference.
CommitsAsFarAsKnown ==
  ~args.demo =>
    \A n \in DOMAIN findings, v \in DOMAIN Degree :
      findings[n].verdict = v <=> \A s \in Settled(findings[n].providers) : Decides(v, s)

\* The degrees of coverage that a threshold lets pass.
Accepted ==
  [none |-> {}, degraded |-> {"covered"}, not_covered |-> {"covered", "degraded"},
   indeterminate |-> DOMAIN Degree]

\* However the open providers would have turned out, some accepted degree is reached.
Certainly(providers, degrees) == \A s \in Settled(providers) : \E v \in degrees : Decides(v, s)

\* One and the same degree is reached however they would have turned out.
Known(providers) == \E v \in DOMAIN Degree : \A s \in Settled(providers) : Decides(v, s)

\* README, "Usage": exit code 3 is used only when a requested threshold is met. It is
\* used if and only if --fail-on was asked for and some requirement either is not certain
\* to reach a degree of coverage that it accepts, or its degree is not known. What is not
\* known is past every threshold: with [degraded, indeterminate] "not_covered" gives 3,
\* though the requirement is certain to be covered at least in part.
ExitAnswersTheQuestion ==
  pc = "done" /\ ~args.demo /\ status # 1 =>
    (status = 3 <=>
       /\ args.fail_on # "none"
       /\ \E n \in DOMAIN findings :
            LET providers == findings[n].providers
            IN ~Certainly(providers, Accepted[args.fail_on]) \/ ~Known(providers))
=============================================================================
