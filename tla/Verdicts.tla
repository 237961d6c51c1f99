------------------------------ MODULE Verdicts ------------------------------
(***************************************************************************)
(* The verdicts (sigmascope/model.py) and how the verdicts of a            *)
(* requirement's providers become one (sigmascope/evaluate/resolver.py).   *)
(***************************************************************************)
EXTENDS Integers, Sequences

Verdict == {"covered", "degraded", "not_covered", "indeterminate"}

\* Mutant: indeterminate loses to degraded.
Order_Pessimist == [covered |-> 3, degraded |-> 2, indeterminate |-> 1, not_covered |-> 0]

_PROVIDER_ORDER == [covered |-> 3, indeterminate |-> 2, degraded |-> 1, not_covered |-> 0]

\* Verdicts of equal order are equal, so it does not matter which one max() takes.
Best(providers) ==
  CHOOSE i \in DOMAIN providers :
    \A j \in DOMAIN providers : _PROVIDER_ORDER[providers[j]] <= _PROVIDER_ORDER[providers[i]]

resolve_provider_disjunction(providers) ==
  IF providers = <<>> THEN "indeterminate" ELSE providers[Best(providers)]
=============================================================================
