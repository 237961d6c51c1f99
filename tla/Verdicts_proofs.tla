-------------------------- MODULE Verdicts_proofs --------------------------
(***************************************************************************)
(* What the resolver finds, for any number of providers.                   *)
(***************************************************************************)
EXTENDS Verdicts, TLAPS

\* max() finds a provider whose verdict no other surpasses.
LEMMA BestExists ==
  ASSUME NEW ps, DOMAIN ps # {}, \A i \in DOMAIN ps : ps[i] \in Verdict
  PROVE  /\ Best(ps) \in DOMAIN ps
         /\ \A j \in DOMAIN ps : _PROVIDER_ORDER[ps[j]] <= _PROVIDER_ORDER[ps[Best(ps)]]
<1> DEFINE Tops(i) == \A j \in DOMAIN ps : _PROVIDER_ORDER[ps[j]] <= _PROVIDER_ORDER[ps[i]]
<1>1. PICK one \in DOMAIN ps : TRUE
  OBVIOUS
<1>2. /\ _PROVIDER_ORDER["covered"] = 3 /\ _PROVIDER_ORDER["indeterminate"] = 2
      /\ _PROVIDER_ORDER["degraded"] = 1 /\ _PROVIDER_ORDER["not_covered"] = 0
  BY DEF _PROVIDER_ORDER
<1>3. \E i \in DOMAIN ps : Tops(i)
  <2>1. CASE \E i \in DOMAIN ps : ps[i] = "covered"
    <3>1. PICK i \in DOMAIN ps : ps[i] = "covered"
      BY <2>1
    <3>2. Tops(i)
      BY <1>2, <3>1 DEF Verdict
    <3> QED
      BY <3>2
  <2>2. CASE /\ ~\E i \in DOMAIN ps : ps[i] = "covered"
             /\ \E i \in DOMAIN ps : ps[i] = "indeterminate"
    <3>1. PICK i \in DOMAIN ps : ps[i] = "indeterminate"
      BY <2>2
    <3>2. Tops(i)
      BY <1>2, <2>2, <3>1 DEF Verdict
    <3> QED
      BY <3>2
  <2>3. CASE /\ ~\E i \in DOMAIN ps : ps[i] \in {"covered", "indeterminate"}
             /\ \E i \in DOMAIN ps : ps[i] = "degraded"
    <3>1. PICK i \in DOMAIN ps : ps[i] = "degraded"
      BY <2>3
    <3>2. Tops(i)
      BY <1>2, <2>3, <3>1 DEF Verdict
    <3> QED
      BY <3>2
  <2>4. CASE ~\E i \in DOMAIN ps : ps[i] \in {"covered", "indeterminate", "degraded"}
    <3>1. Tops(one)
      BY <1>2, <2>4 DEF Verdict
    <3> QED
      BY <1>1, <3>1
  <2> QED
    BY <2>1, <2>2, <2>3, <2>4
<1> QED
  BY <1>3 DEF Best

\* What is resolved is the verdict of a provider that no other surpasses.
LEMMA ResolvesToTheBest ==
  ASSUME NEW ps, ps # <<>>, DOMAIN ps # {}, \A i \in DOMAIN ps : ps[i] \in Verdict
  PROVE  \E b \in DOMAIN ps :
           /\ resolve_provider_disjunction(ps) = ps[b]
           /\ \A j \in DOMAIN ps : _PROVIDER_ORDER[ps[j]] <= _PROVIDER_ORDER[ps[b]]
  BY BestExists DEF resolve_provider_disjunction
=============================================================================
