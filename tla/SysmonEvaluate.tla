--------------------------- MODULE SysmonEvaluate ---------------------------
(***************************************************************************)
(* evaluate_event_type (sigmascope/evaluate/sysmon.py): the verdict on an  *)
(* event type from the parsed dump, `parsed` being a record of determinacy,*)
(* gates and rules. The gates of the parser are those of network           *)
(* connections, in the order of their lines.                               *)
(***************************************************************************)
EXTENDS Integers, Sequences

Disabled(parsed, event_type) ==
  event_type = "NetworkConnect" /\ parsed.gates # <<>> /\ ~parsed.gates[1]

Matching(parsed, event_type, effect) ==
  {parsed.rules[i] : i \in {k \in DOMAIN parsed.rules :
    parsed.rules[k].event = event_type /\ parsed.rules[k].effect = effect}}

Filtered(blocks) == \E b \in blocks : b.predicates # {}

evaluate_event_type(parsed, event_type) ==
  LET includes == Matching(parsed, event_type, "include")
      excludes == Matching(parsed, event_type, "exclude")
  IN IF Disabled(parsed, event_type) THEN "not_covered"
     ELSE IF parsed.determinacy = "unknown" THEN "indeterminate"
     ELSE IF includes # {} /\ ~Filtered(includes) THEN "not_covered"
     ELSE IF includes # {} \/ Filtered(excludes) THEN "degraded" ELSE "covered"
=============================================================================
