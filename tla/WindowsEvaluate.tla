-------------------------- MODULE WindowsEvaluate --------------------------
(***************************************************************************)
(* The Windows mappings (sigmascope/catalog.py) and evaluate_windows_audit *)
(* (sigmascope/evaluate/windows_gates.py), which decides from the states   *)
(* of a channel, of an audit subcategory and of a registry value.          *)
(***************************************************************************)
EXTENDS Integers, Sequences

Audit(q, subcategory) ==
  [requirement |-> q, kind |-> "windows_audit", of |-> subcategory, channel |-> "Security"]
Sysmon(q, event_type) ==
  [requirement |-> q, kind |-> "sysmon", of |-> event_type, channel |-> "Operational"]

\* The providers of WINDOWS_MAPPINGS, requirement by requirement.
Catalogue ==
  <<Audit("process_creation", "ProcessCreation"), Sysmon("process_creation", "ProcessCreate"),
    Audit("network_connection", "FilteringPlatformConnection"), Sysmon("network_connection", "NetworkConnect"),
    Audit("file_event", "FileSystem")>>

Requirement == {Catalogue[n].requirement : n \in DOMAIN Catalogue}

field_gate(p)                 == p.of = "ProcessCreation"
necessary_but_insufficient(p) == p.of = "FileSystem"

\* Mutant: auditing failures is enough.
Required_Any == {"success", "failure", "both"}

required_states == {"success", "both"}

Unclear == {"unknown", "unchanged"}

evaluate_windows_audit(p, state, cmdline, channel) ==
  IF channel = "off" THEN "not_covered"
  ELSE IF channel = "unknown" \/ state = "absent" \/ state \in Unclear THEN "indeterminate"
  ELSE IF state \notin required_states THEN "not_covered"
  ELSE IF field_gate(p) /\ cmdline = "unknown" THEN "indeterminate"
  ELSE IF field_gate(p) /\ cmdline = "off" THEN "degraded"
  ELSE IF necessary_but_insufficient(p) THEN "indeterminate" ELSE "covered"
=============================================================================
