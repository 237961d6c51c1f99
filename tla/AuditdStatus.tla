---------------------------- MODULE AuditdStatus ----------------------------
(***************************************************************************)
(* parse_auditd_status (sigmascope/parse/auditd_status.py): the lines of   *)
(* `auditctl -s` that begin with enabled or pid. A line has a value that   *)
(* is a number, or it has none; other lines are skipped.                   *)
(***************************************************************************)
EXTENDS Integers, Sequences

StatusKeys == {"enabled", "pid"}

StatusLine == [key : StatusKeys, numeric : BOOLEAN, value : Nat]

Valid(lines, key) == {n \in DOMAIN lines : lines[n].key = key /\ lines[n].numeric}

\* The gate auditd.key: the last valid line counts. No value, or one.
GateValue(lines, key) ==
  {lines[n].value : n \in {m \in Valid(lines, key) : \A k \in Valid(lines, key) : k <= m}}

StatusDeterminacy(lines) ==
  IF \/ \E n \in DOMAIN lines : ~lines[n].numeric
     \/ \E key \in StatusKeys : Valid(lines, key) = {}
  THEN "unknown" ELSE "effective"
=============================================================================
