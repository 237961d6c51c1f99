---------------------------- MODULE AuditPolicy ----------------------------
(***************************************************************************)
(* How a run learns the audit policy: _native_policy_result (api.py) asks  *)
(* the system, once more with a privilege when access is denied            *)
(* (collect/windows/auditpol_native.py), and reads the table of auditpol   *)
(* when that fails (auditpol_cli.py, parse/auditpol_csv.py).               *)
(***************************************************************************)
EXTENDS WindowsHost

VARIABLES
  states,      \* the state of each subcategory, as the run has it
  privilege    \* SeSecurityPrivilege is enabled in the token of the process

Csv == INSTANCE AuditpolCsv WITH Guids <- Subcategories

PolicyState == Word \cup {"unread", "absent", "unknown", "unchanged", "unknown:5"}

InitPolicy == states = [s \in Subcategories |-> "unread"] /\ privilege = FALSE

-----------------------------------------------------------------------------
(* AuditQuerySystemPolicy.                                                 *)

_POLICY_STATES == [flags \in 0 .. 4 |-> <<"unchanged", "success", "failure", "both", "none">>[flags + 1]]

policy_state(flags) == IF flags \in DOMAIN _POLICY_STATES THEN _POLICY_STATES[flags] ELSE "unknown:5"

\* What the system says of a word (external): of no auditing either 4 or 0; 5 stands for
\* flags nobody has seen yet.
Flags == [none |-> 4, success |-> 1, failure |-> 2, both |-> 3]

\* At most one subcategory comes back in an odd form.
Odd == {{}} \cup {{s} : s \in Subcategories}

Answered(as) == states' = as /\ pc' = "registry"

QuerySucceeds ==
  /\ pc \in {"query", "requery"}
  /\ \E odd \in Odd, zero \in SUBSET {s \in Subcategories : host.policy[s] = "none"} :
       /\ Fault({<<"flags", s>> : s \in odd})
       /\ Answered([s \in Subcategories |->
            policy_state(IF s \in odd THEN 5 ELSE IF s \in zero THEN 0 ELSE Flags[host.policy[s]])])
  /\ UNCHANGED <<environment, errors, diagnostics, privilege>>

\* Mutant: every denial is answered by another try.
FirstTry_Any == pc \in {"query", "requery"}

FirstTry == pc = "query"

QueryDenied ==
  /\ FirstTry
  /\ pc' = "privilege"
  /\ UNCHANGED <<environment, faults, errors, diagnostics, states, privilege>>

\* An error other than the first denial; the second denial is one.
NativeFails ==
  /\ Fault({<<"native", "policy">>})
  /\ errors' = Append(errors, "AuditQuerySystemPolicy")
  /\ pc' = "auditpol"
  /\ UNCHANGED <<environment, diagnostics, states, privilege>>

QueryFails == pc \in {"query", "requery"} /\ NativeFails

EnablePrivilege ==
  /\ pc = "privilege"
  /\ privilege' = TRUE
  /\ pc' = "requery"
  /\ UNCHANGED <<environment, faults, errors, diagnostics, states>>

\* The token cannot be opened or adjusted, or does not hold the privilege.
PrivilegeNotHeld == pc = "privilege" /\ NativeFails

-----------------------------------------------------------------------------
(* auditpol /get /category:* /r.                                           *)

Order == <<"ProcessCreation", "FilteringPlatformConnection", "FileSystem">>

Cell == [none |-> "zero", success |-> "one", failure |-> "two", both |-> "three"]

\* In an odd row the setting is empty or another text, or the row ends before it.
OddSettings == {<<>>, <<"empty">>, <<"text">>}

\* The header, perhaps after a blank line, one row for each subcategory, perhaps with an
\* empty last column, and perhaps the row of an option, which has no GUID.
Settings(words, odd) ==
  {[s \in Subcategories |-> IF s \in odd THEN cells ELSE <<Cell[words[s]]>>] : cells \in OddSettings}

Table(blank, setting, last, option) ==
  blank \o <<<<"text", "text", "text">>>>
    \o [n \in DOMAIN Order |-> <<"text", Order[n]>> \o setting[Order[n]] \o last] \o option

Tables(words, odd) ==
  {Table(blank, setting, last, option) :
   blank \in {<<>>, <<<<>>>>}, setting \in Settings(words, odd), last \in {<<>>, <<"empty">>},
   option \in {<<>>, <<<<"text", "empty", "zero">>>>, <<<<"text", "empty", "zero", "empty">>>>}}

\* What is understood of each table that a host may print.
Printed ==
  UNION {{[words |-> words, odd |-> odd, parsed |-> Csv!parse_auditpol_csv(rows)] : rows \in Tables(words, odd)} :
    words \in [Subcategories -> Word], odd \in Odd}

RunAuditpol ==
  /\ pc = "auditpol"
  /\ \E table \in {t \in Printed : t.words = host.policy} :
       /\ Fault({<<"row", s>> : s \in table.odd})
       /\ Answered(table.parsed.states)
       /\ diagnostics' = diagnostics \cup {t \in {"auditpol"} : table.parsed.diagnosed}
  /\ UNCHANGED <<environment, errors, privilege>>

\* It cannot be run, hangs or exits with an error.
AuditpolFails ==
  /\ pc = "auditpol"
  /\ Fault({<<"auditpol", "policy">>})
  /\ errors' = Append(errors, "auditpol")
  /\ Answered([s \in Subcategories |-> "absent"])
  /\ UNCHANGED <<environment, diagnostics, privilege>>

ReadPolicy ==
  \/ QuerySucceeds \/ QueryDenied \/ QueryFails \/ EnablePrivilege \/ PrivilegeNotHeld
  \/ RunAuditpol \/ AuditpolFails
=============================================================================
