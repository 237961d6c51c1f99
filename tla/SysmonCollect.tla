--------------------------- MODULE SysmonCollect ---------------------------
(***************************************************************************)
(* collect_sysmon (collect/windows/sysmon.py): find the service of Sysmon, *)
(* find its executable and have it print its configuration, which          *)
(* SysmonConfig shows how to parse. Each step is a read of the live host.  *)
(***************************************************************************)
EXTENDS WindowsHost

VARIABLES
  installed,   \* "yes", "no" or "unknown", as the collection says
  running,     \* likewise
  dump         \* what parse_sysmon_current makes of the dump, or Unread

sysmon == <<installed, running, dump>>

Unread == [determinacy |-> "unread", gates |-> <<>>, rules |-> <<>>]

InitSysmon == installed = "unread" /\ running = "unread" /\ dump = Unread

\* pc names the service that is asked for.
Asked(n) == pc = n /\ n \in Services

AfterService(n) == IF n = "Sysmon64" THEN "Sysmon" ELSE "evaluate"

-----------------------------------------------------------------------------
(* _service_state.                                                         *)

\* What a search that has found no service says, of installed and of running.
NoService(errs) == IF \E i \in DOMAIN errs : errs[i] \in Services THEN "unknown" ELSE "no"

\* collect_sysmon goes on to the other name, or returns.
NotFound(n, errs) ==
  /\ errors' = errs
  /\ pc' = AfterService(n)
  /\ installed' = IF pc' = "evaluate" THEN NoService(errs) ELSE installed
  /\ running' = IF pc' = "evaluate" THEN NoService(errs) ELSE running
  /\ UNCHANGED <<environment, diagnostics, dump>>

Here(n) == n = host.name /\ host.service # "absent"

ServiceAbsent ==
  \E n \in Services : Asked(n) /\ ~Here(n) /\ NotFound(n, errors) /\ UNCHANGED faults

\* The service manager or the service cannot be opened.
ServiceFails ==
  \E n \in Services : Asked(n) /\ Fault({<<"service", n>>}) /\ NotFound(n, Append(errors, n))

\* Mutant: a service that does not run is asked as well.
AfterFound_Any(up) == "locate"

AfterFound(up) == IF up = "yes" THEN "locate" ELSE "evaluate"

ServiceFound ==
  /\ \E n \in Services : Asked(n) /\ Here(n)
  /\ installed' = "yes"
  /\ running' = IF host.service = "running" THEN "yes" ELSE "no"
  /\ pc' = AfterFound(running')
  /\ UNCHANGED <<environment, faults, errors, diagnostics, dump>>

\* It is opened, but its status cannot be queried.
StatusFails ==
  /\ \E n \in Services : Asked(n) /\ Here(n) /\ Fault({<<"service", n>>}) /\ errors' = Append(errors, n)
  /\ installed' = "yes"
  /\ running' = "unknown"
  /\ pc' = "evaluate"
  /\ UNCHANGED <<environment, diagnostics, dump>>

-----------------------------------------------------------------------------
(* The executable: the ImagePath of the service, or Sysmon.exe on PATH.    *)

Located(found) ==
  /\ pc' = IF found THEN "ask" ELSE "evaluate"
  /\ errors' = IF found THEN errors ELSE Append(errors, "executable")
  /\ UNCHANGED <<environment, diagnostics, sysmon>>

Locate ==
  /\ pc = "locate"
  /\ host.image # "blank"
  /\ Located(host.image = "file" \/ host.on_path)
  /\ UNCHANGED faults

\* _service_image_path returns None.
ImagePathFails == pc = "locate" /\ Fault({<<"image", host.name>>}) /\ Located(host.on_path)

\* A blank path has no first word: the IndexError is caught nowhere.
ImagePathBlank ==
  /\ pc = "locate"
  /\ host.image = "blank"
  /\ pc' = "crashed"
  /\ UNCHANGED <<environment, faults, errors, diagnostics, sysmon>>

-----------------------------------------------------------------------------
(* sysmon -c.                                                              *)

\* A line of the rule section is not understood; nothing is printed at all.
Drifted(config) == [determinacy |-> "unknown", gates |-> config.gates, rules |-> <<>>]
Empty           == [determinacy |-> "effective", gates |-> <<>>, rules |-> <<>>]

Dumped(d) ==
  /\ dump' = d
  /\ diagnostics' = diagnostics \cup {t \in {"sysmon_c"} : d.determinacy = "unknown"}
  /\ pc' = "evaluate"
  /\ UNCHANGED <<environment, errors, installed, running>>

AskConfig ==
  /\ pc = "ask"
  /\ \/ Dumped(host.config) /\ UNCHANGED faults
     \/ Dumped(Drifted(host.config)) /\ Fault({<<"drift", "config">>})
     \/ Dumped(Empty) /\ Fault({<<"empty", "config">>})

\* It cannot be run, hangs or exits with an error.
AskFails ==
  /\ pc = "ask"
  /\ Fault({<<"sysmon_c", "config">>})
  /\ errors' = Append(errors, "sysmon_c")
  /\ pc' = "evaluate"
  /\ UNCHANGED <<environment, diagnostics, sysmon>>

CollectSysmon ==
  \/ ServiceAbsent \/ ServiceFails \/ ServiceFound \/ StatusFails
  \/ Locate \/ ImagePathFails \/ ImagePathBlank \/ AskConfig \/ AskFails
=============================================================================
