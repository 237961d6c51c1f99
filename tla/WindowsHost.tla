----------------------------- MODULE WindowsHost -----------------------------
(***************************************************************************)
(* The Windows host that a run looks at, which is external to the          *)
(* repository, and what the parts of a run share: the stage it is in, the  *)
(* errors and diagnostics of its report, and the reads that have failed.   *)
(* The host is live: an administrator changes it between any two reads.    *)
(***************************************************************************)
EXTENDS Integers, Sequences, FiniteSets

CONSTANTS
  Hosts,      \* the hosts a run may find
  Configs,    \* the Sysmon configurations, as SysmonEvaluate sees them
  MaxEdits,   \* bound: changes to the host during the run
  MaxFaults   \* bound: reads that fail, or answer oddly, during the run

VARIABLES
  host,
  edits,        \* the changes made to the host so far
  faults,       \* the reads that failed or answered oddly: how, and of what
  pc,           \* what the run does next
  errors,       \* the sources of the CollectionErrors, in their order
  diagnostics   \* the sources that a Diagnostic was issued for

environment == <<host, edits>>

Subcategories == {"ProcessCreation", "FilteringPlatformConnection", "FileSystem"}
Word          == {"none", "success", "failure", "both"}
Channels      == {"Security", "Operational"}
Services      == {"Sysmon64", "Sysmon"}

\* Sysmon has one service, under the name its executable had when it was installed.
\* Its ImagePath names a file or something that is none, or is blank.
Host ==
  [policy : [Subcategories -> Word], cmdline : BOOLEAN, channel : [Channels -> BOOLEAN],
   name : Services, service : {"absent", "stopped", "running"}, config : Configs,
   image : {"file", "gone", "blank"}, on_path : BOOLEAN]

ASSUME HostsAssumption == Hosts \subseteq Host

\* What Sysmon is configured to log has no unknown part; a dump of it may have.
ASSUME ConfigsAssumption == \A c \in Configs : c.determinacy = "effective"

ASSUME BoundsAssumption == MaxEdits \in Nat /\ MaxFaults \in Nat

InitHost ==
  /\ host \in Hosts
  /\ edits = 0
  /\ faults = {}
  /\ pc = "query"
  /\ errors = <<>>
  /\ diagnostics = {}

\* What goes wrong in a step.
Fault(fs) == faults' = faults \cup fs /\ Cardinality(faults') <= MaxFaults

-----------------------------------------------------------------------------

Edit(h) ==
  /\ edits < MaxEdits
  /\ h # host
  /\ host' = h
  /\ edits' = edits + 1
  /\ UNCHANGED <<faults, pc, errors, diagnostics>>

SetPolicy   == \E s \in Subcategories, w \in Word : Edit([host EXCEPT !.policy[s] = w])
SetCmdLine  == Edit([host EXCEPT !.cmdline = ~@])
SetChannel  == \E c \in Channels : Edit([host EXCEPT !.channel[c] = ~@])
SetService  == \E state \in {"absent", "stopped", "running"} : Edit([host EXCEPT !.service = state])
Reconfigure == \E c \in Configs : Edit([host EXCEPT !.config = c])

Administrator == SetPolicy \/ SetCmdLine \/ SetChannel \/ SetService \/ Reconfigure
=============================================================================
