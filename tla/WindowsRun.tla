----------------------------- MODULE WindowsRun -----------------------------
(***************************************************************************)
(* One run on a Windows host, _run_windows (sigmascope/api.py): the audit  *)
(* policy, the registry and Sysmon are read in turn, and then the          *)
(* providers of the catalogue evaluated one by one, the event channels     *)
(* being read when the first provider needs them. The host is live.        *)
(***************************************************************************)
EXTENDS AuditPolicy, SysmonCollect, SysmonEvaluate, WindowsEvaluate, Verdicts

VARIABLES
  cmdline,     \* the registry gate: "on", "off" or "unknown"
  channels,    \* the cache of channel configurations
  outputs,     \* the verdicts of the providers so far
  findings     \* the verdict on each requirement

vars == <<host, edits, faults, pc, errors, diagnostics, states, privilege, installed, running, dump,
          cmdline, channels, outputs, findings>>

Init ==
  /\ InitHost /\ InitPolicy /\ InitSysmon
  /\ cmdline = "unread"
  /\ channels = [c \in Channels |-> "unread"]
  /\ outputs = <<>>
  /\ findings = [q \in Requirement |-> "none"]

OnOff(b) == IF b THEN "on" ELSE "off"

-----------------------------------------------------------------------------
(* collect_registry_gates: a missing value is off.                         *)

ReadRegistry ==
  /\ pc = "registry"
  /\ cmdline' = OnOff(host.cmdline)
  /\ pc' = "Sysmon64"
  /\ UNCHANGED <<environment, faults, errors, diagnostics, channels, outputs, findings>>

\* No CollectionError, only a Diagnostic.
RegistryFails ==
  /\ pc = "registry"
  /\ Fault({<<"registry", "cmdline">>})
  /\ cmdline' = "unknown"
  /\ diagnostics' = diagnostics \cup {"registry"}
  /\ pc' = "Sysmon64"
  /\ UNCHANGED <<environment, errors, channels, outputs, findings>>

-----------------------------------------------------------------------------
(* The channels, and the loop over the providers.                          *)

\* Mutants: nothing is kept; a failure is not.
Cached_Never(c)   == FALSE
Cached_Answers(c) == channels[c] \in {"on", "off"}

Cached(c) == channels[c] # "unread"

\* get_channel_config behind the cache of channel().
Channel(c) ==
  \/ Cached(c) /\ UNCHANGED <<channels, errors, faults>>
  \/ /\ ~Cached(c)
     /\ channels' = [channels EXCEPT ![c] = OnOff(host.channel[c])]
     /\ UNCHANGED <<errors, faults>>
  \/ /\ ~Cached(c)
     /\ channels' = [channels EXCEPT ![c] = "unknown"]
     /\ errors' = Append(errors, c)
     /\ Fault({<<"channel", c>>})

\* What is said of Sysmon before its channel is looked at, or "none".
SysmonGate ==
  IF installed = "no" \/ running = "no" THEN "not_covered"
  ELSE IF installed = "unknown" \/ running = "unknown" \/ dump = Unread THEN "indeterminate" ELSE "none"

\* A Sysmon provider that is decided without its channel leaves it unread.
Consults(p) == p.kind = "windows_audit" \/ SysmonGate = "none"

SysmonVerdict(p, channel) ==
  IF SysmonGate # "none" THEN SysmonGate
  ELSE IF channel = "off" THEN "not_covered"
  ELSE IF channel = "unknown" THEN "indeterminate" ELSE evaluate_event_type(dump, p.of)

ProviderVerdict(p, channel) ==
  IF p.kind = "sysmon" THEN SysmonVerdict(p, channel)
  ELSE evaluate_windows_audit(p, states[p.of], cmdline, channel)

EvaluateProvider ==
  /\ pc = "evaluate" /\ Len(outputs) < Len(Catalogue)
  /\ LET p == Catalogue[Len(outputs) + 1]
     IN /\ IF Consults(p) THEN Channel(p.channel) ELSE UNCHANGED <<channels, errors, faults>>
        /\ outputs' = Append(outputs, ProviderVerdict(p, channels'[p.channel]))
  /\ UNCHANGED <<environment, pc, diagnostics, cmdline, findings>>

ProvidersOf(q) == {n \in DOMAIN Catalogue : Catalogue[n].requirement = q}

Report ==
  /\ pc = "evaluate" /\ Len(outputs) = Len(Catalogue)
  /\ findings' = [q \in Requirement |->
                    resolve_provider_disjunction([n \in ProvidersOf(q) |-> outputs[n]])]
  /\ pc' = "done"
  /\ UNCHANGED <<environment, faults, errors, diagnostics, cmdline, channels, outputs>>

-----------------------------------------------------------------------------

policy == <<states, privilege>>
run    == <<cmdline, channels, outputs, findings>>

Program ==
  \/ (ReadPolicy /\ UNCHANGED <<sysmon, run>>)
  \/ (CollectSysmon /\ UNCHANGED <<policy, run>>)
  \/ ((ReadRegistry \/ RegistryFails \/ EvaluateProvider \/ Report) /\ UNCHANGED <<policy, sysmon>>)

Next == (Administrator /\ UNCHANGED <<policy, sysmon, run>>) \/ Program

Spec == Init /\ [][Next]_vars

\* The program is one thread; each call returns, and each command within its timeout.
FairSpec == Spec /\ WF_vars(Program)
-----------------------------------------------------------------------------
(* Correctness.                                                            *)

EventTypes == {"ProcessCreate", "NetworkConnect"}

\* Types, and what each stage may take for granted: sysmon -c is asked only of a service
\* that was found running, and nothing is reported before every provider is evaluated.
TypeOK ==
  /\ host \in Host
  /\ edits \in 0 .. MaxEdits
  /\ Cardinality(faults) <= MaxFaults
  /\ states \in [Subcategories -> PolicyState] /\ privilege \in BOOLEAN
  /\ installed \in {"unread", "yes", "no", "unknown"} /\ running \in {"unread", "yes", "no", "unknown"}
  /\ cmdline \in {"unread", "on", "off", "unknown"}
  /\ channels \in [Channels -> {"unread", "on", "off", "unknown"}]
  /\ outputs \in Seq(Verdict) /\ Len(outputs) <= Len(Catalogue)
  /\ findings \in [Requirement -> IF pc = "done" THEN Verdict ELSE {"none"}]
  /\ pc = "requery" => privilege
  /\ pc \in {"locate", "ask", "crashed"} => running = "yes"
  /\ dump # Unread => running = "yes" /\ pc \in {"evaluate", "done"}

\* What each fact is like on the host: nothing is emitted without the good state of a gate.
Gates == Channels \cup Subcategories \cup Services
Facts == Gates \cup {"cmdline", "sacl"} \cup EventTypes

GoodBad(b) == IF b THEN "good" ELSE "bad"

Logged == [covered |-> "good", degraded |-> "partial", not_covered |-> "bad", indeterminate |-> "unknown"]

\* The name Sysmon was not installed under takes nothing away.
Truth(f) ==
  IF f \in Channels THEN GoodBad(host.channel[f])
  ELSE IF f \in Subcategories THEN GoodBad(host.policy[f] \in {"success", "both"})
  ELSE IF f \in Services THEN GoodBad(f = host.name => host.service = "running")
  ELSE IF f \in EventTypes THEN Logged[evaluate_event_type(host.config, f)]
  ELSE IF f = "cmdline" THEN IF host.cmdline THEN "good" ELSE "partial" ELSE "partial"

\* What the events of a provider depend on, and those of a requirement: any of its providers.
Needs(p) ==
  IF p.kind = "sysmon" THEN {"Operational", p.of} \cup Services
  ELSE {"Security", p.of} \cup {f \in {"cmdline"} : field_gate(p)}
         \cup {f \in {"sacl"} : necessary_but_insufficient(p)}

WaysOf(q) == {Needs(Catalogue[n]) : n \in ProvidersOf(q)}

\* The policy flags are known ones, and `sysmon -c` that succeeds prints its dump.
Usual == \A f \in faults : f[1] \notin {"flags", "empty"}

\* On a host nobody touches during the run the report is right about the host: COVERED
\* has a provider that emits every event, DEGRADED one that is up, and NOT_COVERED is
\* said only when each provider lacks something without which it emits nothing.
SoundOnAQuietHost ==
  pc = "done" /\ edits = 0 /\ Usual =>
    \A q \in Requirement :
      /\ findings[q] = "covered" => \E w \in WaysOf(q) : \A f \in w : Truth(f) = "good"
      /\ findings[q] = "degraded" =>
           \E w \in WaysOf(q) : \A f \in w : Truth(f) # "bad"
      /\ findings[q] = "not_covered" => \A w \in WaysOf(q) : \E f \in w : Truth(f) = "bad"

\* docs/POC_VALIDATION.md, A10, speaks of the affected providers: a failure makes no other
\* provider INDETERMINATE. On a host nobody touches a provider is INDETERMINATE only if
\* a read of its own failed, or a word of its policy is ambiguous (or for want of SACLs).
Reasons(p) ==
  IF p.kind = "sysmon"
  THEN {"service"} \X Services \cup {<<"image", host.name>>, <<"channel", "Operational">>}
         \cup {"sysmon_c", "drift"} \X {"config"}
  ELSE {<<"channel", "Security">>, <<"auditpol", "policy">>, <<"row", p.of>>}
         \cup {f \in {<<"registry", "cmdline">>} : field_gate(p)}

Ambiguous(p) ==
  IF p.kind = "sysmon" THEN host.image = "gone" /\ ~host.on_path
  ELSE host.policy[p.of] = "none" \/ necessary_but_insufficient(p)

IndeterminateHasAReason ==
  edits = 0 =>
    \A n \in DOMAIN outputs :
      outputs[n] = "indeterminate" => faults \cap Reasons(Catalogue[n]) # {} \/ Ambiguous(Catalogue[n])

\* The failures that raise a CollectionError, each as its error names it: not that of the
\* registry, and not that of the ImagePath, for which _service_image_path returns None.
ErrorOf(f) ==
  IF f[1] = "native" THEN {"AuditQuerySystemPolicy"}
  ELSE IF f[1] \in {"auditpol", "sysmon_c"} THEN {f[1]}
  ELSE IF f[1] \in {"service", "channel"} THEN {f[2]} ELSE {}

Listed == {errors[i] : i \in DOMAIN errors}

\* Each failure of ErrorOf is in the report's errors, once: also that of a channel which
\* several providers need, and of a query which auditpol then answered in its stead. The
\* two others: the registry's leaves a diagnostic and no error; the ImagePath's leaves
\* nothing if PATH has Sysmon, and else an executable that was not found, which is also
\* said where the ImagePath was read and names no file.
ErrorsAccountForFaults ==
  pc = "done" =>
    /\ Listed \ {"executable"} = UNION {ErrorOf(f) : f \in faults}
    /\ \A i, j \in DOMAIN errors : errors[i] = errors[j] => i = j
    /\ "registry" \in diagnostics <=> <<"registry", "cmdline">> \in faults
    /\ host.on_path => "executable" \notin Listed
    /\ ~host.on_path =>
         /\ <<"image", host.name>> \in faults => "executable" \in Listed
         /\ "executable" \in Listed => <<"image", host.name>> \in faults \/ host.image = "gone"

\* The run ends and reports, whatever fails and however the host is edited, unless the
\* ImagePath of a running service is blank.
EventuallyReports == host.image # "blank" ~> pc = "done"


-----------------------------------------------------------------------------
(* The run as an Attestation.                                              *)

Known == [on |-> "good", yes |-> "good", success |-> "good", both |-> "good",
          off |-> "bad", no |-> "bad", none |-> "bad", failure |-> "bad", unread |-> "unseen"]

KnownAs(x) == IF x \in DOMAIN Known THEN Known[x] ELSE "unknown"

Before(n) == {"query", "privilege", "requery", "auditpol", "registry", "Sysmon64"} \cup {n}

KnownService(n) ==
  IF installed = "yes" THEN IF n = host.name THEN KnownAs(running) ELSE "good"
  ELSE IF \E i \in DOMAIN errors : errors[i] = n
  THEN IF installed = "unread" THEN "unseen" ELSE "unknown"
  ELSE IF pc \in Before(n) THEN "unseen" ELSE GoodBad(n # host.name)

KnownEvent(t) ==
  IF dump = Unread
  THEN IF running = "yes" /\ pc \in {"evaluate", "done"} THEN "unknown" ELSE "unseen"
  ELSE IF <<"empty", "config">> \in faults THEN "unknown" ELSE Logged[evaluate_event_type(dump, t)]

knownBar ==
  [f \in Facts |->
    IF f \in Channels THEN KnownAs(channels[f])
    ELSE IF f \in Subcategories THEN KnownAs(states[f])
    ELSE IF f \in Services THEN KnownService(f)
    ELSE IF f \in EventTypes THEN KnownEvent(f)
    ELSE IF f = "cmdline" THEN IF cmdline = "off" THEN "partial" ELSE KnownAs(cmdline)
    ELSE IF cmdline = "unread" THEN "unseen" ELSE "unknown"]

A == INSTANCE Attestation WITH
  Facts <- Facts, Gates <- Gates, Requirements <- Requirement,
  Ways <- [q \in Requirement |-> WaysOf(q)],
  truth <- [f \in Facts |-> Truth(f)], known <- knownBar,
  report <- IF Usual THEN findings ELSE [q \in Requirement |-> "none"]

\* The run keeps the promise of Attestation: each fact is looked at once, with the truth
\* of that moment or nothing, and the findings follow from what was learned, also when
\* the host changes between any two reads, and whichever of its ways a fact was read.
Attested == A!Spec
=============================================================================
