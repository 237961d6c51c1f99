---------------------------- MODULE MCWindowsRun ----------------------------
(* Values for model checking WindowsRun: Sysmon configurations for every       *)
(* verdict on either event type, and hosts from which a change leads to        *)
(* another verdict.                                                            *)
EXTENDS WindowsRun, TLC

Block(event_type, effect, predicates) ==
  [event |-> event_type, effect |-> effect, predicates |-> predicates]

Config(network, rules) == [determinacy |-> "effective", gates |-> <<network>>, rules |-> rules]

Everything == Config(TRUE, <<>>)
Filtering  == Config(FALSE, <<Block("ProcessCreate", "include", {"image"})>>)
Sparse     == Config(TRUE, <<Block("ProcessCreate", "include", {}), Block("NetworkConnect", "exclude", {"port"})>>)

MCConfigs == {Everything, Filtering, Sparse}

Words(creation, filtering, files) ==
  ("ProcessCreation" :> creation) @@ ("FilteringPlatformConnection" :> filtering) @@ ("FileSystem" :> files)

OnBoth == [c \in Channels |-> TRUE]

HostWith(words, name, service, config, image, on_path) ==
  [policy |-> words, cmdline |-> TRUE, channel |-> OnBoth, name |-> name, service |-> service,
   config |-> config, image |-> image, on_path |-> on_path]

MCHosts ==
  {HostWith(Words("success", "none", "both"), "Sysmon64", "running", Everything, "file", FALSE),
   HostWith(Words("failure", "both", "success"), "Sysmon", "running", Filtering, "gone", TRUE),
   HostWith(Words("none", "failure", "failure"), "Sysmon", "stopped", Sparse, "gone", FALSE),
   HostWith(Words("none", "success", "none"), "Sysmon64", "running", Sparse, "blank", TRUE)}
=============================================================================
