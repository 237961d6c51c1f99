---------------------------- MODULE Attestation ----------------------------
(***************************************************************************)
(* What sigmascope promises whatever the sources it reads: a run looks at  *)
(* each fact about the host once, learning the truth of that moment or     *)
(* nothing, and publishes one report, every verdict of which the facts it  *)
(* learned bear out. The host changes meanwhile as it likes.               *)
(***************************************************************************)
CONSTANTS
  Facts,         \* what can be known about the host
  Gates,         \* the facts without which nothing is emitted
  Requirements,  \* the logsources of the catalogue
  Ways           \* Ways[q]: sets of facts, each of which is enough for the events of q

VARIABLES
  truth,    \* the state of each fact on the host
  known,    \* what the run has learned
  report    \* the verdict on each requirement, "none" before they are published

vars == <<truth, known, report>>

State   == {"good", "partial", "bad"}
Verdict == {"covered", "degraded", "not_covered", "indeterminate"}

Unpublished == [q \in Requirements |-> "none"]

Init ==
  /\ truth \in [Facts -> State]
  /\ known = [f \in Facts |-> "unseen"]
  /\ report = Unpublished

HostChanges == truth' \in [Facts -> State] /\ UNCHANGED <<known, report>>

\* What was seen stays seen.
Learns(old, new, now) ==
  \A f \in Facts : new[f] = old[f] \/ (old[f] = "unseen" /\ new[f] \in {now[f], "unknown"})

Look ==
  /\ report = Unpublished
  /\ known' \in [Facts -> State \cup {"unseen", "unknown"}]
  /\ Learns(known, known', truth)
  /\ UNCHANGED <<truth, report>>

\* COVERED needs every fact of a way, DEGRADED every gate and the state of the rest; one
\* bad fact is enough for NOT_COVERED; INDETERMINATE owns up to an unknown one.
Bears(facts, way, v) ==
  \/ v = "covered"       /\ \A f \in way : facts[f] = "good"
  \/ v = "degraded"      /\ \A f \in way : facts[f] \in (IF f \in Gates THEN {"good"} ELSE State)
  \/ v = "not_covered"   /\ \E f \in way : facts[f] = "bad"
  \/ v = "indeterminate" /\ \E f \in way : facts[f] = "unknown"

\* One way decides; to say that there is none better takes knowledge of the others.
Justified(verdicts, facts) ==
  \A q \in Requirements :
    /\ \E way \in Ways[q] : Bears(facts, way, verdicts[q])
    /\ verdicts[q] \in {"degraded", "not_covered"} =>
         \A way \in Ways[q] : Bears(facts, way, verdicts[q]) \/ Bears(facts, way, "not_covered")

Publish ==
  /\ report = Unpublished
  /\ report' \in [Requirements -> Verdict]
  /\ Justified(report', known)
  /\ UNCHANGED <<truth, known>>

Next == HostChanges \/ Look \/ Publish

Spec == Init /\ [][Next]_vars
=============================================================================
