---------------------------- MODULE SysmonConfig ----------------------------
(***************************************************************************)
(* parse_sysmon_current (sigmascope/parse/sysmon_current.py): Sysmon       *)
(* prints its current configuration with `sysmon -c`, and the parser reads *)
(* the dump line by line. The dump has no machine-readable form, so any    *)
(* line may come in a form the parser does not know. What the configuration *)
(* logs is external.                                                       *)
(***************************************************************************)
EXTENDS SysmonEvaluate, FiniteSets

CONSTANTS
  EventTypes,   \* event types, NetworkConnect among them
  Fields,       \* the conditions of filter lines
  MaxLines      \* bound: lines of the dump

VARIABLES
  text,         \* the lines of the dump so far, as Sysmon means them
  in_rules,     \* the parser has passed the head of the rule section
  block,        \* the block being read: a set of one rule, or none
  rules,        \* the rules parsed so far
  gates,        \* the network connection states read
  diagnostics,  \* the lines (by number) a diagnostic was issued for
  done          \* parse_sysmon_current has returned

vars == <<text, in_rules, block, rules, gates, diagnostics, done>>

Effects == {"include", "exclude"}

\* As the parser knows a line, or not.
Forms == {"plain", "changed"}

\* A compound line stands for the compound rule and the filter lines nested in it.
Lines ==
  [kind : {"network"}, form : Forms \cup {"garbled"}, of : BOOLEAN]
    \cup [kind : {"version", "no_rules", "compound"}, form : Forms, of : {"-"}]
    \cup [kind : {"block"}, form : Forms, of : [event : EventTypes, effect : Effects]]
    \cup [kind : {"filter"}, form : Forms, of : Fields]

\* Which of the parser's patterns a line matches. A network line without one of the
\* two words it may say is still one; a line in an unknown form matches none of them.
Seen(l) == IF l.form = "plain" THEN l.kind ELSE l.form

Printed(kind) == \E n \in DOMAIN text : text[n].kind = kind

\* The order Sysmon prints in: the summary, then the blocks, each with its filters.
Printable(l) ==
  /\ Len(text) < MaxLines
  /\ l.kind = "network" <=> text = <<>>
  /\ l.kind \in {"version", "no_rules"} <=> Len(text) = 1
  /\ l.kind \in {"block", "filter", "compound"} => Printed("version")
  /\ l.kind \in {"filter", "compound"} => Printed("block")

Init ==
  /\ text = <<>>
  /\ in_rules = FALSE
  /\ block = {}
  /\ rules = <<>>
  /\ gates = <<>>
  /\ diagnostics = {}
  /\ done = FALSE

-----------------------------------------------------------------------------

\* Mutants: the predicates of a block are not reset; a line that is not understood
\* is skipped within a block; a block is closed where none is open.
NewPredicates_Carried == UNION {b.predicates : b \in block}
Diagnosed_Stray       == IF block = {} THEN {Len(text) + 1} ELSE {}
Finished_Always       ==
  Append(rules, IF block = {} THEN [event |-> "-"] ELSE CHOOSE b \in block : TRUE)

NewPredicates == {}
Diagnosed     == {Len(text) + 1}
Finished      == IF block = {} THEN rules ELSE Append(rules, CHOOSE b \in block : TRUE)

Read(l) == ~done /\ Printable(l) /\ text' = Append(text, l) /\ UNCHANGED done

Diagnose(l) ==
  /\ Read(l)
  /\ diagnostics' = diagnostics \cup Diagnosed
  /\ UNCHANGED <<in_rules, block, rules, gates>>

VersionLine ==
  \E l \in Lines :
    /\ Seen(l) = "version"
    /\ Read(l)
    /\ rules' = Finished
    /\ block' = {}
    /\ in_rules' = TRUE
    /\ UNCHANGED <<gates, diagnostics>>

NetworkLine ==
  \E l \in Lines :
    /\ ~in_rules /\ Seen(l) = "network"
    /\ Read(l)
    /\ gates' = Append(gates, l.of)
    /\ UNCHANGED <<in_rules, block, rules, diagnostics>>

GarbledNetworkLine == \E l \in Lines : ~in_rules /\ Seen(l) = "garbled" /\ Diagnose(l)

NoRulesLine ==
  \E l \in Lines :
    /\ ~in_rules /\ Seen(l) = "no_rules"
    /\ Read(l)
    /\ in_rules' = TRUE
    /\ UNCHANGED <<block, rules, gates, diagnostics>>

\* Every other line before the rule section.
SkippedLine ==
  \E l \in Lines :
    /\ ~in_rules /\ Seen(l) \notin {"version", "network", "garbled", "no_rules"}
    /\ Read(l)
    /\ UNCHANGED <<in_rules, block, rules, gates, diagnostics>>

BlockLine ==
  \E l \in Lines :
    /\ in_rules /\ Seen(l) = "block"
    /\ Read(l)
    /\ rules' = Finished
    /\ block' = {[event |-> l.of.event, effect |-> l.of.effect, predicates |-> NewPredicates]}
    /\ UNCHANGED <<in_rules, gates, diagnostics>>

PredicateLine ==
  \E l \in Lines :
    /\ in_rules /\ block # {} /\ Seen(l) \in {"filter", "compound"}
    /\ Read(l)
    /\ block' = {[b EXCEPT !.predicates = @ \cup {l.of}] : b \in block}
    /\ UNCHANGED <<in_rules, rules, gates, diagnostics>>

\* A line outside of any block, or one that a block does not know.
UnrecognisedLine ==
  \E l \in Lines :
    /\ in_rules
    /\ \/ Seen(l) = "changed"
       \/ block = {} /\ Seen(l) \in {"filter", "compound"}
    /\ Diagnose(l)

\* From whatever it was given, an empty dump or one that is cut short included.
Return ==
  /\ ~done
  /\ rules' = Finished
  /\ block' = {}
  /\ done' = TRUE
  /\ UNCHANGED <<text, in_rules, gates, diagnostics>>

Next ==
  \/ VersionLine \/ NetworkLine \/ GarbledNetworkLine \/ NoRulesLine \/ SkippedLine
  \/ BlockLine \/ PredicateLine \/ UnrecognisedLine \/ Return

Spec == Init /\ [][Next]_vars

parsed ==
  [determinacy |-> IF diagnostics = {} THEN "effective" ELSE "unknown",
   gates |-> gates, rules |-> rules]

-----------------------------------------------------------------------------
(* What the configuration logs (external; the first two clauses are the     *)
(* assumptions V2 and V1 of evaluate/sysmon.py).                            *)

Blocks(event_type, effect) ==
  {n \in DOMAIN text : text[n].kind = "block" /\ text[n].of = [event |-> event_type, effect |-> effect]}

\* The conditions of a block: its lines up to the next block.
Conditions(n) ==
  {text[k].of : k \in {m \in n + 1 .. Len(text) :
    \A j \in n + 1 .. m : text[j].kind \in {"filter", "compound"}}}

\* A block without conditions matches nothing; the others need one or all of them.
Matches(n, facts, combine) ==
  /\ Conditions(n) # {}
  /\ IF combine = "And" THEN Conditions(n) \subseteq facts ELSE Conditions(n) \cap facts # {}

Enabled(event_type) ==
  event_type = "NetworkConnect" => \A n \in DOMAIN text : text[n].kind = "network" => text[n].of

Logs(event_type, facts, combine) ==
  LET includes == Blocks(event_type, "include")
  IN /\ Enabled(event_type)
     /\ includes = {} \/ \E n \in includes : Matches(n, facts, combine)
     /\ \A n \in Blocks(event_type, "exclude") : ~Matches(n, facts, combine)

LogsEvery(event_type, combine) ==
  \A facts \in SUBSET (Fields \cup {"-"}) : Logs(event_type, facts, combine)
LogsNone(event_type, combine) ==
  \A facts \in SUBSET (Fields \cup {"-"}) : ~Logs(event_type, facts, combine)

-----------------------------------------------------------------------------
(* Correctness.                                                            *)

Rule == [event : EventTypes, effect : Effects, predicates : SUBSET (Fields \cup {"-"})]

\* A rule is a block that was opened and closed, and only one is open at a time.
TypeOK ==
  /\ text \in Seq(Lines)
  /\ in_rules \in BOOLEAN
  /\ block \subseteq Rule /\ Cardinality(block) <= 1
  /\ rules \in Seq(Rule)
  /\ gates \in Seq(BOOLEAN)
  /\ diagnostics \subseteq DOMAIN text
  /\ done \in BOOLEAN

Right(event_type) ==
  LET verdict == evaluate_event_type(parsed, event_type)
  IN \A combine \in {"And", "Or"} :
       /\ verdict = "covered" => LogsEvery(event_type, combine)
       /\ verdict = "degraded" => ~LogsEvery(event_type, combine)
       /\ verdict = "not_covered" => LogsNone(event_type, combine)

\* The dump has its summary and a rule section, or says that there are no rules. One
\* without either does not say what the configuration is.
Whole == Printed("version") \/ Printed("no_rules")

\* The two lines the parser looks for outside of a rule section are in the form it knows.
Framed == \A n \in DOMAIN text : text[n].kind \in {"network", "version"} => text[n].form # "changed"

\* The verdict on each event type is right about the configuration of a whole dump,
\* however its blocks combine their conditions and whatever line of them has changed.
VerdictIsRight == done /\ Whole /\ Framed => \A t \in EventTypes : Right(t)

\* A rule section of which a line was not understood gives no definite verdict,
\* except that network connections are switched off as a whole.
DriftIsOwned ==
  done /\ Framed /\ (\E n \in DOMAIN text : text[n].kind \in {"block", "filter", "compound"}
                                              /\ text[n].form = "changed") =>
    \A t \in EventTypes :
      evaluate_event_type(parsed, t) = IF Enabled(t) \/ gates = <<>> THEN "indeterminate" ELSE "not_covered"

\* README, "Conservative semantics": parser gaps resolve to INDETERMINATE. A verdict
\* that is not INDETERMINATE is right whatever line of a whole dump the parser does not
\* know.
ParserGapsAreIndeterminate == done /\ Whole => \A t \in EventTypes : Right(t)
=============================================================================
