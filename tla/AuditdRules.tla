---------------------------- MODULE AuditdRules ----------------------------
(***************************************************************************)
(* parse_auditd_rules and _parse_rule (sigmascope/parse/auditd_rules.py):  *)
(* the text of `auditctl -l` is read line by line, a line token by token.  *)
(* A token is an option with its value already split off; what a value     *)
(* says (a list word, a syscall, a predicate) is a member of a small set.  *)
(* The text is not known in advance: each step reads one more token of it, *)
(* so the reachable states are the parses of all texts within the bounds.  *)
(***************************************************************************)
EXTENDS Integers, Sequences

CONSTANTS
  Words,         \* words a value of -a can hold: the two actions and the kernel's lists
  AddValues,     \* values of -a and -A, split at the first comma: <<w>>, <<w1, w2>>
  SyscallLists,  \* values of -S, each a set of syscall names or numbers
  Filters,       \* values of -F that match the filter expression: predicates
  Paths,         \* values of -w
  Perms,         \* values of -p
  NoValue,       \* Python's None for watch_path and watch_perms
  MaxLines,      \* bound: non-blank lines in the text
  MaxTokens      \* bound: tokens in the first line; one fewer in each line after it

ASSUME NoValueAssumption == NoValue \notin Paths /\ NoValue \notin Perms

ASSUME AddValuesAssumption == AddValues \subseteq Seq(Words) /\ "exit" \in Words

VARIABLES
  text,         \* the complete lines read so far, each a sequence of tokens
  line,         \* the tokens read of the current line
  cur,          \* the locals of _parse_rule
  rules,        \* the rules parsed so far
  diagnostics,  \* the lines (by number) a diagnostic was issued for
  done          \* parse_auditd_rules has returned

vars == <<text, line, cur, rules, diagnostics, done>>

_ACTIONS == [always |-> "include", never |-> "exclude"]

IsAction(word) == word \in DOMAIN _ACTIONS

\* Exactly one of the two words is an action: -a accepts both orders.
WellFormedAdd(ws) == Len(ws) = 2 /\ IsAction(ws[1]) # IsAction(ws[2])

ActionOf(ws) == IF IsAction(ws[1]) THEN ws[1] ELSE ws[2]
ListOf(ws)   == IF IsAction(ws[1]) THEN ws[2] ELSE ws[1]

Eq(field, value) == [field |-> field, op |-> "eq", value |-> value]

Locals ==
  [effect |-> "unset", scope |-> "exit", syscalls |-> {}, predicates |-> {},
   watch_path |-> NoValue, watch_perms |-> NoValue, issues |-> FALSE]

Init ==
  /\ text = <<>>
  /\ line = <<>>
  /\ cur = Locals
  /\ rules = <<>>
  /\ diagnostics = {}
  /\ done = FALSE

-----------------------------------------------------------------------------
(* The token loop of _parse_rule, one action per branch.                   *)

Read(option, arg, locals) ==
  /\ ~done
  /\ Len(text) < MaxLines
  /\ Len(text) + Len(line) < MaxTokens
  /\ line' = Append(line, [option |-> option, arg |-> arg])
  /\ cur' = locals
  /\ UNCHANGED <<text, rules, diagnostics, done>>

TakeAdd ==
  \E ws \in AddValues :
    /\ WellFormedAdd(ws)
    /\ Read("-a", ws, [cur EXCEPT !.effect = _ACTIONS[ActionOf(ws)],
                                  !.scope  = ListOf(ws)])

RejectAdd ==
  \E ws \in AddValues :
    /\ ~WellFormedAdd(ws)
    /\ Read("-a", ws, [cur EXCEPT !.issues = TRUE])

TakeSyscalls ==
  \E names \in SyscallLists :
    Read("-S", names, [cur EXCEPT !.syscalls = @ \cup names])

TakeFilter ==
  \E p \in Filters :
    Read("-F", p, [cur EXCEPT !.predicates = @ \cup {p}])

RejectFilter == Read("bad -F", NoValue, [cur EXCEPT !.issues = TRUE])

TakeWatch == \E path \in Paths : Read("-w", path, [cur EXCEPT !.watch_path = path])

TakePerms == \E perms \in Perms : Read("-p", perms, [cur EXCEPT !.watch_perms = perms])

TakeKey == Read("-k", "key", [cur EXCEPT !.predicates = @ \cup {Eq("key", "key")}])

RejectOption == Read("unknown", NoValue, [cur EXCEPT !.issues = TRUE])

-----------------------------------------------------------------------------
(* The end of a line: what _parse_rule does after its loop, and the loop   *)
(* of parse_auditd_rules around it.                                        *)

IsWatch(c) == c.watch_path # NoValue

WatchPredicates(c) ==
  IF ~IsWatch(c) THEN {}
  ELSE {Eq("path", c.watch_path)}
         \cup (IF c.watch_perms = NoValue THEN {} ELSE {Eq("perm", c.watch_perms)})

EffectOf(c) == IF IsWatch(c) THEN "include" ELSE c.effect

PermsWithoutWatch(c) == c.watch_perms # NoValue /\ ~IsWatch(c)

IsRule(c) == EffectOf(c) # "unset"

\* Mutants: a line without an action or a watch is dropped without a word; the
\* locals of one line reach the next; a line without an effect becomes a rule.
Issues_Lenient(c)  == c.issues \/ PermsWithoutWatch(c)
NextLocals_Carried == [cur EXCEPT !.issues = FALSE]
Emit_Always(c)     == TRUE

Issues(c)     == c.issues \/ PermsWithoutWatch(c) \/ ~IsRule(c)
Predicates(c) == WatchPredicates(c) \cup c.predicates
NextLocals    == Locals
Emit(c)       == IsRule(c)

RuleOf(c) ==
  [effect |-> EffectOf(c), scope |-> c.scope, syscalls |-> c.syscalls,
   predicates |-> Predicates(c), order |-> Len(rules) + 1, origin |-> Len(text) + 1]

EndLine ==
  /\ ~done
  /\ line # <<>>   \* a blank line is skipped
  /\ rules' = IF Emit(cur) THEN Append(rules, RuleOf(cur)) ELSE rules
  /\ diagnostics' = diagnostics \cup (IF Issues(cur) THEN {Len(text) + 1} ELSE {})
  /\ text' = Append(text, line)
  /\ line' = <<>>
  /\ cur' = NextLocals
  /\ UNCHANGED done

Return ==
  /\ ~done
  /\ line = <<>>
  /\ done' = TRUE
  /\ UNCHANGED <<text, line, cur, rules, diagnostics>>

Determinacy == IF diagnostics = {} THEN "effective" ELSE "unknown"

Next ==
  \/ TakeAdd \/ RejectAdd \/ TakeSyscalls \/ TakeFilter \/ RejectFilter
  \/ TakeWatch \/ TakePerms \/ TakeKey \/ RejectOption
  \/ EndLine \/ Return

Spec == Init /\ [][Next]_vars

-----------------------------------------------------------------------------
(* Correctness.                                                            *)

Tokens ==
  [option : {"-a"}, arg : AddValues] \cup [option : {"-S"}, arg : SyscallLists]
    \cup [option : {"-F"}, arg : Filters] \cup [option : {"-w"}, arg : Paths]
    \cup [option : {"-p"}, arg : Perms]   \cup [option : {"-k"}, arg : {"key"}]
    \cup [option : {"bad -F", "unknown"}, arg : {NoValue}]

Effects == {"include", "exclude"}

PredicateSpace ==
  Filters \cup {Eq("key", "key")} \cup {Eq("path", path) : path \in Paths}
    \cup {Eq("perm", perms) : perms \in Perms}

RuleSpace ==
  [effect : Effects, scope : Words, syscalls : SUBSET UNION SyscallLists,
   predicates : SUBSET PredicateSpace, order : Nat, origin : Nat]

LocalsSpace ==
  [effect : Effects \cup {"unset"}, scope : Words,
   syscalls : SUBSET UNION SyscallLists, predicates : SUBSET PredicateSpace,
   watch_path : Paths \cup {NoValue}, watch_perms : Perms \cup {NoValue},
   issues : BOOLEAN]

\* The parser's data are what model.py declares: above all, a Rule has an effect.
TypeOK ==
  /\ text \in Seq(Seq(Tokens))
  /\ line \in Seq(Tokens)
  /\ cur \in LocalsSpace
  /\ rules \in Seq(RuleSpace)
  /\ diagnostics \subseteq 1 .. Len(text)
  /\ done \in BOOLEAN

\* Evaluation reads determinacy "effective" as "the rules are all the rules": every
\* line read so far became exactly one rule or was diagnosed, rules keep the order
\* of their lines, and rule.order, which decides what an earlier never,exit rule
\* pre-empts, is the position in the list whatever lines were skipped.
EveryLineAccountedFor ==
  /\ \A n \in 1 .. Len(text) :
       n \in diagnostics \/ \E i \in 1 .. Len(rules) : rules[i].origin = n
  /\ \A i \in 1 .. Len(rules) : rules[i].order = i /\ rules[i].origin \in 1 .. Len(text)
  /\ \A i, j \in 1 .. Len(rules) : i < j => rules[i].origin < rules[j].origin

With(l, option) == {k \in 1 .. Len(l) : l[k].option = option}
ValuesOf(l, option) == {l[k].arg : k \in With(l, option)}
LastValue(l, option) == l[CHOOSE k \in With(l, option) :
                            \A m \in With(l, option) : m <= k].arg

\* What a line says, read off its tokens at once and not one after the other. The
\* last -a, -w and -p hold; -S and -F add up; a watch is an always,exit rule.
Says(r, l) ==
  LET watches == With(l, "-w") # {}
  IN /\ watches \/ With(l, "-a") # {}
     /\ r.effect = IF watches THEN "include" ELSE _ACTIONS[ActionOf(LastValue(l, "-a"))]
     /\ r.scope = IF With(l, "-a") = {} THEN "exit" ELSE ListOf(LastValue(l, "-a"))
     /\ r.syscalls = UNION ValuesOf(l, "-S")
     /\ r.predicates =
          ValuesOf(l, "-F")
            \cup (IF With(l, "-k") = {} THEN {} ELSE {Eq("key", "key")})
            \cup (IF watches THEN {Eq("path", LastValue(l, "-w"))} ELSE {})
            \cup (IF watches /\ With(l, "-p") # {}
                  THEN {Eq("perm", LastValue(l, "-p"))} ELSE {})

\* A line that drew no diagnostic was understood in full: its rule says what all
\* its tokens say, in whatever order they came, and nothing of another line.
RuleMeansItsTokens ==
  \A n \in 1 .. Len(text) \ diagnostics :
    \E i \in 1 .. Len(rules) : rules[i].origin = n /\ Says(rules[i], text[n])
=============================================================================
