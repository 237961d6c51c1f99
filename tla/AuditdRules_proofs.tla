------------------------- MODULE AuditdRules_proofs -------------------------
(***************************************************************************)
(* The parser accounts for every line, for every text there can be.        *)
(***************************************************************************)
EXTENDS AuditdRules, WellFoundedInduction, TLAPS

TokenActions ==
  \/ TakeAdd \/ RejectAdd \/ TakeSyscalls \/ TakeFilter \/ RejectFilter
  \/ TakeWatch \/ TakePerms \/ TakeKey \/ RejectOption

\* A well-formed -a gives an effect and a list.
LEMMA AddGives ==
  ASSUME NEW ws \in AddValues, WellFormedAdd(ws)
  PROVE  _ACTIONS[ActionOf(ws)] \in Effects /\ ListOf(ws) \in Words
<1>1. ws[1] \in Words /\ ws[2] \in Words
  <2>1. Len(ws) = 2
    BY DEF WellFormedAdd
  <2>2. ws \in Seq(Words)
    BY AddValuesAssumption
  <2>3. 1 \in 1 .. Len(ws) /\ 2 \in 1 .. Len(ws)
    BY <2>1
  <2> QED
    BY <2>2, <2>3
<1>2. ActionOf(ws) \in {"always", "never"}
  BY DEF WellFormedAdd, ActionOf, IsAction, _ACTIONS
<1>3. _ACTIONS["always"] = "include" /\ _ACTIONS["never"] = "exclude"
  BY DEF _ACTIONS
<1> QED
  BY <1>1, <1>2, <1>3 DEF ListOf, Effects

\* Reading a token adds one to the line and leaves what was parsed before it.
LEMMA TokenStep ==
  ASSUME TypeOK, TokenActions
  PROVE  /\ \E t \in Tokens : line' = Append(line, t)
         /\ cur' \in LocalsSpace
         /\ UNCHANGED <<text, rules, diagnostics, done>>
<1> USE DEF Read
<1>0. cur \in LocalsSpace
  BY DEF TypeOK
<1>1. CASE TakeAdd
  <2>1. PICK ws \in AddValues :
          /\ WellFormedAdd(ws)
          /\ Read("-a", ws, [cur EXCEPT !.effect = _ACTIONS[ActionOf(ws)], !.scope = ListOf(ws)])
    BY <1>1 DEF TakeAdd
  <2>2. [option |-> "-a", arg |-> ws] \in Tokens
    BY DEF Tokens
  <2>3. _ACTIONS[ActionOf(ws)] \in Effects /\ ListOf(ws) \in Words
    BY <2>1, AddGives
  <2>4. cur' \in LocalsSpace
    BY <1>0, <2>1, <2>3 DEF LocalsSpace
  <2> QED
    BY <2>1, <2>2, <2>4
<1>2. CASE RejectAdd
  BY <1>0, <1>2 DEF RejectAdd, Tokens, LocalsSpace
<1>3. CASE TakeSyscalls
  <2>1. PICK names \in SyscallLists : Read("-S", names, [cur EXCEPT !.syscalls = @ \cup names])
    BY <1>3 DEF TakeSyscalls
  <2>2. [option |-> "-S", arg |-> names] \in Tokens
    BY DEF Tokens
  <2>3. cur' \in LocalsSpace
    BY <1>0, <2>1 DEF LocalsSpace
  <2> QED
    BY <2>1, <2>2, <2>3
<1>4. CASE TakeFilter
  <2>1. PICK p \in Filters : Read("-F", p, [cur EXCEPT !.predicates = @ \cup {p}])
    BY <1>4 DEF TakeFilter
  <2>2. [option |-> "-F", arg |-> p] \in Tokens /\ p \in PredicateSpace
    BY DEF Tokens, PredicateSpace
  <2>3. cur' \in LocalsSpace
    BY <1>0, <2>1, <2>2 DEF LocalsSpace
  <2> QED
    BY <2>1, <2>2, <2>3
<1>5. CASE RejectFilter
  BY <1>0, <1>5 DEF RejectFilter, Tokens, LocalsSpace
<1>6. CASE TakeWatch
  BY <1>0, <1>6 DEF TakeWatch, Tokens, LocalsSpace
<1>7. CASE TakePerms
  BY <1>0, <1>7 DEF TakePerms, Tokens, LocalsSpace
<1>8. CASE TakeKey
  BY <1>0, <1>8 DEF TakeKey, Tokens, LocalsSpace, PredicateSpace
<1>9. CASE RejectOption
  BY <1>0, <1>9 DEF RejectOption, Tokens, LocalsSpace
<1> QED
  BY <1>1, <1>2, <1>3, <1>4, <1>5, <1>6, <1>7, <1>8, <1>9 DEF TokenActions

\* The rule of a line that has an effect is a Rule.
LEMMA RuleOfType ==
  ASSUME TypeOK, IsRule(cur)
  PROVE  RuleOf(cur) \in RuleSpace
<1>1. cur \in LocalsSpace /\ text \in Seq(Seq(Tokens)) /\ rules \in Seq(RuleSpace)
  BY DEF TypeOK
<1>2. EffectOf(cur) \in Effects
  BY <1>1 DEF EffectOf, IsRule, LocalsSpace, Effects
<1>3. Predicates(cur) \subseteq PredicateSpace
  BY <1>1 DEF Predicates, WatchPredicates, IsWatch, LocalsSpace, PredicateSpace
<1> QED
  BY <1>1, <1>2, <1>3 DEF RuleOf, RuleSpace, LocalsSpace

\* Types hold: above all, what is appended to rules always has an effect.
THEOREM TypeCorrect == Spec => []TypeOK
<1>0. Locals \in LocalsSpace
  <2>1. {} \in SUBSET UNION SyscallLists /\ {} \in SUBSET PredicateSpace
    OBVIOUS
  <2>2. "unset" \in Effects \cup {"unset"}
    OBVIOUS
  <2>3. NoValue \in Paths \cup {NoValue} /\ NoValue \in Perms \cup {NoValue}
    OBVIOUS
  <2> QED
    BY <2>1, <2>2, <2>3, AddValuesAssumption DEF Locals, LocalsSpace
<1>1. Init => TypeOK
  <2> SUFFICES ASSUME Init PROVE TypeOK
    OBVIOUS
  <2>1. <<>> \in Seq(Tokens) /\ <<>> \in Seq(Seq(Tokens)) /\ <<>> \in Seq(RuleSpace)
    OBVIOUS
  <2> QED
    BY <1>0, <2>1 DEF Init, TypeOK
<1>2. TypeOK /\ [Next]_vars => TypeOK'
  <2> SUFFICES ASSUME TypeOK, [Next]_vars PROVE TypeOK'
    OBVIOUS
  <2>1. CASE TokenActions
    <3>1. PICK t \in Tokens : line' = Append(line, t)
      BY <2>1, TokenStep
    <3>2. line' \in Seq(Tokens)
      BY <3>1 DEF TypeOK
    <3>3. cur' \in LocalsSpace /\ UNCHANGED <<text, rules, diagnostics, done>>
      BY <2>1, TokenStep
    <3> QED
      BY <3>2, <3>3 DEF TypeOK
  <2>2. CASE EndLine
    <3>0. Len(text) \in Nat
      BY DEF TypeOK
    <3>1. text' = Append(text, line) /\ text' \in Seq(Seq(Tokens)) /\ Len(text') = Len(text) + 1
      BY <2>2 DEF EndLine, TypeOK
    <3>2. rules' \in Seq(RuleSpace)
      BY <2>2, RuleOfType DEF EndLine, Emit, TypeOK
    <3>3. diagnostics' \subseteq 1 .. Len(text')
      <4>1. diagnostics \subseteq 1 .. Len(text)
        BY DEF TypeOK
      <4>2. diagnostics' \subseteq diagnostics \cup {Len(text) + 1}
        BY <2>2 DEF EndLine
      <4> QED
        BY <3>0, <3>1, <4>1, <4>2
    <3>4. line' \in Seq(Tokens) /\ cur' \in LocalsSpace /\ done' \in BOOLEAN
      BY <1>0, <2>2 DEF EndLine, NextLocals, TypeOK
    <3> QED
      BY <3>1, <3>2, <3>3, <3>4 DEF TypeOK
  <2>3. CASE Return
    BY <2>3 DEF Return, TypeOK
  <2>4. CASE UNCHANGED vars
    BY <2>4 DEF vars, TypeOK
  <2> QED
    BY <2>1, <2>2, <2>3, <2>4 DEF Next, TokenActions
<1> QED
  BY <1>1, <1>2, PTL DEF Spec

\* Every line of every text becomes one rule or is diagnosed, and rules stand in the
\* order of their lines, numbered by their place (parse_auditd_rules).
THEOREM EveryLineIsAccountedFor == Spec => []EveryLineAccountedFor
<1>1. Init => EveryLineAccountedFor
  BY DEF Init, EveryLineAccountedFor
<1>2. TypeOK /\ EveryLineAccountedFor /\ [Next]_vars => EveryLineAccountedFor'
  <2> SUFFICES ASSUME TypeOK, EveryLineAccountedFor, [Next]_vars
               PROVE  EveryLineAccountedFor'
    OBVIOUS
  <2>1. CASE TokenActions
    BY <2>1, TokenStep DEF EveryLineAccountedFor
  <2>2. CASE EndLine
    <3> DEFINE n == Len(text) + 1
               r == RuleOf(cur)
    <3>1. Len(text) \in Nat /\ Len(rules) \in Nat /\ Len(text') = n
      BY <2>2 DEF EndLine, TypeOK
    <3>2. r.order = Len(rules) + 1 /\ r.origin = n
      BY DEF RuleOf
    <3>3. CASE IsRule(cur)
      <4>1. rules' = Append(rules, r) /\ diagnostics \subseteq diagnostics'
        BY <2>2, <3>3 DEF EndLine, Emit
      <4>2. /\ Len(rules') = Len(rules) + 1 /\ rules'[Len(rules) + 1] = r
            /\ \A i \in 1 .. Len(rules) : rules'[i] = rules[i]
        BY <4>1, RuleOfType, <3>3 DEF TypeOK
      <4> QED
        BY <3>1, <3>2, <4>1, <4>2 DEF EveryLineAccountedFor
    <3>4. CASE ~IsRule(cur)
      <4>1. rules' = rules /\ diagnostics' = diagnostics \cup {n}
        BY <2>2, <3>4 DEF EndLine, Emit, Issues
      <4> QED
        BY <3>1, <4>1 DEF EveryLineAccountedFor
    <3> QED
      BY <3>3, <3>4
  <2>3. CASE Return
    BY <2>3 DEF Return, EveryLineAccountedFor
  <2>4. CASE UNCHANGED vars
    BY <2>4 DEF vars, EveryLineAccountedFor
  <2> QED
    BY <2>1, <2>2, <2>3, <2>4 DEF Next, TokenActions
<1> QED
  BY <1>1, <1>2, TypeCorrect, PTL DEF Spec

-----------------------------------------------------------------------------
(* A rule says what its line says.                                         *)

NatLess == {ss \in Nat \X Nat : ss[1] < ss[2]}

\* The order by which a last token is found, from the end of the line.
LEMMA NatLessWellFounded == IsWellFoundedOn(NatLess, Nat)
  BY NatLessThanWellFounded DEF OpToRel, NatLess

\* A set of places has a last one.
LEMMA LastOf ==
  ASSUME NEW n \in Nat, NEW T \in SUBSET (1 .. n), T # {}
  PROVE  \E k \in T : \A m \in T : m <= k
<1> DEFINE U == {n - k : k \in T}
<1>0. \A k \in T : n - k \in Nat
  OBVIOUS
<1>1. U \in SUBSET Nat /\ U # {}
  BY <1>0
<1>2. PICK u \in U : \A v \in U : <<v, u>> \notin NatLess
  BY <1>1, NatLessWellFounded, WFMin, Zenon
<1>3. \A v \in U : ~(v < u)
  BY <1>1, <1>2 DEF NatLess
<1>4. PICK k \in T : u = n - k
  OBVIOUS
<1>5. \A m \in T : ~(n - m < n - k)
  BY <1>3, <1>4
<1> QED
  BY <1>5

\* The last value of an option is that of its last token.
LEMMA LastIs ==
  ASSUME NEW l \in Seq(Tokens), NEW option, NEW k \in With(l, option),
         \A m \in With(l, option) : m <= k
  PROVE  LastValue(l, option) = l[k].arg
<1>1. With(l, option) \subseteq Nat
  BY DEF With
<1>2. \A j \in With(l, option) : (\A m \in With(l, option) : m <= j) => j = k
  BY <1>1
<1> DEFINE j == CHOOSE i \in With(l, option) : \A m \in With(l, option) : m <= i
<1>3. j \in With(l, option) /\ \A m \in With(l, option) : m <= j
  OBVIOUS
<1>4. j = k
  BY <1>2, <1>3
<1> QED
  BY <1>4 DEF LastValue

\* What an option gives is a value of it.
LEMMA LastType ==
  ASSUME NEW l \in Seq(Tokens), NEW option, With(l, option) # {}
  PROVE  \E t \in Tokens : t.option = option /\ t.arg = LastValue(l, option)
<1>1. Len(l) \in Nat /\ With(l, option) \in SUBSET (1 .. Len(l))
  BY DEF With
<1>2. PICK k \in With(l, option) : \A m \in With(l, option) : m <= k
  BY <1>1, LastOf
<1>3. LastValue(l, option) = l[k].arg
  BY <1>2, LastIs
<1>4. l[k] \in Tokens /\ l[k].option = option
  BY <1>1, <1>2 DEF With
<1> QED
  BY <1>3, <1>4

\* One more token adds its value to those of its option, and is its last.
LEMMA OneMoreToken ==
  ASSUME NEW l \in Seq(Tokens), NEW t \in Tokens, NEW option
  PROVE  /\ t.option = option =>
              /\ With(Append(l, t), option) # {}
              /\ ValuesOf(Append(l, t), option) = ValuesOf(l, option) \cup {t.arg}
              /\ LastValue(Append(l, t), option) = t.arg
         /\ t.option # option =>
              /\ With(Append(l, t), option) = With(l, option)
              /\ ValuesOf(Append(l, t), option) = ValuesOf(l, option)
              /\ With(l, option) # {} => LastValue(Append(l, t), option) = LastValue(l, option)
<1> DEFINE new == Append(l, t)
           n == Len(l) + 1
<1>1. /\ new \in Seq(Tokens) /\ Len(l) \in Nat /\ Len(new) = n /\ new[n] = t
      /\ \A k \in 1 .. Len(l) : new[k] = l[k]
  OBVIOUS
<1> HIDE DEF new
<1>2. With(new, option) = With(l, option) \cup {k \in {n} : t.option = option}
  BY <1>1 DEF With
<1>3. \A k \in With(l, option) : k \in 1 .. Len(l) /\ new[k] = l[k]
  BY <1>1 DEF With
<1>4. CASE t.option = option
  <2>1. n \in With(new, option) /\ \A m \in With(new, option) : m <= n
    BY <1>1, <1>2, <1>3, <1>4
  <2>2. LastValue(new, option) = t.arg
    BY <1>1, <2>1, LastIs
  <2>3. ValuesOf(new, option) = ValuesOf(l, option) \cup {t.arg}
    BY <1>1, <1>2, <1>3, <1>4 DEF ValuesOf
  <2> QED
    BY <1>4, <2>1, <2>2, <2>3 DEF new
<1>5. CASE t.option # option
  <2>1. With(new, option) = With(l, option)
    BY <1>2, <1>5
  <2>2. ValuesOf(new, option) = ValuesOf(l, option)
    BY <1>3, <2>1 DEF ValuesOf
  <2>3. ASSUME With(l, option) # {} PROVE LastValue(new, option) = LastValue(l, option)
    <3>1. PICK k \in With(l, option) : \A m \in With(l, option) : m <= k
      <4>1. With(l, option) \in SUBSET (1 .. Len(l))
        BY DEF With
      <4> QED
        BY <1>1, <2>3, <4>1, LastOf
    <3>2. LastValue(l, option) = l[k].arg
      BY <3>1, LastIs
    <3>3. LastValue(new, option) = new[k].arg
      BY <1>1, <2>1, <3>1, LastIs
    <3> QED
      BY <1>3, <3>1, <3>2, <3>3
  <2> QED
    BY <1>5, <2>1, <2>2, <2>3 DEF new
<1> QED
  BY <1>4, <1>5

\* As long as nothing was rejected, the locals hold what the tokens so far say, whatever
\* their order.
TakenIn(c, l) ==
  /\ c.effect = IF With(l, "-a") = {} THEN "unset" ELSE _ACTIONS[ActionOf(LastValue(l, "-a"))]
  /\ c.scope = IF With(l, "-a") = {} THEN "exit" ELSE ListOf(LastValue(l, "-a"))
  /\ c.syscalls = UNION ValuesOf(l, "-S")
  /\ c.predicates = ValuesOf(l, "-F") \cup (IF With(l, "-k") = {} THEN {} ELSE {Eq("key", "key")})
  /\ c.watch_path = IF With(l, "-w") = {} THEN NoValue ELSE LastValue(l, "-w")
  /\ c.watch_perms = IF With(l, "-p") = {} THEN NoValue ELSE LastValue(l, "-p")

Understood == cur.issues \/ TakenIn(cur, line)

\* Nothing has been read of an empty line.
LEMMA NothingTakenIn == TakenIn(Locals, <<>>)
<1>1. \A option : With(<<>>, option) = {} /\ ValuesOf(<<>>, option) = {}
  BY DEF With, ValuesOf
<1> QED
  BY <1>1, Zenon DEF TakenIn, Locals

\* A token that was not rejected changes the locals as it changes what the line says.
LEMMA TokenIsTakenIn ==
  ASSUME TypeOK, Understood, TokenActions
  PROVE  Understood'
<1>0. cur.issues => cur'.issues
  <2>1. cur \in LocalsSpace
    BY DEF TypeOK
  <2> QED
    BY <2>1 DEF TokenActions, TakeAdd, TakeSyscalls, TakeFilter, TakeWatch, TakePerms, TakeKey, RejectAdd,
                RejectFilter, RejectOption, Read, LocalsSpace
<1>1. SUFFICES ASSUME ~cur.issues, ~cur'.issues PROVE TakenIn(cur, line)'
  BY <1>0, Zenon DEF Understood
<1>2. line \in Seq(Tokens) /\ TakenIn(cur, line) /\ cur \in LocalsSpace
  BY <1>1 DEF TypeOK, Understood
<1> DEFINE Adds(o, x) == line' = Append(line, [option |-> o, arg |-> x]) /\ [option |-> o, arg |-> x] \in Tokens
           Keeps(o) == With(line', o) = With(line, o) /\ ValuesOf(line', o) = ValuesOf(line, o)
                         /\ (With(line, o) # {} => LastValue(line', o) = LastValue(line, o))
           Gains(o, x) == With(line', o) # {} /\ ValuesOf(line', o) = ValuesOf(line, o) \cup {x}
                            /\ LastValue(line', o) = x
<1>3. ASSUME NEW o, NEW x, Adds(o, x)
      PROVE  Gains(o, x) /\ \A u : u # o => Keeps(u)
  <2> DEFINE t == [option |-> o, arg |-> x]
  <2>1. t \in Tokens /\ t.option = o /\ t.arg = x /\ line' = Append(line, t)
    BY <1>3
  <2> HIDE DEF t
  <2> QED
    BY <1>2, <2>1, OneMoreToken
<1>4. CASE TakeAdd
  <2>1. PICK ws \in AddValues : Read("-a", ws, [cur EXCEPT !.effect = _ACTIONS[ActionOf(ws)], !.scope = ListOf(ws)])
    BY <1>4 DEF TakeAdd
  <2>2. Adds("-a", ws)
    BY <2>1 DEF Read, Tokens
  <2>3. Gains("-a", ws) /\ Keeps("-S") /\ Keeps("-F") /\ Keeps("-k") /\ Keeps("-w") /\ Keeps("-p")
    BY <1>3, <2>2
  <2>4. cur'.effect = _ACTIONS[ActionOf(ws)] /\ cur'.scope = ListOf(ws)
    BY <1>2, <2>1 DEF Read, LocalsSpace
  <2>5. cur'.syscalls = cur.syscalls /\ cur'.predicates = cur.predicates /\ cur'.watch_path = cur.watch_path /\ cur'.watch_perms = cur.watch_perms
    BY <1>2, <2>1 DEF Read, LocalsSpace
  <2> QED
    BY <1>2, <2>3, <2>4, <2>5 DEF TakenIn
<1>5. CASE TakeSyscalls
  <2>1. PICK names \in SyscallLists : Read("-S", names, [cur EXCEPT !.syscalls = @ \cup names])
    BY <1>5 DEF TakeSyscalls
  <2>2. Adds("-S", names)
    BY <2>1 DEF Read, Tokens
  <2>3. Gains("-S", names) /\ Keeps("-a") /\ Keeps("-F") /\ Keeps("-k") /\ Keeps("-w") /\ Keeps("-p")
    BY <1>3, <2>2
  <2>4. cur'.syscalls = cur.syscalls \cup names
    BY <1>2, <2>1 DEF Read, LocalsSpace
  <2>5. cur'.effect = cur.effect /\ cur'.scope = cur.scope /\ cur'.predicates = cur.predicates /\ cur'.watch_path = cur.watch_path /\ cur'.watch_perms = cur.watch_perms
    BY <1>2, <2>1 DEF Read, LocalsSpace
  <2> QED
    BY <1>2, <2>3, <2>4, <2>5 DEF TakenIn
<1>6. CASE TakeFilter
  <2>1. PICK p \in Filters : Read("-F", p, [cur EXCEPT !.predicates = @ \cup {p}])
    BY <1>6 DEF TakeFilter
  <2>2. Adds("-F", p)
    BY <2>1 DEF Read, Tokens
  <2>3. Gains("-F", p) /\ Keeps("-a") /\ Keeps("-S") /\ Keeps("-k") /\ Keeps("-w") /\ Keeps("-p")
    BY <1>3, <2>2
  <2>4. cur'.predicates = cur.predicates \cup {p}
    BY <1>2, <2>1 DEF Read, LocalsSpace
  <2>5. cur'.effect = cur.effect /\ cur'.scope = cur.scope /\ cur'.syscalls = cur.syscalls /\ cur'.watch_path = cur.watch_path /\ cur'.watch_perms = cur.watch_perms
    BY <1>2, <2>1 DEF Read, LocalsSpace
  <2> QED
    BY <1>2, <2>3, <2>4, <2>5 DEF TakenIn
<1>7. CASE TakeWatch
  <2>1. PICK path \in Paths : Read("-w", path, [cur EXCEPT !.watch_path = path])
    BY <1>7 DEF TakeWatch
  <2>2. Adds("-w", path)
    BY <2>1 DEF Read, Tokens
  <2>3. Gains("-w", path) /\ Keeps("-a") /\ Keeps("-S") /\ Keeps("-F") /\ Keeps("-k") /\ Keeps("-p")
    BY <1>3, <2>2
  <2>4. cur'.watch_path = path
    BY <1>2, <2>1 DEF Read, LocalsSpace
  <2>5. cur'.effect = cur.effect /\ cur'.scope = cur.scope /\ cur'.syscalls = cur.syscalls /\ cur'.predicates = cur.predicates /\ cur'.watch_perms = cur.watch_perms
    BY <1>2, <2>1 DEF Read, LocalsSpace
  <2> QED
    BY <1>2, <2>3, <2>4, <2>5 DEF TakenIn
<1>8. CASE TakePerms
  <2>1. PICK perms \in Perms : Read("-p", perms, [cur EXCEPT !.watch_perms = perms])
    BY <1>8 DEF TakePerms
  <2>2. Adds("-p", perms)
    BY <2>1 DEF Read, Tokens
  <2>3. Gains("-p", perms) /\ Keeps("-a") /\ Keeps("-S") /\ Keeps("-F") /\ Keeps("-k") /\ Keeps("-w")
    BY <1>3, <2>2
  <2>4. cur'.watch_perms = perms
    BY <1>2, <2>1 DEF Read, LocalsSpace
  <2>5. cur'.effect = cur.effect /\ cur'.scope = cur.scope /\ cur'.syscalls = cur.syscalls /\ cur'.predicates = cur.predicates /\ cur'.watch_path = cur.watch_path
    BY <1>2, <2>1 DEF Read, LocalsSpace
  <2> QED
    BY <1>2, <2>3, <2>4, <2>5 DEF TakenIn
<1>9. CASE TakeKey
  <2>1. Read("-k", "key", [cur EXCEPT !.predicates = @ \cup {Eq("key", "key")}])
    BY <1>9 DEF TakeKey
  <2>2. Adds("-k", "key")
    BY <2>1 DEF Read, Tokens
  <2>3. Gains("-k", "key") /\ Keeps("-a") /\ Keeps("-S") /\ Keeps("-F") /\ Keeps("-w") /\ Keeps("-p")
    BY <1>3, <2>2
  <2>4. cur'.predicates = cur.predicates \cup {Eq("key", "key")}
    BY <1>2, <2>1 DEF Read, LocalsSpace
  <2>5. cur'.effect = cur.effect /\ cur'.scope = cur.scope /\ cur'.syscalls = cur.syscalls /\ cur'.watch_path = cur.watch_path /\ cur'.watch_perms = cur.watch_perms
    BY <1>2, <2>1 DEF Read, LocalsSpace
  <2> QED
    BY <1>2, <2>3, <2>4, <2>5 DEF TakenIn
<1>10. CASE RejectAdd \/ RejectFilter \/ RejectOption
  <2>1. cur' = [cur EXCEPT !.issues = TRUE]
    BY <1>10 DEF RejectAdd, RejectFilter, RejectOption, Read
  <2> QED
    BY <1>1, <1>2, <2>1 DEF LocalsSpace
<1> QED
  BY <1>4, <1>5, <1>6, <1>7, <1>8, <1>9, <1>10 DEF TokenActions

\* The rule of a line that was taken in says what the line says.
LEMMA RuleSays ==
  ASSUME TypeOK, TakenIn(cur, line), ~Issues(cur)
  PROVE  Says(RuleOf(cur), line)
<1> DEFINE r == RuleOf(cur)
<1>0. line \in Seq(Tokens)
  BY DEF TypeOK
<1>1. IsWatch(cur) <=> With(line, "-w") # {}
  <2>1. ASSUME With(line, "-w") # {} PROVE LastValue(line, "-w") \in Paths
    <3>1. PICK t \in Tokens : t.option = "-w" /\ t.arg = LastValue(line, "-w")
      BY <1>0, <2>1, LastType
    <3> QED
      BY <3>1 DEF Tokens
  <2> QED
    BY <2>1, NoValueAssumption DEF TakenIn, IsWatch
<1>2. cur.watch_perms # NoValue <=> With(line, "-p") # {}
  <2>1. ASSUME With(line, "-p") # {} PROVE LastValue(line, "-p") \in Perms
    <3>1. PICK t \in Tokens : t.option = "-p" /\ t.arg = LastValue(line, "-p")
      BY <1>0, <2>1, LastType
    <3> QED
      BY <3>1 DEF Tokens
  <2> QED
    BY <2>1, NoValueAssumption DEF TakenIn
<1>3. IsRule(cur) /\ ~PermsWithoutWatch(cur)
  BY DEF Issues
<1>4. r.effect = EffectOf(cur) /\ r.scope = cur.scope /\ r.syscalls = cur.syscalls /\ r.predicates = Predicates(cur)
  BY DEF RuleOf
<1>5. With(line, "-w") # {} \/ With(line, "-a") # {}
  BY <1>1, <1>3 DEF IsRule, EffectOf, TakenIn
<1>6. r.effect = IF With(line, "-w") # {} THEN "include" ELSE _ACTIONS[ActionOf(LastValue(line, "-a"))]
  BY <1>1, <1>4, <1>5 DEF EffectOf, TakenIn
<1>7. r.predicates =
          ValuesOf(line, "-F")
            \cup (IF With(line, "-k") = {} THEN {} ELSE {Eq("key", "key")})
            \cup (IF With(line, "-w") # {} THEN {Eq("path", LastValue(line, "-w"))} ELSE {})
            \cup (IF With(line, "-w") # {} /\ With(line, "-p") # {}
                  THEN {Eq("perm", LastValue(line, "-p"))} ELSE {})
  BY <1>1, <1>2, <1>4 DEF Predicates, WatchPredicates, TakenIn
<1>8. /\ r.scope = IF With(line, "-a") = {} THEN "exit" ELSE ListOf(LastValue(line, "-a"))
      /\ r.syscalls = UNION ValuesOf(line, "-S")
  BY <1>4 DEF TakenIn
<1> HIDE DEF r
<1> QED
  BY <1>5, <1>6, <1>7, <1>8 DEF Says, r

\* Every line that drew no diagnostic is understood in full, whatever the order of its
\* options and the lines before it (_parse_rule).
THEOREM RuleMeansItsTokensHolds == Spec => []RuleMeansItsTokens
<1>1. Init => Understood /\ RuleMeansItsTokens
  BY NothingTakenIn DEF Init, Understood, RuleMeansItsTokens
<1>2. TypeOK /\ Understood /\ RuleMeansItsTokens /\ [Next]_vars => Understood' /\ RuleMeansItsTokens'
  <2> SUFFICES ASSUME TypeOK, Understood, RuleMeansItsTokens, [Next]_vars
               PROVE  Understood' /\ RuleMeansItsTokens'
    OBVIOUS
  <2>1. CASE TokenActions
    <3>1. UNCHANGED <<text, rules, diagnostics>>
      BY <2>1, TokenStep
    <3> QED
      BY <2>1, <3>1, TokenIsTakenIn DEF RuleMeansItsTokens
  <2>2. CASE EndLine
    <3> DEFINE n == Len(text) + 1
               r == RuleOf(cur)
    <3>1. Understood'
      BY <2>2, NothingTakenIn DEF EndLine, NextLocals, Understood
    <3>2. /\ Len(text) \in Nat /\ Len(rules) \in Nat /\ Len(text') = n /\ text'[n] = line
          /\ \A m \in 1 .. Len(text) : text'[m] = text[m]
      BY <2>2 DEF EndLine, TypeOK
    <3>3. /\ Len(rules') \in Nat /\ Len(rules) <= Len(rules')
          /\ \A i \in 1 .. Len(rules) : rules'[i] = rules[i]
      BY <2>2 DEF EndLine, TypeOK
    <3>4. diagnostics \subseteq diagnostics' /\ (n \notin diagnostics' => ~Issues(cur))
      BY <2>2 DEF EndLine
    <3>5. ASSUME NEW m \in 1 .. Len(text) \ diagnostics'
          PROVE  \E i \in 1 .. Len(rules') : rules'[i].origin = m /\ Says(rules'[i], text'[m])
      BY <3>2, <3>3, <3>4, <3>5 DEF RuleMeansItsTokens
    <3>6. ASSUME n \notin diagnostics'
          PROVE  \E i \in 1 .. Len(rules') : rules'[i].origin = n /\ Says(rules'[i], text'[n])
      <4>1. ~Issues(cur) /\ IsRule(cur)
        BY <3>4, <3>6 DEF Issues
      <4>2. TakenIn(cur, line)
        BY <4>1, Zenon DEF Understood, Issues
      <4>3. Says(r, line)
        BY <4>1, <4>2, RuleSays
      <4>4. rules' = Append(rules, r)
        BY <2>2, <4>1 DEF EndLine, Emit
      <4>5. Len(rules') = Len(rules) + 1 /\ rules'[Len(rules) + 1] = r
        BY <4>1, <4>4, RuleOfType DEF TypeOK
      <4>6. r.origin = n
        BY DEF RuleOf
      <4> QED
        BY <3>2, <4>3, <4>5, <4>6
    <3> QED
      BY <3>1, <3>2, <3>5, <3>6 DEF RuleMeansItsTokens
  <2>3. CASE Return
    BY <2>3 DEF Return, Understood, RuleMeansItsTokens
  <2>4. CASE UNCHANGED vars
    BY <2>4 DEF vars, Understood, RuleMeansItsTokens
  <2> QED
    BY <2>1, <2>2, <2>3, <2>4 DEF Next, TokenActions
<1> QED
  BY <1>1, <1>2, TypeCorrect, PTL DEF Spec
=============================================================================
