------------------------ MODULE SysmonConfig_proofs ------------------------
(***************************************************************************)
(* The verdicts on event types are right about what the configuration      *)
(* logs, for every dump: any number of lines, of event types and of        *)
(* fields. The invariant says how what the parser holds corresponds to the *)
(* lines it has read.                                                      *)
(***************************************************************************)
EXTENDS SysmonConfig, FiniteSetTheorems, TLAPS

Nested == {"filter", "compound"}

\* The summary comes first, then the head; only a rule section has further lines.
Shaped ==
  \A n \in DOMAIN text :
    /\ text[n].kind = "network" <=> n = 1
    /\ text[n].kind \in {"version", "no_rules"} <=> n = 2
    /\ n > 2 => text[2].kind = "version"

Sectioned == Framed => (in_rules <=> Len(text) >= 2 /\ text[2].form = "plain")

Gated == Framed => gates = IF text # <<>> /\ text[1].form = "plain" THEN <<text[1].of>> ELSE <<>>

\* A line not understood is diagnosed, except for a head without a rule section.
Owned == Framed => \A n \in DOMAIN text : n # 2 /\ text[n].form # "plain" => n \in diagnostics

BlockLines == {n \in DOMAIN text : text[n].kind = "block"}
Latest(n)  == \A m \in BlockLines : m <= n

RuleOf(n) == [event |-> text[n].of.event, effect |-> text[n].of.effect, predicates |-> Conditions(n)]

\* As long as nothing was diagnosed, the rules are the blocks of the dump with their
\* conditions, the last of which is still open.
Faithful ==
  Framed /\ diagnostics = {} =>
    /\ {rules[i] : i \in DOMAIN rules} = {RuleOf(n) : n \in {m \in BlockLines : done \/ ~Latest(m)}}
    /\ block = {RuleOf(n) : n \in {m \in BlockLines : ~done /\ Latest(m)}}

\* One block is open, or none.
Single == block = {} \/ \E r \in Rule : block = {r}

Inv == TypeOK /\ Single /\ Shaped /\ Sectioned /\ Gated /\ Owned /\ Faithful

-----------------------------------------------------------------------------

\* What is known of a line by its kind.
LEMMA LineTypes ==
  ASSUME NEW l \in Lines
  PROVE  /\ l.kind \in {"network", "version", "no_rules", "block", "filter", "compound"}
         /\ l.form \in {"plain", "changed", "garbled"}
         /\ l.form = "garbled" => l.kind = "network"
         /\ l.kind = "network" => l.of \in BOOLEAN
         /\ l.kind = "block" => l.of \in [event : EventTypes, effect : Effects]
         /\ l.kind \in Nested => l.of \in Fields \cup {"-"}
  BY DEF Lines, Forms, Nested

\* What is at most one rule has at most one element.
LEMMA SingleIsSmall ==
  ASSUME NEW S, S = {} \/ \E r \in Rule : S = {r}
  PROVE  S \subseteq Rule /\ Cardinality(S) <= 1
<1>1. CASE S = {}
  BY <1>1, FS_EmptySet
<1>2. CASE \E r \in Rule : S = {r}
  BY <1>2, FS_Singleton
<1> QED
  BY <1>1, <1>2

\* One more line adds a condition to a block only if none but conditions came since.
LEMMA ConditionsGrow ==
  ASSUME text \in Seq(Lines), NEW l \in Lines, text' = Append(text, l), NEW n \in DOMAIN text
  PROVE  Conditions(n)' = Conditions(n) \cup
           {c \in {l.of} : l.kind \in Nested /\ \A j \in n + 1 .. Len(text) : text[j].kind \in Nested}
<1>1. /\ Len(text) \in Nat /\ Len(text') = Len(text) + 1
      /\ \A j \in 1 .. Len(text) : text'[j] = text[j]
      /\ text'[Len(text) + 1] = l /\ n \in 1 .. Len(text)
  OBVIOUS
<1> DEFINE Run(m)  == \A j \in n + 1 .. m : text[j].kind \in Nested
           RunP(m) == \A j \in n + 1 .. m : text'[j].kind \in Nested
<1>2. \A m \in n + 1 .. Len(text) : RunP(m) <=> Run(m)
  BY <1>1
<1>3. RunP(Len(text) + 1) <=> Run(Len(text)) /\ l.kind \in Nested
  BY <1>1
<1>4. /\ Conditions(n) = {text[k].of : k \in {m \in n + 1 .. Len(text) : Run(m)}}
      /\ Conditions(n)' = {text'[k].of : k \in {m \in n + 1 .. Len(text) + 1 : RunP(m)}}
  BY <1>1 DEF Conditions, Nested
<1> HIDE DEF Run, RunP
<1>5. n + 1 .. Len(text) + 1 = (n + 1 .. Len(text)) \cup {Len(text) + 1}
  BY <1>1
<1>6. \A m \in n + 1 .. Len(text) : m \in 1 .. Len(text)
  BY <1>1
<1> QED
  BY <1>1, <1>2, <1>3, <1>4, <1>5, <1>6 DEF Run

\* What a step that reads a line does to the text.
LEMMA ReadAppends ==
  ASSUME Inv, NEW l \in Lines, Read(l)
  PROVE  /\ text \in Seq(Lines) /\ text' = Append(text, l) /\ text' \in Seq(Lines)
         /\ Len(text) \in Nat /\ Len(text') = Len(text) + 1
         /\ DOMAIN text = 1 .. Len(text) /\ DOMAIN text' = 1 .. Len(text) + 1
         /\ \A n \in DOMAIN text : text'[n] = text[n] /\ text[n] \in Lines
         /\ text'[Len(text) + 1] = l
         /\ ~done /\ ~done'
<1>1. text \in Seq(Lines) /\ ~done
  BY Zenon DEF Inv, TypeOK, Read
<1>2. text' = Append(text, l) /\ ~done'
  BY Zenon DEF Read
<1> QED
  BY <1>1, <1>2

\* Lines come in the order Sysmon prints them.
LEMMA ReadShapes ==
  ASSUME Inv, NEW l \in Lines, Read(l)
  PROVE  /\ Shaped'
         /\ l.kind = "network" <=> Len(text) = 0
         /\ l.kind \in {"version", "no_rules"} <=> Len(text) = 1
         /\ Len(text) >= 2 => text[2].kind = "version" /\ l.kind \in Nested \cup {"block"}
<1> DEFINE len == Len(text)
<1>1. /\ len \in Nat /\ DOMAIN text = 1 .. len /\ DOMAIN text' = 1 .. len + 1
      /\ \A n \in 1 .. len : text'[n] = text[n]
      /\ text'[len + 1] = l
      /\ text = <<>> <=> len = 0
  BY ReadAppends
<1>2. /\ l.kind = "network" <=> text = <<>>
      /\ l.kind \in {"version", "no_rules"} <=> len = 1
      /\ l.kind \in {"block", "filter", "compound"} => Printed("version")
  BY Zenon DEF Read, Printable
<1>3. \A n \in 1 .. len :
        /\ text[n].kind = "network" <=> n = 1
        /\ text[n].kind \in {"version", "no_rules"} <=> n = 2
        /\ n > 2 => text[2].kind = "version"
  BY <1>1 DEF Inv, Shaped
<1>4. l.kind \in {"network", "version", "no_rules", "block", "filter", "compound"}
  BY LineTypes
<1> HIDE DEF len
<1>5. l.kind = "network" <=> len = 0
  BY <1>1, <1>2
<1>6. ASSUME Printed("version") PROVE len >= 2 /\ text[2].kind = "version"
  <2>1. PICK n \in 1 .. len : text[n].kind = "version"
    BY <1>1, <1>6 DEF Printed
  <2>2. n = 2
    BY <1>3, <2>1
  <2> QED
    BY <1>1, <2>1, <2>2
<1>7. len >= 2 => text[2].kind = "version" /\ l.kind \in {"block", "filter", "compound"}
  BY <1>1, <1>2, <1>4, <1>5, <1>6
<1>8. \A n \in 1 .. len + 1 :
        /\ text'[n].kind = "network" <=> n = 1
        /\ text'[n].kind \in {"version", "no_rules"} <=> n = 2
        /\ n > 2 => text'[2].kind = "version"
  <2> TAKE n \in 1 .. len + 1
  <2>1. CASE n \in 1 .. len
    <3>1. n > 2 => 2 \in 1 .. len
      BY <1>1, <2>1
    <3> QED
      BY <1>1, <1>3, <2>1, <3>1
  <2>2. CASE n = len + 1
    <3>1. n > 2 => len >= 2 /\ 2 \in 1 .. len
      BY <1>1, <2>2
    <3> QED
      BY <1>1, <1>2, <1>5, <1>7, <2>2, <3>1
  <2> QED
    BY <1>1, <2>1, <2>2
<1> QED
  BY <1>1, <1>2, <1>5, <1>7, <1>8 DEF Shaped, Nested, len

\* The frame of a text with one more line.
LEMMA ReadFrames ==
  ASSUME Inv, NEW l \in Lines, Read(l), Framed'
  PROVE  Framed /\ (l.kind \in {"network", "version"} => l.form # "changed")
  BY ReadAppends DEF Framed

-----------------------------------------------------------------------------
(* Each part of the invariant, for a step that reads a line.               *)

\* What a step may do with the block and the rules, as far as types go.
LEMMA ReadTypes ==
  ASSUME Inv, NEW l \in Lines, Read(l),
         in_rules' \in BOOLEAN,
         block' = {} \/ \E r \in Rule : block' = {r},
         rules' \in Seq(Rule), gates' \in Seq(BOOLEAN),
         diagnostics' \subseteq diagnostics \cup {Len(text) + 1}
  PROVE  TypeOK' /\ Single'
<1>1. Single'
  BY Zenon DEF Single
<1>2. block' \subseteq Rule /\ Cardinality(block') <= 1
  BY SingleIsSmall, Zenon
<1>3. diagnostics \subseteq DOMAIN text
  BY Zenon DEF Inv, TypeOK
<1>4. diagnostics' \subseteq DOMAIN text'
  BY <1>3, ReadAppends
<1>5. text' \in Seq(Lines)
  BY ReadAppends
<1>6. done' \in BOOLEAN
  BY Zenon DEF Inv, TypeOK, Read
<1> QED
  BY <1>1, <1>2, <1>4, <1>5, <1>6, Zenon DEF TypeOK

\* A block that is closed becomes a rule.
LEMMA FinishedIsRules ==
  ASSUME Inv
  PROVE  /\ Finished \in Seq(Rule)
         /\ {Finished[i] : i \in DOMAIN Finished} = {rules[i] : i \in DOMAIN rules} \cup block
<1>1. rules \in Seq(Rule)
  BY Zenon DEF Inv, TypeOK
<1>2. CASE block = {}
  BY <1>1, <1>2 DEF Finished
<1>3. CASE \E r \in Rule : block = {r}
  <2>1. PICK r \in Rule : block = {r}
    BY <1>3
  <2>2. (CHOOSE b \in block : TRUE) = r
    BY <2>1
  <2>3. Finished = Append(rules, r)
    BY <2>1, <2>2 DEF Finished
  <2>4. /\ Append(rules, r) \in Seq(Rule) /\ Len(rules) \in Nat
        /\ DOMAIN rules = 1 .. Len(rules) /\ DOMAIN Append(rules, r) = 1 .. Len(rules) + 1
        /\ \A i \in 1 .. Len(rules) : Append(rules, r)[i] = rules[i]
        /\ Append(rules, r)[Len(rules) + 1] = r
    BY <1>1
  <2>5. 1 .. Len(rules) + 1 = (1 .. Len(rules)) \cup {Len(rules) + 1}
    BY <2>4
  <2> QED
    BY <2>1, <2>3, <2>4, <2>5
<1> QED
  BY <1>2, <1>3 DEF Inv, Single

\* Before the rule section no more than the head has been read, and no block.
LEMMA BeforeRules ==
  ASSUME Inv, Framed, ~in_rules, NEW l \in Lines, Read(l)
  PROVE  Len(text) < 2
<1>1. Len(text) >= 2 => text[2].kind = "version"
  BY ReadShapes
<1>2. Len(text) >= 2 => text[2].form # "plain"
  BY DEF Inv, Sectioned
<1>3. Len(text) >= 2 => 2 \in DOMAIN text /\ text[2] \in Lines
  BY ReadAppends
<1>4. Len(text) >= 2 => text[2].form \in {"plain", "changed", "garbled"} /\ text[2].form # "garbled"
  BY <1>1, <1>3, LineTypes
<1> QED
  BY <1>1, <1>2, <1>3, <1>4, ReadAppends DEF Framed

\* The rule section begins with a head in the form the parser knows.
LEMMA ReadSections ==
  ASSUME Inv, NEW l \in Lines, Read(l),
         in_rules' <=> in_rules \/ Seen(l) \in {"version", "no_rules"}
  PROVE  Sectioned'
<1> SUFFICES ASSUME Framed' PROVE in_rules' <=> Len(text') >= 2 /\ text'[2].form = "plain"
  BY DEF Sectioned
<1>1. in_rules <=> Len(text) >= 2 /\ text[2].form = "plain"
  BY ReadFrames DEF Inv, Sectioned
<1>2. /\ Len(text) \in Nat /\ Len(text') = Len(text) + 1 /\ text'[Len(text) + 1] = l
      /\ \A n \in 1 .. Len(text) : text'[n] = text[n]
  BY ReadAppends
<1>3. /\ l.kind \in {"version", "no_rules"} <=> Len(text) = 1
      /\ l.kind \in {"network", "version", "no_rules", "block", "filter", "compound"}
      /\ l.form \in {"plain", "changed", "garbled"}
  BY ReadShapes, LineTypes
<1>4. Seen(l) \in {"version", "no_rules"} <=> Len(text) = 1 /\ l.form = "plain"
  BY <1>3 DEF Seen
<1>5. CASE Len(text) >= 2
  BY <1>1, <1>2, <1>4, <1>5
<1>6. CASE Len(text) = 1
  BY <1>1, <1>2, <1>4, <1>6
<1>7. CASE Len(text) = 0
  BY <1>1, <1>2, <1>4, <1>7
<1>8. \A n \in Nat : n >= 2 \/ n = 1 \/ n = 0
  OBVIOUS
<1> QED
  BY <1>2, <1>5, <1>6, <1>7, <1>8, Zenon

\* The state of network connections is that of the first line.
LEMMA ReadGates ==
  ASSUME Inv, NEW l \in Lines, Read(l),
         gates' = IF ~in_rules /\ Seen(l) = "network" THEN Append(gates, l.of) ELSE gates
  PROVE  Gated'
<1> SUFFICES ASSUME Framed'
             PROVE  gates' = IF text' # <<>> /\ text'[1].form = "plain" THEN <<text'[1].of>> ELSE <<>>
  BY DEF Gated
<1>1. gates = IF text # <<>> /\ text[1].form = "plain" THEN <<text[1].of>> ELSE <<>>
  BY ReadFrames DEF Inv, Gated
<1>2. /\ Len(text) \in Nat /\ Len(text') = Len(text) + 1 /\ text'[Len(text) + 1] = l
      /\ \A n \in 1 .. Len(text) : text'[n] = text[n]
      /\ text # <<>> <=> Len(text) # 0
      /\ text' # <<>> <=> Len(text') # 0
  BY ReadAppends
<1>3. /\ l.kind = "network" <=> Len(text) = 0
      /\ l.kind \in {"network", "version", "no_rules", "block", "filter", "compound"}
      /\ l.form \in {"plain", "changed", "garbled"}
  BY ReadShapes, LineTypes
<1>4. Seen(l) = "network" <=> Len(text) = 0 /\ l.form = "plain"
  BY <1>3 DEF Seen
<1>5. Len(text) = 0 => ~in_rules
  BY ReadFrames DEF Inv, Sectioned
<1>6. CASE Len(text) = 0
  <2>1. Append(<<>>, l.of) = <<l.of>>
    OBVIOUS
  <2> QED
    BY <1>1, <1>2, <1>4, <1>5, <1>6, <2>1
<1>7. CASE Len(text) > 0
  BY <1>1, <1>2, <1>4, <1>7
<1> QED
  BY <1>2, <1>6, <1>7

\* A line is understood, or is the head, or is diagnosed.
LEMMA ReadOwns ==
  ASSUME Inv, NEW l \in Lines, Read(l), diagnostics \subseteq diagnostics',
         Framed' /\ Len(text) + 1 # 2 /\ l.form # "plain" => Len(text) + 1 \in diagnostics'
  PROVE  Owned'
<1> SUFFICES ASSUME Framed', NEW n \in DOMAIN text', n # 2, text'[n].form # "plain"
             PROVE  n \in diagnostics'
  BY DEF Owned
<1>1. \A m \in DOMAIN text : m # 2 /\ text[m].form # "plain" => m \in diagnostics
  BY ReadFrames DEF Inv, Owned
<1> QED
  BY <1>1, ReadAppends

-----------------------------------------------------------------------------
(* The rules are the blocks.                                               *)

\* A block is a line of the rule section, and only conditions follow the latest one.
LEMMA BlocksAreInRules ==
  ASSUME Inv, NEW n \in BlockLines
  PROVE  n \in 3 .. Len(text) /\ (Latest(n) => \A j \in n + 1 .. Len(text) : text[j].kind \in Nested)
<1>1. text \in Seq(Lines)
  BY Zenon DEF Inv, TypeOK
<1>2. n \in 1 .. Len(text) /\ text[n].kind = "block"
  BY <1>1 DEF BlockLines
<1>3. \A j \in 1 .. Len(text) :
        /\ text[j].kind = "network" <=> j = 1
        /\ text[j].kind \in {"version", "no_rules"} <=> j = 2
  BY <1>1 DEF Inv, Shaped
<1>4. n \in 3 .. Len(text)
  BY <1>2, <1>3
<1>5. ASSUME Latest(n), NEW j \in n + 1 .. Len(text) PROVE text[j].kind \in Nested
  <2>1. j \in 1 .. Len(text) /\ j > 2 /\ j > n
    BY <1>4
  <2>2. text[j].kind # "block"
    BY <1>1, <1>5, <2>1 DEF Latest, BlockLines
  <2>3. text[j] \in Lines
    BY <1>1, <2>1
  <2> QED
    BY <1>3, <2>1, <2>2, <2>3, LineTypes DEF Nested
<1> QED
  BY <1>4, <1>5

\* A line changes no block but the latest, to which it may add a condition.
LEMMA RuleGrows ==
  ASSUME Inv, NEW l \in Lines, Read(l), NEW n \in BlockLines
  PROVE  /\ n \in BlockLines'
         /\ l.kind \notin Nested \/ ~Latest(n) => RuleOf(n)' = RuleOf(n)
         /\ l.kind \in Nested /\ Latest(n) =>
              RuleOf(n)' = [RuleOf(n) EXCEPT !.predicates = @ \cup {l.of}]
<1>1. /\ text \in Seq(Lines) /\ text' = Append(text, l)
      /\ DOMAIN text = 1 .. Len(text) /\ DOMAIN text' = 1 .. Len(text) + 1 /\ Len(text) \in Nat
      /\ n \in DOMAIN text /\ text'[n] = text[n]
  BY ReadAppends DEF BlockLines
<1>2. Conditions(n)' = Conditions(n) \cup
        {c \in {l.of} : l.kind \in Nested /\ \A j \in n + 1 .. Len(text) : text[j].kind \in Nested}
  BY <1>1, ConditionsGrow
<1>3. ASSUME ~Latest(n) PROVE \E j \in n + 1 .. Len(text) : text[j].kind \notin Nested
  <2>1. PICK m \in BlockLines : ~(m <= n)
    BY <1>3 DEF Latest
  <2>2. m \in n + 1 .. Len(text) /\ text[m].kind = "block"
    BY <1>1, <2>1 DEF BlockLines
  <2> QED
    BY <2>2 DEF Nested
<1>4. l.kind \notin Nested \/ ~Latest(n) => Conditions(n)' = Conditions(n)
  BY <1>2, <1>3
<1>5. l.kind \in Nested /\ Latest(n) => Conditions(n)' = Conditions(n) \cup {l.of}
  BY <1>2, BlocksAreInRules
<1>6. n \in BlockLines'
  BY <1>1 DEF BlockLines
<1>7. /\ RuleOf(n) = [event |-> text[n].of.event, effect |-> text[n].of.effect, predicates |-> Conditions(n)]
      /\ RuleOf(n)' = [event |-> text[n].of.event, effect |-> text[n].of.effect, predicates |-> Conditions(n)']
  BY <1>1 DEF RuleOf
<1> QED
  BY <1>4, <1>5, <1>6, <1>7

\* The block lines of the text with one more line.
LEMMA BlockLinesGrow ==
  ASSUME Inv, NEW l \in Lines, Read(l)
  PROVE  /\ BlockLines' = BlockLines \cup {n \in {Len(text) + 1} : l.kind = "block"}
         /\ l.kind # "block" => \A n \in BlockLines : Latest(n)' <=> Latest(n)
         /\ l.kind = "block" => \A n \in BlockLines' : Latest(n)' <=> n = Len(text) + 1
<1>1. /\ Len(text) \in Nat /\ DOMAIN text = 1 .. Len(text) /\ DOMAIN text' = 1 .. Len(text) + 1
      /\ \A n \in 1 .. Len(text) : text'[n] = text[n]
      /\ text'[Len(text) + 1] = l
  BY ReadAppends
<1>2. 1 .. Len(text) + 1 = (1 .. Len(text)) \cup {Len(text) + 1}
  BY <1>1
<1>3. BlockLines' = BlockLines \cup {n \in {Len(text) + 1} : l.kind = "block"}
  BY <1>1, <1>2 DEF BlockLines
<1>4. BlockLines \subseteq 1 .. Len(text)
  BY <1>1 DEF BlockLines
<1> QED
  BY <1>1, <1>3, <1>4 DEF Latest

\* Before the rule section there is nothing but what was there.
LEMMA FaithfulBefore ==
  ASSUME Inv, NEW l \in Lines, Read(l), Framed' => Len(text) < 2,
         diagnostics' = diagnostics, block' \subseteq block,
         {rules'[i] : i \in DOMAIN rules'} \subseteq {rules[i] : i \in DOMAIN rules} \cup block
  PROVE  Faithful'
<1> SUFFICES ASSUME Framed', diagnostics' = {}
             PROVE  /\ {rules'[i] : i \in DOMAIN rules'} = {}
                    /\ block' = {}
                    /\ BlockLines' = {}
  BY DEF Faithful
<1>1. Len(text) \in Nat /\ Len(text) < 2
  BY ReadAppends
<1>2. BlockLines = {}
  BY <1>1, BlocksAreInRules
<1>3. l.kind # "block"
  <2>0. \A n \in Nat : n < 2 => n = 0 \/ n = 1
    OBVIOUS
  <2>1. Len(text) = 0 \/ Len(text) = 1
    BY <1>1, <2>0, Zenon
  <2>2. (Len(text) = 0 => l.kind = "network") /\ (Len(text) = 1 => l.kind \in {"version", "no_rules"})
    BY ReadShapes, Zenon
  <2> QED
    BY <2>1, <2>2
<1>4. BlockLines' = {}
  BY <1>2, <1>3, BlockLinesGrow
<1>5. {rules[i] : i \in DOMAIN rules} = {} /\ block = {}
  BY <1>2, ReadFrames DEF Inv, Faithful
<1> QED
  BY <1>4, <1>5

\* A block line closes the block before it.
LEMMA FaithfulBlock ==
  ASSUME Inv, NEW l \in Lines, Read(l), l.kind = "block", diagnostics' = diagnostics,
         rules' = Finished,
         block' = {[event |-> l.of.event, effect |-> l.of.effect, predicates |-> {}]}
  PROVE  Faithful'
<1> SUFFICES ASSUME Framed', diagnostics' = {}
             PROVE  /\ {rules'[i] : i \in DOMAIN rules'}
                         = {RuleOf(n)' : n \in {m \in BlockLines' : done' \/ ~Latest(m)'}}
                    /\ block' = {RuleOf(n)' : n \in {m \in BlockLines' : ~done' /\ Latest(m)'}}
  BY DEF Faithful
<1>0. PICK new \in Nat : new = Len(text) + 1
  BY ReadAppends
<1>1. /\ {rules[i] : i \in DOMAIN rules} = {RuleOf(n) : n \in {m \in BlockLines : ~Latest(m)}}
      /\ block = {RuleOf(n) : n \in {m \in BlockLines : Latest(m)}}
      /\ ~done'
  BY ReadFrames, ReadAppends DEF Inv, Faithful
<1>2. {rules'[i] : i \in DOMAIN rules'} = {RuleOf(n) : n \in BlockLines}
  BY <1>1, FinishedIsRules
<1>3. \A n \in BlockLines : RuleOf(n)' = RuleOf(n)
  BY RuleGrows DEF Nested
<1>4. /\ BlockLines' = BlockLines \cup {new} /\ new \notin BlockLines
      /\ \A n \in BlockLines' : Latest(n)' <=> n = new
  BY <1>0, BlockLinesGrow, ReadAppends DEF BlockLines
<1>5. RuleOf(new)' = [event |-> l.of.event, effect |-> l.of.effect, predicates |-> {}]
  <2>1. Len(text') = new /\ text'[new] = l
    BY <1>0, ReadAppends
  <2>2. Conditions(new)' = {}
    BY <2>1 DEF Conditions
  <2>3. RuleOf(new)' = [event |-> text'[new].of.event, effect |-> text'[new].of.effect,
                        predicates |-> Conditions(new)']
    BY DEF RuleOf
  <2> QED
    BY <2>1, <2>2, <2>3
<1>6. {m \in BlockLines' : done' \/ ~Latest(m)'} = BlockLines
  BY <1>1, <1>4
<1>7. {m \in BlockLines' : ~done' /\ Latest(m)'} = {new}
  BY <1>1, <1>4
<1>8. {RuleOf(n)' : n \in BlockLines} = {RuleOf(n) : n \in BlockLines}
  BY <1>3
<1>9. {RuleOf(n)' : n \in {new}} = {RuleOf(new)'}
  OBVIOUS
<1> QED
  BY <1>2, <1>5, <1>6, <1>7, <1>8, <1>9

\* A condition goes to the block that is open.
LEMMA FaithfulPredicate ==
  ASSUME Inv, NEW l \in Lines, Read(l), l.kind \in Nested, diagnostics' = diagnostics,
         rules' = rules,
         block' = {[b EXCEPT !.predicates = @ \cup {l.of}] : b \in block}
  PROVE  Faithful'
<1> SUFFICES ASSUME Framed', diagnostics' = {}
             PROVE  /\ {rules'[i] : i \in DOMAIN rules'}
                         = {RuleOf(n)' : n \in {m \in BlockLines' : done' \/ ~Latest(m)'}}
                    /\ block' = {RuleOf(n)' : n \in {m \in BlockLines' : ~done' /\ Latest(m)'}}
  BY DEF Faithful
<1>1. /\ {rules[i] : i \in DOMAIN rules} = {RuleOf(n) : n \in {m \in BlockLines : ~Latest(m)}}
      /\ block = {RuleOf(n) : n \in {m \in BlockLines : Latest(m)}}
      /\ ~done'
  BY ReadFrames, ReadAppends DEF Inv, Faithful
<1>2. BlockLines' = BlockLines /\ \A n \in BlockLines : Latest(n)' <=> Latest(n)
  BY BlockLinesGrow DEF Nested
<1>3. \A n \in BlockLines :
        /\ ~Latest(n) => RuleOf(n)' = RuleOf(n)
        /\ Latest(n) => RuleOf(n)' = [RuleOf(n) EXCEPT !.predicates = @ \cup {l.of}]
  BY RuleGrows
<1>4. /\ {m \in BlockLines' : done' \/ ~Latest(m)'} = {m \in BlockLines : ~Latest(m)}
      /\ {m \in BlockLines' : ~done' /\ Latest(m)'} = {m \in BlockLines : Latest(m)}
  BY <1>1, <1>2
<1>5. {RuleOf(n)' : n \in {m \in BlockLines : ~Latest(m)}} = {RuleOf(n) : n \in {m \in BlockLines : ~Latest(m)}}
  BY <1>3
<1>6. block' = {[RuleOf(n) EXCEPT !.predicates = @ \cup {l.of}] : n \in {m \in BlockLines : Latest(m)}}
  BY <1>1
<1>7. block' = {RuleOf(n)' : n \in {m \in BlockLines : Latest(m)}}
  BY <1>3, <1>6
<1> QED
  BY <1>1, <1>4, <1>5, <1>7

-----------------------------------------------------------------------------
(* The invariant.                                                          *)

\* It holds before the first line.
LEMMA InitInv ==
  Init => Inv
<1> SUFFICES ASSUME Init PROVE Inv
  OBVIOUS
<1> USE DEF Init
<1>1. TypeOK
  <2>1. block \subseteq Rule /\ Cardinality(block) <= 1
    BY SingleIsSmall
  <2>2. text \in Seq(Lines) /\ rules \in Seq(Rule) /\ gates \in Seq(BOOLEAN)
    OBVIOUS
  <2>3. in_rules \in BOOLEAN /\ done \in BOOLEAN /\ diagnostics \subseteq DOMAIN text
    OBVIOUS
  <2> QED
    BY <2>1, <2>2, <2>3, Zenon DEF TypeOK
<1>2. Single /\ Shaped /\ Sectioned /\ Gated /\ Owned
  BY DEF Single, Shaped, Sectioned, Gated, Owned
<1>3. BlockLines = {} /\ rules = <<>> /\ block = {}
  BY DEF BlockLines
<1>4. Faithful
  BY <1>3 DEF Faithful
<1> QED
  BY <1>1, <1>2, <1>4 DEF Inv

\* A line that changes neither rules nor block, and is diagnosed if it should be understood.
LEMMA DiagnosePreserves ==
  ASSUME Inv, NEW l \in Lines, Diagnose(l), Seen(l) \notin {"version", "no_rules", "network"}
  PROVE  Inv'
<1>1. /\ Read(l) /\ diagnostics' = diagnostics \cup {Len(text) + 1}
      /\ UNCHANGED <<in_rules, block, rules, gates>>
  BY Zenon DEF Diagnose, Diagnosed
<1>2. TypeOK' /\ Single'
  BY <1>1, ReadTypes DEF Inv, TypeOK, Single
<1>3. Sectioned'
  BY <1>1, ReadSections
<1>4. Gated'
  BY <1>1, ReadGates
<1>5. Owned'
  BY <1>1, ReadOwns
<1>6. Faithful'
  BY <1>1 DEF Faithful
<1>7. Shaped'
  BY <1>1, ReadShapes
<1> QED
  BY <1>2, <1>3, <1>4, <1>5, <1>6, <1>7 DEF Inv

\* A line with the version of the schema.
LEMMA VersionLinePreserves ==
  ASSUME Inv, VersionLine
  PROVE  Inv'
<1>1. PICK l \in Lines :
        /\ Seen(l) = "version" /\ Read(l)
        /\ rules' = Finished /\ block' = {} /\ in_rules' = TRUE
        /\ gates' = gates /\ diagnostics' = diagnostics
  BY Zenon DEF VersionLine
<1>2. l.form = "plain" /\ l.kind = "version" /\ Len(text) = 1
  BY <1>1, ReadShapes, LineTypes DEF Seen
<1>3. TypeOK' /\ Single'
  BY <1>1, ReadTypes, FinishedIsRules DEF Inv, TypeOK
<1>4. Sectioned'
  BY <1>1, ReadSections
<1>5. Gated'
  BY <1>1, ReadGates
<1>6. Owned'
  BY <1>1, <1>2, ReadOwns
<1>7. Faithful'
  BY <1>1, <1>2, FaithfulBefore, FinishedIsRules
<1>8. Shaped'
  BY <1>1, ReadShapes
<1> QED
  BY <1>3, <1>4, <1>5, <1>6, <1>7, <1>8 DEF Inv

\* The line with the network gate.
LEMMA NetworkLinePreserves ==
  ASSUME Inv, NetworkLine
  PROVE  Inv'
<1>1. PICK l \in Lines :
        /\ ~in_rules /\ Seen(l) = "network" /\ Read(l)
        /\ gates' = Append(gates, l.of)
        /\ UNCHANGED <<in_rules, block, rules, diagnostics>>
  BY Zenon DEF NetworkLine
<1>2. l.form = "plain" /\ l.kind = "network"
  BY <1>1, LineTypes DEF Seen
<1>3. l.of \in BOOLEAN /\ gates \in Seq(BOOLEAN)
  BY <1>2, LineTypes DEF Inv, TypeOK
<1>4. TypeOK' /\ Single'
  BY <1>1, <1>3, ReadTypes DEF Inv, TypeOK, Single
<1>5. Sectioned'
  BY <1>1, ReadSections
<1>6. Gated'
  BY <1>1, ReadGates
<1>7. Owned'
  BY <1>1, <1>2, ReadOwns
<1>8. Faithful'
  BY <1>1, FaithfulBefore, BeforeRules, ReadFrames
<1>9. Shaped'
  BY <1>1, ReadShapes
<1> QED
  BY <1>4, <1>5, <1>6, <1>7, <1>8, <1>9 DEF Inv

\* The line that says there are no rules.
LEMMA NoRulesLinePreserves ==
  ASSUME Inv, NoRulesLine
  PROVE  Inv'
<1>1. PICK l \in Lines :
        /\ ~in_rules /\ Seen(l) = "no_rules" /\ Read(l)
        /\ in_rules' = TRUE
        /\ UNCHANGED <<block, rules, gates, diagnostics>>
  BY Zenon DEF NoRulesLine
<1>2. l.form = "plain" /\ l.kind = "no_rules"
  BY <1>1, LineTypes DEF Seen
<1>3. TypeOK' /\ Single'
  BY <1>1, ReadTypes DEF Inv, TypeOK, Single
<1>4. Sectioned'
  BY <1>1, ReadSections
<1>5. Gated'
  BY <1>1, ReadGates
<1>6. Owned'
  BY <1>1, <1>2, ReadOwns
<1>7. Faithful'
  BY <1>1, FaithfulBefore, BeforeRules, ReadFrames
<1>8. Shaped'
  BY <1>1, ReadShapes
<1> QED
  BY <1>3, <1>4, <1>5, <1>6, <1>7, <1>8 DEF Inv

\* Where the text is framed, a line that is skipped is a head without rules.
LEMMA SkippedLinePreserves ==
  ASSUME Inv, SkippedLine
  PROVE  Inv'
<1>1. PICK l \in Lines :
        /\ ~in_rules /\ Seen(l) \notin {"version", "network", "garbled", "no_rules"} /\ Read(l)
        /\ UNCHANGED <<in_rules, block, rules, gates, diagnostics>>
  BY Zenon DEF SkippedLine
<1>2. TypeOK' /\ Single'
  BY <1>1, ReadTypes DEF Inv, TypeOK, Single
<1>3. Sectioned'
  BY <1>1, ReadSections
<1>4. Gated'
  BY <1>1, ReadGates
<1>5. ASSUME Framed', l.form # "plain" PROVE Len(text) + 1 = 2
  <2>1. l.form = "changed"
    BY <1>1, <1>5, LineTypes DEF Seen
  <2>2. l.kind # "network"
    BY <1>1, <1>5, <2>1, ReadFrames
  <2>3. Len(text) # 0 /\ Len(text) \in Nat
    BY <1>1, <2>2, ReadShapes, ReadAppends
  <2>4. Len(text) < 2
    BY <1>1, <1>5, ReadFrames, BeforeRules
  <2> QED
    BY <2>3, <2>4
<1>6. Owned'
  BY <1>1, <1>5, ReadOwns
<1>7. Faithful'
  BY <1>1, FaithfulBefore, BeforeRules, ReadFrames
<1>8. Shaped'
  BY <1>1, ReadShapes
<1> QED
  BY <1>2, <1>3, <1>4, <1>6, <1>7, <1>8 DEF Inv

\* The line that begins a block.
LEMMA BlockLinePreserves ==
  ASSUME Inv, BlockLine
  PROVE  Inv'
<1>1. PICK l \in Lines :
        /\ in_rules /\ Seen(l) = "block" /\ Read(l)
        /\ rules' = Finished
        /\ block' = {[event |-> l.of.event, effect |-> l.of.effect, predicates |-> {}]}
        /\ UNCHANGED <<in_rules, gates, diagnostics>>
  BY Zenon DEF BlockLine, NewPredicates
<1>2. l.form = "plain" /\ l.kind = "block"
  BY <1>1, LineTypes DEF Seen
<1>3. [event |-> l.of.event, effect |-> l.of.effect, predicates |-> {}] \in Rule
  BY <1>2, LineTypes DEF Rule
<1>4. TypeOK' /\ Single'
  BY <1>1, <1>3, ReadTypes, FinishedIsRules DEF Inv, TypeOK
<1>5. Sectioned'
  BY <1>1, ReadSections
<1>6. Gated'
  BY <1>1, ReadGates
<1>7. Owned'
  BY <1>1, <1>2, ReadOwns
<1>8. Faithful'
  BY <1>1, <1>2, FaithfulBlock
<1>9. Shaped'
  BY <1>1, ReadShapes
<1> QED
  BY <1>4, <1>5, <1>6, <1>7, <1>8, <1>9 DEF Inv

\* A condition of the block that is open.
LEMMA PredicateLinePreserves ==
  ASSUME Inv, PredicateLine
  PROVE  Inv'
<1>1. PICK l \in Lines :
        /\ in_rules /\ block # {} /\ Seen(l) \in {"filter", "compound"} /\ Read(l)
        /\ block' = {[b EXCEPT !.predicates = @ \cup {l.of}] : b \in block}
        /\ UNCHANGED <<in_rules, rules, gates, diagnostics>>
  BY Zenon DEF PredicateLine
<1>2. l.form = "plain" /\ l.kind \in Nested
  BY <1>1, LineTypes DEF Seen, Nested
<1>3. PICK r \in Rule : block = {r}
  BY <1>1 DEF Inv, Single
<1>4. [r EXCEPT !.predicates = @ \cup {l.of}] \in Rule
  BY <1>2, LineTypes DEF Rule
<1>5. block' = {[r EXCEPT !.predicates = @ \cup {l.of}]}
  BY <1>1, <1>3
<1>6. TypeOK' /\ Single'
  BY <1>1, <1>4, <1>5, ReadTypes DEF Inv, TypeOK
<1>7. Sectioned'
  BY <1>1, ReadSections
<1>8. Gated'
  BY <1>1, ReadGates
<1>9. Owned'
  BY <1>1, <1>2, ReadOwns
<1>10. Faithful'
  BY <1>1, <1>2, FaithfulPredicate
<1>11. Shaped'
  BY <1>1, ReadShapes
<1> QED
  BY <1>6, <1>7, <1>8, <1>9, <1>10, <1>11 DEF Inv

\* The last block is closed at the end of the dump.
LEMMA ReturnPreserves ==
  ASSUME Inv, Return
  PROVE  Inv'
<1>1. /\ ~done /\ done' = TRUE /\ rules' = Finished /\ block' = {}
      /\ UNCHANGED <<text, in_rules, gates, diagnostics>>
  BY DEF Return
<1>2. TypeOK'
  BY <1>1, FinishedIsRules, FS_EmptySet DEF Inv, TypeOK
<1>3. Single' /\ Shaped' /\ Sectioned' /\ Gated' /\ Owned'
  BY <1>1 DEF Inv, Single, Shaped, Sectioned, Gated, Owned, Framed
<1>4. BlockLines' = BlockLines /\ \A n \in BlockLines : RuleOf(n)' = RuleOf(n) /\ (Latest(n)' <=> Latest(n))
  BY <1>1 DEF BlockLines, RuleOf, Conditions, Latest
<1>5. Faithful'
  <2> SUFFICES ASSUME Framed, diagnostics = {}
               PROVE  {rules'[i] : i \in DOMAIN rules'} = {RuleOf(n) : n \in BlockLines}
    BY <1>1, <1>4 DEF Faithful, Framed
  <2>1. /\ {rules[i] : i \in DOMAIN rules} = {RuleOf(n) : n \in {m \in BlockLines : ~Latest(m)}}
        /\ block = {RuleOf(n) : n \in {m \in BlockLines : Latest(m)}}
    BY <1>1 DEF Inv, Faithful
  <2> QED
    BY <1>1, <2>1, FinishedIsRules
<1> QED
  BY <1>2, <1>3, <1>5 DEF Inv

\* Every step preserves the invariant.
LEMMA NextInv ==
  Inv /\ [Next]_vars => Inv'
<1> SUFFICES ASSUME Inv, [Next]_vars PROVE Inv'
  OBVIOUS
<1>1. CASE VersionLine
  BY <1>1, VersionLinePreserves
<1>2. CASE NetworkLine
  BY <1>2, NetworkLinePreserves
<1>3. CASE GarbledNetworkLine
  BY <1>3, DiagnosePreserves DEF GarbledNetworkLine
<1>4. CASE NoRulesLine
  BY <1>4, NoRulesLinePreserves
<1>5. CASE SkippedLine
  BY <1>5, SkippedLinePreserves
<1>6. CASE BlockLine
  BY <1>6, BlockLinePreserves
<1>7. CASE PredicateLine
  BY <1>7, PredicateLinePreserves
<1>8. CASE UnrecognisedLine
  BY <1>8, DiagnosePreserves DEF UnrecognisedLine
<1>9. CASE Return
  BY <1>9, ReturnPreserves
<1>10. CASE UNCHANGED vars
  <2> USE <1>10 DEF vars
  <2>1. TypeOK' /\ Single'
    BY DEF Inv, TypeOK, Single
  <2>2. Shaped' /\ Sectioned' /\ Gated' /\ Owned'
    BY DEF Inv, Shaped, Sectioned, Gated, Owned, Framed
  <2>3. Faithful' = Faithful
    BY DEF Faithful, Framed, BlockLines, Latest, RuleOf, Conditions
  <2> QED
    BY <2>1, <2>2, <2>3 DEF Inv
<1> QED
  BY <1>1, <1>2, <1>3, <1>4, <1>5, <1>6, <1>7, <1>8, <1>9, <1>10 DEF Next

\* For dumps of any length the rules are well-formed blocks, one of them is open at most
\* and the diagnostics name lines; whose conditions a block has is not said here.
THEOREM TypeCorrect ==
  Spec => []TypeOK
<1>1. Inv => TypeOK
  BY Zenon DEF Inv
<1> QED
  BY <1>1, InitInv, NextInv, PTL DEF Spec

-----------------------------------------------------------------------------
(* What the verdicts are worth.                                            *)

\* The state of network connections is known if they are disabled, or nothing was diagnosed.
LEMMA NetworkState ==
  ASSUME Inv, done, Framed, NEW t \in EventTypes
  PROVE  /\ Disabled(parsed, t) => ~Enabled(t)
         /\ ~Disabled(parsed, t) /\ (gates # <<>> \/ diagnostics = {}) => Enabled(t)
         /\ gates = <<>> => ~Disabled(parsed, t)
<1>1. /\ text \in Seq(Lines) /\ gates \in Seq(BOOLEAN)
      /\ parsed.gates = gates
  BY DEF Inv, TypeOK, parsed
<1>2. gates = IF text # <<>> /\ text[1].form = "plain" THEN <<text[1].of>> ELSE <<>>
  BY DEF Inv, Gated
<1>3. \A n \in DOMAIN text : text[n].kind = "network" <=> n = 1
  BY DEF Inv, Shaped
<1>4. text # <<>> /\ diagnostics = {} => text[1].form = "plain"
  BY <1>1 DEF Inv, Owned
<1>5. ASSUME t = "NetworkConnect", text # <<>> PROVE Enabled(t) <=> text[1].of
  BY <1>1, <1>3, <1>5 DEF Enabled
<1>6. ASSUME t = "NetworkConnect", gates # <<>> PROVE Disabled(parsed, t) <=> ~text[1].of
  BY <1>1, <1>2, <1>6 DEF Disabled
<1>7. gates # <<>> => text # <<>>
  BY <1>2
<1>8. text = <<>> \/ t # "NetworkConnect" => Enabled(t)
  BY DEF Enabled
<1>9. t # "NetworkConnect" \/ gates = <<>> => ~Disabled(parsed, t)
  BY <1>1 DEF Disabled
<1>10. text # <<>> /\ diagnostics = {} => gates # <<>>
  BY <1>2, <1>4
<1> QED
  BY <1>5, <1>6, <1>7, <1>8, <1>9, <1>10, Zenon

\* Without a diagnostic, the rules of an event type and effect are its blocks.
LEMMA MatchingBlocks ==
  ASSUME Inv, done, Framed, diagnostics = {}, NEW t \in EventTypes, NEW e \in Effects
  PROVE  Matching(parsed, t, e) = {RuleOf(n) : n \in Blocks(t, e)}
<1>1. {rules[i] : i \in DOMAIN rules} = {RuleOf(n) : n \in BlockLines}
  BY DEF Inv, Faithful
<1>2. parsed.rules = rules
  BY DEF parsed
<1>3. Matching(parsed, t, e) = {r \in {rules[i] : i \in DOMAIN rules} : r.event = t /\ r.effect = e}
  BY <1>2 DEF Matching
<1>4. ASSUME NEW n \in BlockLines
      PROVE  text[n].of = [event |-> t, effect |-> e] <=> RuleOf(n).event = t /\ RuleOf(n).effect = e
  <2>1. text[n] \in Lines /\ text[n].kind = "block"
    BY DEF BlockLines, Inv, TypeOK
  <2>2. text[n].of \in [event : EventTypes, effect : Effects]
    BY <2>1, LineTypes
  <2> QED
    BY <2>2 DEF RuleOf
<1>5. Blocks(t, e) = {n \in BlockLines : text[n].of = [event |-> t, effect |-> e]}
  BY DEF Blocks, BlockLines
<1> QED
  BY <1>1, <1>3, <1>4, <1>5

\* The conditions of a block are fields, or stand for a compound rule.
LEMMA ConditionTypes ==
  ASSUME Inv, NEW n \in BlockLines
  PROVE  Conditions(n) \subseteq Fields \cup {"-"}
<1>1. text \in Seq(Lines) /\ n \in 1 .. Len(text)
  BY DEF Inv, TypeOK, BlockLines
<1>2. \A k \in n + 1 .. Len(text) : text[k].kind \in Nested => text[k].of \in Fields \cup {"-"}
  BY <1>1, LineTypes
<1>3. \A k \in n + 1 .. Len(text) :
        (\A j \in n + 1 .. k : text[j].kind \in {"filter", "compound"}) => text[k].kind \in Nested
  BY <1>1 DEF Nested
<1> QED
  BY <1>2, <1>3 DEF Conditions

\* Nothing matches without facts, or a block without conditions; every block with a
\* condition matches an event of all facts.
LEMMA MatchingFacts ==
  ASSUME Inv, NEW n \in BlockLines, NEW combine \in {"And", "Or"}
  PROVE  /\ ~Matches(n, {}, combine)
         /\ Conditions(n) = {} => \A facts : ~Matches(n, facts, combine)
         /\ Conditions(n) # {} => Matches(n, Fields \cup {"-"}, combine)
  BY ConditionTypes DEF Matches

\* Whatever was parsed without a diagnostic is judged as the configuration is.
LEMMA EveryVerdictIsRight ==
  ASSUME Inv, done, Framed, NEW t \in EventTypes
  PROVE  Right(t)
<1> DEFINE verdict  == evaluate_event_type(parsed, t)
           includes == Matching(parsed, t, "include")
           excludes == Matching(parsed, t, "exclude")
<1> SUFFICES ASSUME NEW combine \in {"And", "Or"}
             PROVE  /\ verdict = "covered" => LogsEvery(t, combine)
                    /\ verdict = "degraded" => ~LogsEvery(t, combine)
                    /\ verdict = "not_covered" => LogsNone(t, combine)
  BY DEF Right
<1>1. CASE Disabled(parsed, t)
  <2>1. verdict = "not_covered"
    BY <1>1 DEF evaluate_event_type
  <2>2. ~Enabled(t)
    BY <1>1, NetworkState
  <2> QED
    BY <2>1, <2>2 DEF LogsNone, Logs
<1>2. CASE ~Disabled(parsed, t) /\ diagnostics # {}
  <2>1. parsed.determinacy = "unknown"
    BY <1>2 DEF parsed
  <2>2. verdict = "indeterminate"
    BY <1>2, <2>1 DEF evaluate_event_type
  <2> QED
    BY <2>2
<1>3. CASE ~Disabled(parsed, t) /\ diagnostics = {}
  <2>1. /\ includes = {RuleOf(n) : n \in Blocks(t, "include")}
        /\ excludes = {RuleOf(n) : n \in Blocks(t, "exclude")}
    BY <1>3, MatchingBlocks DEF Effects
  <2>2. Enabled(t)
    BY <1>3, NetworkState
  <2>3. \A n : RuleOf(n).predicates = Conditions(n)
    BY DEF RuleOf
  <2>4. Blocks(t, "include") \subseteq BlockLines /\ Blocks(t, "exclude") \subseteq BlockLines
    BY DEF Blocks, BlockLines
  <2>5. /\ includes = {} <=> Blocks(t, "include") = {}
        /\ Filtered(includes) <=> \E n \in Blocks(t, "include") : Conditions(n) # {}
        /\ Filtered(excludes) <=> \E n \in Blocks(t, "exclude") : Conditions(n) # {}
    BY <2>1, <2>3 DEF Filtered
  <2>6. parsed.determinacy = "effective"
    BY <1>3 DEF parsed
  <2>7. verdict = IF includes # {} /\ ~Filtered(includes) THEN "not_covered"
                  ELSE IF includes # {} \/ Filtered(excludes) THEN "degraded" ELSE "covered"
    BY <1>3, <2>6 DEF evaluate_event_type
  <2> HIDE DEF includes, excludes, verdict
  <2>8. ASSUME verdict = "covered" PROVE LogsEvery(t, combine)
    <3>1. includes = {} /\ ~Filtered(excludes)
      BY <2>7, <2>8
    <3>2. \A n \in Blocks(t, "exclude") : \A facts : ~Matches(n, facts, combine)
      BY <2>4, <2>5, <3>1, MatchingFacts
    <3> QED
      BY <2>2, <2>5, <3>1, <3>2 DEF LogsEvery, Logs
  <2>9. ASSUME verdict = "degraded" PROVE ~LogsEvery(t, combine)
    <3>1. includes # {} \/ Filtered(excludes)
      BY <2>7, <2>9
    <3>2. CASE includes # {}
      <4>1. ~Logs(t, {}, combine)
        BY <2>4, <2>5, <3>2, MatchingFacts DEF Logs
      <4> QED
        BY <4>1 DEF LogsEvery
    <3>3. CASE Filtered(excludes)
      <4>1. ~Logs(t, Fields \cup {"-"}, combine)
        BY <2>4, <2>5, <3>3, MatchingFacts DEF Logs
      <4> QED
        BY <4>1 DEF LogsEvery
    <3> QED
      BY <3>1, <3>2, <3>3
  <2>10. ASSUME verdict = "not_covered" PROVE LogsNone(t, combine)
    <3>1. includes # {} /\ ~Filtered(includes)
      BY <2>7, <2>10
    <3>2. \A n \in Blocks(t, "include") : \A facts : ~Matches(n, facts, combine)
      BY <2>4, <2>5, <3>1, MatchingFacts
    <3> QED
      BY <2>5, <3>1, <3>2 DEF LogsNone, Logs
  <2> QED
    BY <2>8, <2>9, <2>10
<1> QED
  BY <1>1, <1>2, <1>3

\* Whatever the configuration, its blocks and their conditions: a verdict on a whole dump
\* whose frame is understood is right about what is logged.
THEOREM VerdictIsRightHolds ==
  Spec => []VerdictIsRight
<1>1. Inv => VerdictIsRight
  BY EveryVerdictIsRight DEF VerdictIsRight
<1> QED
  BY <1>1, InitInv, NextInv, PTL DEF Spec

\* A line of the rule section that was not understood leaves no verdict but the one that
\* network connections are switched off.
THEOREM DriftIsOwnedHolds ==
  Spec => []DriftIsOwned
<1>1. Inv => DriftIsOwned
  <2> SUFFICES ASSUME Inv, done, Framed, NEW t \in EventTypes, NEW n \in DOMAIN text,
                      text[n].kind \in {"block", "filter", "compound"}, text[n].form = "changed"
               PROVE  evaluate_event_type(parsed, t)
                        = IF Enabled(t) \/ gates = <<>> THEN "indeterminate" ELSE "not_covered"
    BY DEF DriftIsOwned
  <2>1. n # 2
    BY DEF Inv, Shaped
  <2>2. n \in diagnostics
    BY <2>1 DEF Inv, Owned
  <2>3. parsed.determinacy = "unknown"
    BY <2>2 DEF parsed
  <2>4. evaluate_event_type(parsed, t) = IF Disabled(parsed, t) THEN "not_covered" ELSE "indeterminate"
    BY <2>3 DEF evaluate_event_type
  <2>5. Disabled(parsed, t) <=> ~(Enabled(t) \/ gates = <<>>)
    BY NetworkState
  <2> QED
    BY <2>4, <2>5
<1> QED
  BY <1>1, InitInv, NextInv, PTL DEF Spec

=============================================================================
