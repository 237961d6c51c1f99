----------------------- MODULE AuditdEvaluate_proofs -----------------------
(***************************************************************************)
(* The verdicts on process creation are sound for every rule list, every   *)
(* numbering of the syscalls and every event.                              *)
(***************************************************************************)
EXTENDS AuditdEvaluate, WellFoundedInduction, TLAPS

NatLess == {ss \in Nat \X Nat : ss[1] < ss[2]}

\* The order by which a first rule is found.
LEMMA NatLessWellFounded == IsWellFoundedOn(NatLess, Nat)
  BY NatLessThanWellFounded DEF OpToRel, NatLess

\* The first rule of a nonempty set of rules exists.
LEMMA LeastOf ==
  ASSUME NEW T \in SUBSET Nat, T # {}
  PROVE  \E m \in T : \A n \in T : m <= n
<1>1. PICK m \in T : \A n \in T : <<n, m>> \notin NatLess
  BY NatLessWellFounded, WFMin, Zenon
<1>2. \A n \in T : ~(n < m)
  BY <1>1 DEF NatLess
<1> QED
  BY <1>2

-----------------------------------------------------------------------------
(* Suppression: unless a never,task or never,exclude rule is loaded, no    *)
(* event is suppressed before or after the exit list.                      *)

\* Without never,task and never,exclude rules nothing is suppressed.
LEMMA NoSuppressionNoSuppressed ==
  ASSUME NEW rules, Suppression(rules) = "none", NEW e
  PROVE  ~Suppressed(rules, e)
<1>1. {i \in DOMAIN rules : IsOn(rules[i], "exclude", "task")} = {}
  BY DEF Suppression
<1>2. ~\E i \in DOMAIN rules : IsOn(rules[i], "exclude", "exclude")
  BY <1>1 DEF Suppression
<1> QED
  BY <1>1, <1>2 DEF Suppressed

\* A rule whose predicates all are keys matches whatever is true of the event.
LEMMA UnconditionalHolds ==
  ASSUME NEW r, Unconditional(r), NEW e
  PROVE  HoldAll(r, e)
  BY DEF Unconditional, HoldAll, Holds

\* A never,task rule without a condition suppresses every event.
LEMMA UnconditionalSuppresses ==
  ASSUME NEW rules, Suppression(rules) = "not_covered", NEW e
  PROVE  Suppressed(rules, e)
<1>1. PICK i \in DOMAIN rules : IsOn(rules[i], "exclude", "task") /\ Unconditional(rules[i])
  BY DEF Suppression
<1> QED
  BY <1>1, UnconditionalHolds DEF Suppressed

-----------------------------------------------------------------------------
(* The exit list.                                                          *)

\* A candidate selects the syscalls it is taken to select, in the ABI its names are
\* looked up in.
LEMMA SelectedIsSelected ==
  ASSUME NEW r, NEW e, e.syscall \in SelectedSyscalls(r), e.arch \in LookedUpIn(r)
  PROVE  Selects(r, e)
<1>1. CASE "all" \in r.syscalls
  BY <1>1 DEF Selects
<1>2. CASE e.syscall \in r.syscalls \cap TargetSyscalls
  <2>1. e.syscall \in r.syscalls \cap Calls
    BY <1>2, NumberAssumption
  <2>2. Number[e.arch][e.syscall] \in NumbersOf(r)
    BY <2>1 DEF NumbersOf
  <2> QED
    BY <2>2 DEF Selects
<1> QED
  BY <1>1, <1>2 DEF SelectedSyscalls

\* Whether a rule selects a call does not depend on what else is true of it.
LEMMA SelectsByCall ==
  ASSUME NEW r, NEW arch, NEW syscall, NEW facts, NEW others
  PROVE  Selects(r, Event(arch, syscall, facts)) <=> Selects(r, Event(arch, syscall, others))
<1>1. \A f : Event(arch, syscall, f).arch = arch /\ Event(arch, syscall, f).syscall = syscall
  BY DEF Event
<1> QED
  BY <1>1 DEF Selects

\* Nor does whether it is for the ABI of the call.
LEMMA ArchHoldsByCall ==
  ASSUME NEW r, NEW arch, NEW syscall, NEW facts, HoldAll(r, Event(arch, syscall, facts)),
         NEW others, NEW p \in r.predicates, p.field = "arch"
  PROVE  Holds(p, Event(arch, syscall, others))
<1>1. Holds(p, Event(arch, syscall, facts))
  BY DEF HoldAll
<1>2. Event(arch, syscall, facts).arch = arch /\ Event(arch, syscall, others).arch = arch
  BY DEF Event
<1> QED
  BY <1>1, <1>2 DEF Holds

\* A rule that selects no exec call it does not name selects only those it names.
LEMMA MatchedIsNamed ==
  ASSUME NEW r, ~SelectsUnnamed(r), NEW arch \in Arches, NEW syscall \in TargetSyscalls, NEW facts,
         Selects(r, Event(arch, syscall, facts)), HoldAll(r, Event(arch, syscall, facts))
  PROVE  r.syscalls = {} \/ r.syscalls \cap {"all", syscall} # {}
<1>1. Selects(r, Event(arch, syscall, {}))
  BY SelectsByCall
<1>2. \A p \in r.predicates : p.field = "arch" => Holds(p, Event(arch, syscall, {}))
  BY ArchHoldsByCall
<1> QED
  BY <1>1, <1>2 DEF SelectsUnnamed

\* A never,exit rule that selects no call it does not name and that ExitRuleSuppresses
\* passes over does not match the call: it selects other calls or is for another ABI.
LEMMA NotSuppressingDoesNotMatch ==
  ASSUME NEW r, NEW arch \in Arches, NEW syscall \in TargetSyscalls, NEW facts,
         r.effect = "exclude" /\ r.scope = "exit" => ~SelectsUnnamed(r),
         ~ExitRuleSuppresses(r, arch, syscall)
  PROVE  ~ExitMatches(r, "exclude", Event(arch, syscall, facts))
<1> DEFINE e == Event(arch, syscall, facts)
<1> SUFFICES ASSUME ExitMatches(r, "exclude", e) PROVE FALSE
  OBVIOUS
<1>1. e.arch = arch
  BY DEF Event
<1>2. IsOn(r, "exclude", "exit") /\ Selects(r, e) /\ HoldAll(r, e)
  BY DEF ExitMatches
<1>3. r.syscalls = {} \/ r.syscalls \cap {"all", syscall} # {}
  BY <1>2, MatchedIsNamed DEF IsOn
<1>4. ArchesOf(r) # {} /\ arch \notin ArchesOf(r)
  BY <1>2, <1>3 DEF ExitRuleSuppresses
<1>5. PICK p \in r.predicates : p.field = "arch" /\ p.op = "eq" /\ p.value # arch
  BY <1>4 DEF ArchesOf, PredicatesOn
<1>6. Holds(p, e)
  BY <1>2, <1>5 DEF HoldAll
<1> QED
  BY <1>1, <1>5, <1>6 DEF Holds

\* The names in a rule are looked up in the ABI its arch predicates ask for, if it has
\* any, and else in the native one.
LEMMA LookedUpInArch ==
  ASSUME NEW r, NEW arch \in Arches, PredicatesOn(r, "arch") = {} => arch = Native,
         \A p \in PredicatesOn(r, "arch") : p.op = "eq" /\ p.value = arch
  PROVE  arch \in LookedUpIn(r)
  BY DEF LookedUpIn, PredicatesOn

\* An unrestricted candidate matches every exec call it selects, provided its only
\* arch predicate, if it has one, asks for that call's ABI, and the call is of the native
\* ABI if it has none.
LEMMA CandidateMatches ==
  ASSUME NEW rules, NEW i \in Candidates(rules), NEW arch \in Arches, NEW syscall, NEW facts,
         ~Restrictive(rules[i]),
         syscall \in SelectedSyscalls(rules[i]),
         PredicatesOn(rules[i], "arch") = {} => arch = Native,
         \A p \in PredicatesOn(rules[i], "arch") : p.op = "eq" /\ p.value = arch
  PROVE  ExitMatches(rules[i], "include", Event(arch, syscall, facts))
<1> DEFINE e == Event(arch, syscall, facts)
<1>1. e.arch = arch /\ e.syscall = syscall
  BY DEF Event
<1>2. IsOn(rules[i], "include", "exit")
  BY DEF Candidates, Includes
<1>3. Selects(rules[i], e)
  BY <1>1, SelectedIsSelected, LookedUpInArch
<1>4. ASSUME NEW p \in rules[i].predicates PROVE Holds(p, e)
  <2>1. p.field \in {"arch", "key"}
    BY <1>4 DEF Restrictive, _NON_NARROWING_FIELDS
  <2>2. CASE p.field = "key"
    BY <2>2 DEF Holds
  <2>3. CASE p.field = "arch"
    <3>1. p.op = "eq" /\ p.value = arch
      BY <1>4, <2>3 DEF PredicatesOn
    <3> QED
      BY <1>1, <2>3, <3>1 DEF Holds
  <2> QED
    BY <2>1, <2>2, <2>3
<1> QED
  BY <1>2, <1>3, <1>4 DEF ExitMatches, HoldAll

\* With one arch predicate to a rule, a covering rule's predicate asks for the ABI.
LEMMA CoveringAsksForArch ==
  ASSUME NEW rules, NEW machine_arch, Interpreted(rules, machine_arch), NEW arch, NEW syscall, NEW i \in Covering(rules, arch, syscall)
  PROVE  /\ PredicatesOn(rules[i], "arch") # {}
         /\ \A p \in PredicatesOn(rules[i], "arch") : p.op = "eq" /\ p.value = arch
<1>1. i \in DOMAIN rules /\ arch \in ArchesOf(rules[i])
  BY DEF Covering, Candidates, Includes
<1>2. PICK q \in PredicatesOn(rules[i], "arch") : q.op = "eq" /\ q.value = arch
  BY <1>1 DEF ArchesOf
<1>3. \A p \in PredicatesOn(rules[i], "arch") : p = q
  BY <1>1 DEF Interpreted
<1> QED
  BY <1>2, <1>3

\* x86-64: the first rule that covers a call decides about it.
LEMMA CoveredEmitsOnX86 ==
  ASSUME NEW rules \in Seq(Rule), NEW machine_arch \in X86, ABIsOf(machine_arch), Interpreted(rules, machine_arch),
         EvaluateX86(rules) = "covered", Suppression(rules) = "none",
         NEW arch \in Arches, NEW syscall \in TargetSyscalls, NEW facts
  PROVE  Emits(rules, Event(arch, syscall, facts))
<1> DEFINE e == Event(arch, syscall, facts)
           C == Covering(rules, arch, syscall)
<1>1. C # {} /\ ~Preempted(rules, arch, syscall)
  BY DEF ABIsOf, EvaluateX86
<1>2. C \subseteq DOMAIN rules /\ DOMAIN rules \subseteq Nat
  BY DEF Covering, Candidates, Includes
<1>3. PICK m \in C : \A n \in C : m <= n
  BY <1>1, <1>2, LeastOf
<1>4. ExitMatches(rules[m], "include", e)
  <2>1. m \in Candidates(rules) /\ ~Restrictive(rules[m]) /\ syscall \in SelectedSyscalls(rules[m])
    BY DEF Covering
  <2>2. /\ PredicatesOn(rules[m], "arch") # {}
        /\ \A p \in PredicatesOn(rules[m], "arch") : p.op = "eq" /\ p.value = arch
    BY CoveringAsksForArch
  <2> QED
    BY <2>1, <2>2, CandidateMatches
<1>5. ASSUME NEW j \in 1 .. m - 1 PROVE ~ExitMatches(rules[j], "exclude", e)
  <2>1. j \in DOMAIN rules /\ \A i \in C : j < i
    BY <1>2, <1>3
  <2>2. ~ExitRuleSuppresses(rules[j], arch, syscall)
    BY <1>1, <2>1 DEF Preempted
  <2>3. rules[j].effect = "exclude" /\ rules[j].scope = "exit" => ~SelectsUnnamed(rules[j])
    BY <2>1 DEF Interpreted, NeverExit, IsOn
  <2> QED
    BY <2>2, <2>3, NotSuppressingDoesNotMatch
<1> QED
  BY <1>2, <1>3, <1>4, <1>5, NoSuppressionNoSuppressed DEF Emits

\* Elsewhere, without a never,exit rule, any broad candidate decides about the native ABI.
LEMMA CoveredEmitsOffX86 ==
  ASSUME NEW rules \in Seq(Rule), NeverExit(rules) = {},
         EvaluateOtherArch(rules) = "covered", Suppression(rules) = "none",
         NEW syscall \in TargetSyscalls, NEW facts
  PROVE  Emits(rules, Event(Native, syscall, facts))
<1> DEFINE e == Event(Native, syscall, facts)
<1>1. /\ \A i \in Candidates(rules) : PredicatesOn(rules[i], "arch") = {}
      /\ syscall \in Broad(rules)
  BY DEF EvaluateOtherArch
<1>2. PICK i \in Candidates(rules) :
        ~Restrictive(rules[i]) /\ syscall \in SelectedSyscalls(rules[i])
  BY <1>1 DEF Broad
<1>3. ExitMatches(rules[i], "include", e)
  BY <1>1, <1>2, CandidateMatches, NativeAssumption
<1>4. i \in DOMAIN rules /\ \A j \in 1 .. i - 1 : j \in DOMAIN rules
  BY <1>2 DEF Candidates, Includes
<1>5. \A j \in 1 .. i - 1 : ~ExitMatches(rules[j], "exclude", e)
  BY <1>4 DEF NeverExit, ExitMatches
<1> QED
  BY <1>3, <1>4, <1>5, NoSuppressionNoSuppressed DEF Emits

\* Which tests a COVERED verdict has passed.
LEMMA CoveredCases ==
  ASSUME NEW parsed, NEW machine_arch, NEW rules, rules = parsed.rules,
         EvaluateProcessCreation(parsed, machine_arch) = "covered"
  PROVE  /\ Suppression(rules) = "none"
         /\ \/ machine_arch \in X86 /\ EvaluateX86(rules) = "covered"
            \/ machine_arch \notin X86 /\ EvaluateOtherArch(rules) = "covered"
<1>1. Suppression(rules) # "covered"
  BY DEF Suppression
<1> QED
  BY <1>1 DEF EvaluateProcessCreation

\* COVERED is sound: whatever the rules, in whatever order and number, the kernel
\* emits every exec call of every ABI on x86-64, and of the native one elsewhere
\* (evaluate_process_creation).
THEOREM CoveredEmitsEvery ==
  ASSUME NEW parsed, parsed.rules \in Seq(Rule), NEW machine_arch, ABIsOf(machine_arch),
         Interpreted(parsed.rules, machine_arch),
         EvaluateProcessCreation(parsed, machine_arch) = "covered"
  PROVE  EmitsEvery(parsed.rules, Established(machine_arch))
<1> SUFFICES ASSUME NEW arch \in Established(machine_arch), NEW syscall \in TargetSyscalls, NEW facts \in SUBSET Facts
             PROVE  Emits(parsed.rules, Event(arch, syscall, facts))
  BY DEF EmitsEvery
<1>1. CASE machine_arch \in X86
  BY <1>1, CoveredCases, CoveredEmitsOnX86 DEF Established
<1>2. CASE machine_arch \notin X86
  <2>1. NeverExit(parsed.rules) = {}
    BY <1>2 DEF Interpreted
  <2>2. arch = Native
    BY <1>2 DEF Established
  <2> QED
    BY <1>2, <2>1, <2>2, CoveredCases, CoveredEmitsOffX86
<1> QED
  BY <1>1, <1>2

-----------------------------------------------------------------------------
(* NOT_COVERED.                                                            *)

\* Without a candidate, and without a rule that is all numbers, no include rule
\* matches an exec of which nothing particular is true.
LEMMA NoCandidateNoMatch ==
  ASSUME NEW rules, ListedAsPrinted(rules), Candidates(rules) = {}, ~OnlyNumeric(rules),
         NEW arch \in Arches, NEW syscall \in TargetSyscalls, NEW i \in DOMAIN rules
  PROVE  ~ExitMatches(rules[i], "include", Event(arch, syscall, {}))
<1> DEFINE e == Event(arch, syscall, {})
<1>1. e.facts = {}
  BY DEF Event
<1> SUFFICES ASSUME ExitMatches(rules[i], "include", e) PROVE FALSE
  OBVIOUS
<1>2. i \in Includes(rules) /\ Selects(rules[i], e) /\ HoldAll(rules[i], e)
  BY DEF ExitMatches, Includes
<1>3. SelectedSyscalls(rules[i]) = {}
  BY <1>2 DEF Candidates
<1>4. rules[i].syscalls \cap {"all", syscall} = {}
  BY <1>3 DEF SelectedSyscalls, TargetSyscalls
<1>5. CASE rules[i].syscalls = {}
  <2>1. PICK p \in rules[i].predicates : p.field \notin _NON_NARROWING_FIELDS
    BY <1>2, <1>5 DEF ListedAsPrinted
  <2> QED
    BY <1>1, <1>2, <2>1 DEF HoldAll, Holds, _NON_NARROWING_FIELDS
<1>6. CASE rules[i].syscalls # {}
  <2>1. SelectsUnnamed(rules[i])
    BY <1>2, <1>4, <1>6, MatchedIsNamed
  <2>2. rules[i].syscalls \subseteq Numerals
    BY <1>2, <2>1 DEF ListedAsPrinted
  <2> QED
    BY <1>2, <1>6, <2>2 DEF OnlyNumeric
<1> QED
  BY <1>5, <1>6

\* NOT_COVERED is sound: no exec without something particular about it is emitted.
THEOREM NotCoveredEmitsNone ==
  ASSUME NEW parsed, NEW machine_arch, ListedAsPrinted(parsed.rules),
         EvaluateProcessCreation(parsed, machine_arch) = "not_covered"
  PROVE  EmitsNoneInGeneral(parsed.rules)
<1> DEFINE rules == parsed.rules
<1> SUFFICES ASSUME NEW arch \in Arches, NEW syscall \in TargetSyscalls
             PROVE  ~Emits(rules, Event(arch, syscall, {}))
  BY DEF EmitsNoneInGeneral
<1>1. CASE Candidates(rules) = {}
  <2>1. ~OnlyNumeric(rules)
    BY <1>1 DEF EvaluateProcessCreation
  <2> QED
    BY <1>1, <2>1, NoCandidateNoMatch DEF Emits
<1>2. CASE Candidates(rules) # {}
  <2>1. EvaluateX86(rules) # "not_covered" /\ EvaluateOtherArch(rules) # "not_covered"
    BY DEF EvaluateX86, EvaluateOtherArch
  <2>2. Suppression(rules) = "not_covered"
    BY <1>2, <2>1 DEF EvaluateProcessCreation
  <2> QED
    BY <2>2, UnconditionalSuppresses DEF Emits
<1> QED
  BY <1>1, <1>2

-----------------------------------------------------------------------------
(* File events.                                                            *)

\* _suppression says NOT_COVERED exactly when no task has an audit context.
LEMMA NoContextIsSuppression ==
  ASSUME NEW rules
  PROVE  NoContext(rules) <=> Suppression(rules) = "not_covered"
  BY DEF NoContext, Suppression, Unconditional

\* Of a file event hold the predicates on its path and its access, and of the facts
\* those about other things.
LEMMA FileEventHolds ==
  ASSUME NEW path, NEW access, NEW arch, NEW call, NEW facts, NEW p,
         p.field \notin {"key", "arch"}
  PROVE  Holds(p, FileEvent(path, access, arch, call, facts)) <=>
           \/ p \in facts /\ p.field \notin {"path", "dir", "perm"}
           \/ p \in Predicate /\ (Targets(p, path) \/ Grants(p, access))
  BY DEF Holds, FileEvent, Event

\* What evaluate_file_watch collects is the path of a rule for both permissions.
LEMMA TargetHasRule ==
  ASSUME NEW rules, NEW p \in WatchTargets(rules)
  PROVE  \E i \in DOMAIN rules :
           /\ rules[i].effect = "include"
           /\ p \in rules[i].predicates /\ p.field \in {"path", "dir"}
           /\ \E q \in rules[i].predicates : q.field = "perm" /\ Grants(q, "w") /\ Grants(q, "a")
  BY DEF WatchTargets, PredicatesOn, WritesAndAttributes

\* A watch as auditctl prints it matches the accesses to its path that it permits.
LEMMA WatchMatches ==
  ASSUME NEW rules \in Seq(Rule), WatchesAsPrinted(rules), NEW i \in DOMAIN rules,
         rules[i].effect = "include",
         NEW p \in rules[i].predicates, p.field \in {"path", "dir"},
         NEW q \in rules[i].predicates, NEW access, Grants(q, access)
  PROVE  \E arch \in Arches, call \in Calls :
           ExitMatches(rules[i], "include", FileEvent(p.value, access, arch, call, rules[i].predicates))
<1>0. rules[i] \in Rule
  OBVIOUS
<1>1. rules[i].predicates \subseteq Predicate
  BY <1>0 DEF Rule
<1>2. q.field = "perm" /\ HasPermission(rules[i])
  BY DEF Grants, HasPermission
<1>3. /\ rules[i].scope = "exit" /\ rules[i].syscalls \subseteq {"all"}
      /\ \E arch \in Arches : \A x \in PredicatesOn(rules[i], "arch") : x.op = "eq" /\ x.value = arch
      /\ \A x, y \in PredicatesOn(rules[i], "path") \cup PredicatesOn(rules[i], "dir") : x = y
      /\ \A x, y \in PredicatesOn(rules[i], "perm") : x = y
  BY <1>2 DEF WatchesAsPrinted
<1>4. PICK arch \in Arches : \A x \in PredicatesOn(rules[i], "arch") : x.op = "eq" /\ x.value = arch
  BY <1>3
<1>5. "execve" \in Calls
  BY NumberAssumption DEF TargetSyscalls
<1> DEFINE e == FileEvent(p.value, access, arch, "execve", rules[i].predicates)
<1>6. e.arch = arch
  BY DEF FileEvent, Event
<1>7. ASSUME NEW x \in rules[i].predicates PROVE Holds(x, e)
  <2>1. CASE x.field = "key"
    BY <2>1 DEF Holds
  <2>2. CASE x.field = "arch"
    <3>1. x.op = "eq" /\ x.value = arch
      BY <1>4, <2>2 DEF PredicatesOn
    <3> QED
      BY <1>6, <2>2, <3>1 DEF Holds
  <2>3. CASE x.field \in {"path", "dir"}
    <3>1. x = p
      BY <1>3, <2>3 DEF PredicatesOn
    <3>2. Targets(x, p.value) /\ x \in Predicate
      BY <1>1, <3>1 DEF Targets
    <3> QED
      BY <2>3, <3>2, FileEventHolds
  <2>4. CASE x.field = "perm"
    <3>1. x = q
      BY <1>2, <1>3, <2>4 DEF PredicatesOn
    <3> QED
      BY <1>1, <2>4, <3>1, FileEventHolds
  <2>5. CASE x.field \notin {"key", "arch", "path", "dir", "perm"}
    BY <2>5, FileEventHolds
  <2> QED
    BY <2>1, <2>2, <2>3, <2>4, <2>5
<1>8. Selects(rules[i], e)
  BY <1>3 DEF Selects
<1>9. ExitMatches(rules[i], "include", e)
  BY <1>3, <1>7, <1>8 DEF ExitMatches, HoldAll, IsOn
<1> QED
  BY <1>5, <1>9

\* Without never rules, what an always,exit rule matches is emitted.
LEMMA NothingSuppressed ==
  ASSUME NEW rules \in Seq(Rule), ~FileWatchNoted(rules), NEW e, NEW i \in DOMAIN rules,
         ExitMatches(rules[i], "include", e)
  PROVE  Emits(rules, e)
<1>1. Suppression(rules) = "none" /\ NeverExit(rules) = {}
  BY DEF FileWatchNoted
<1>2. \A j \in 1 .. i - 1 : j \in DOMAIN rules
  OBVIOUS
<1>3. \A j \in 1 .. i - 1 : ~ExitMatches(rules[j], "exclude", e)
  BY <1>1, <1>2 DEF NeverExit, ExitMatches
<1> QED
  BY <1>1, <1>3, NoSuppressionNoSuppressed DEF Emits

\* DEGRADED on file_event (evaluate_file_watch): tasks have an audit context, and the
\* kernel emits the writes and the attribute changes of some path, first match among
\* all rules included, unless the verdict notes the never rules that may suppress them.
THEOREM FileWatchDegraded ==
  ASSUME NEW parsed, parsed.rules \in Seq(Rule), WatchesAsPrinted(parsed.rules),
         EvaluateFileWatch(parsed) = "degraded"
  PROVE  /\ ~NoContext(parsed.rules)
         /\ Monitored(parsed.rules) # {} \/ FileWatchNoted(parsed.rules)
<1> DEFINE rules == parsed.rules
<1>1. WatchTargets(rules) # {} /\ Suppression(rules) # "not_covered"
  BY DEF EvaluateFileWatch
<1>2. ~NoContext(rules)
  BY <1>1, NoContextIsSuppression
<1>3. ASSUME ~FileWatchNoted(rules) PROVE Monitored(rules) # {}
  <2>1. PICK p \in WatchTargets(rules) : TRUE
    BY <1>1
  <2>2. PICK i \in DOMAIN rules :
          /\ rules[i].effect = "include"
          /\ p \in rules[i].predicates /\ p.field \in {"path", "dir"}
          /\ \E q \in rules[i].predicates : q.field = "perm" /\ Grants(q, "w") /\ Grants(q, "a")
    BY TargetHasRule
  <2>3. PICK q \in rules[i].predicates : Grants(q, "w") /\ Grants(q, "a")
    BY <2>2
  <2>4. ASSUME NEW access \in {"w", "a"}
        PROVE  \E k \in DOMAIN rules, arch \in Arches, call \in Calls :
                 Emits(rules, FileEvent(p.value, access, arch, call, rules[k].predicates))
    <3>1. PICK arch \in Arches, call \in Calls :
            ExitMatches(rules[i], "include", FileEvent(p.value, access, arch, call, rules[i].predicates))
      BY <2>2, <2>3, WatchMatches
    <3> QED
      BY <1>3, <3>1, NothingSuppressed
  <2>5. p.value \in UNION {Paths(rules[k]) : k \in DOMAIN rules}
    BY <2>2 DEF Paths
  <2> QED
    BY <2>4, <2>5 DEF Monitored
<1> QED
  BY <1>2, <1>3

\* A rule with a permission that matches writes and attribute changes of a path is one
\* that evaluate_file_watch counts.
LEMMA AloneIsTarget ==
  ASSUME NEW rules, NEW i \in DOMAIN rules, WatchesAlone(rules[i])
  PROVE  WatchTargets(rules) # {}
<1>1. PICK path \in Paths(rules[i]) : \A access \in {"w", "a"} :
        \E arch \in Arches, call \in Calls :
          ExitMatches(rules[i], "include", FileEvent(path, access, arch, call, rules[i].predicates))
  BY DEF WatchesAlone
<1>2. PICK q \in rules[i].predicates : q.field = "perm"
  BY DEF WatchesAlone, HasPermission
<1>3. ASSUME NEW access \in {"w", "a"} PROVE Grants(q, access) /\ rules[i].effect = "include"
  <2>1. PICK arch \in Arches, call \in Calls :
          ExitMatches(rules[i], "include", FileEvent(path, access, arch, call, rules[i].predicates))
    BY <1>1
  <2>2. Holds(q, FileEvent(path, access, arch, call, rules[i].predicates))
    BY <2>1 DEF ExitMatches, HoldAll
  <2>3. Targets(q, path) \/ Grants(q, access)
    BY <1>2, <2>2, FileEventHolds
  <2> QED
    BY <1>2, <2>1, <2>3 DEF Targets, ExitMatches, IsOn
<1>4. PICK p \in rules[i].predicates : p.field \in {"path", "dir"}
  BY <1>1 DEF Paths
<1>5. q \in PredicatesOn(rules[i], "perm") /\ WritesAndAttributes(q)
  BY <1>2, <1>3 DEF PredicatesOn, WritesAndAttributes
<1>6. p \in WatchTargets(rules)
  BY <1>3, <1>4, <1>5 DEF WatchTargets
<1> QED
  BY <1>6

\* NOT_COVERED on file_event (evaluate_file_watch): tasks have no audit context, or no
\* single rule with permissions matches both the writes and the attribute changes of a
\* path. Of two rules that share them it says nothing.
THEOREM FileWatchNotCovered ==
  ASSUME NEW parsed, EvaluateFileWatch(parsed) = "not_covered"
  PROVE  NoContext(parsed.rules) \/ \A i \in DOMAIN parsed.rules : ~WatchesAlone(parsed.rules[i])
<1>1. WatchTargets(parsed.rules) = {} \/ Suppression(parsed.rules) = "not_covered"
  BY DEF EvaluateFileWatch
<1> QED
  BY <1>1, AloneIsTarget, NoContextIsSuppression
=============================================================================
