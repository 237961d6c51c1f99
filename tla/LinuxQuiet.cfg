\* A host nobody touches, and auditctl anywhere in two sbin directories that the user
\* may or may not search.
SPECIFICATION Spec
CONSTANTS
  Arches <- MCArches
  Native = "b64"
  Calls <- MCCalls
  Numerals <- MCNumerals
  Number <- MCNumber
  Letters <- MCLetters
  Facts <- MCFacts
  MachineArch = "x86_64"
  RuleChoices <- MCRuleChoices
  RuleLists <- MCQuietLists
  Dirs = {d1, d2}
  Reaches = {"open", "closed", "missing"}
  Nothing = Nothing
  MaxEdits = 0
INVARIANTS
  SoundOnAQuietHost
  DefiniteNeedsEvidence
  IndeterminateIsExplained
CHECK_DEADLOCK FALSE
