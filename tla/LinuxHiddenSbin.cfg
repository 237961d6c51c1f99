\* An sbin directory behind a parent the user may not search.
SPECIFICATION Spec
CONSTANTS
  Arches <- MCArches
  Native = "b64"
  Calls <- MCCalls
  Numerals <- MCNumerals
  Number <- MCNumber
  Letters <- MCLetters
  Facts <- MCFacts
  MachineArch = "x86_64"
  RuleChoices <- MCRuleChoices
  RuleLists <- MCQuietLists
  Dirs = {d1, d2}
  Reaches = {"open", "hidden"}
  Nothing = Nothing
  MaxEdits = 0
INVARIANT UnsearchableIsNotAbsence
CHECK_DEADLOCK FALSE
