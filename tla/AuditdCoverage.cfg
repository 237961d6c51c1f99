\* Four rules: COVERED takes two, so that two more can pre-empt or suppress them.
SPECIFICATION Spec
CONSTANTS
  Arches <- MCArches
  Native = "b64"
  Calls <- MCCalls
  Numerals <- MCNumerals
  Number <- MCNumber
  Letters <- MCLetters
  Facts <- MCFacts
  RuleChoices <- MCAll
  Machines = {"x86_64", "aarch64"}
  MaxRules = 4
INVARIANTS
  CoveredIsSound
  NotCoveredIsSound
  FileWatchIsSound
PROPERTIES
  NeverRuleNeverHelps
