\* A host that changes twice during the run: once between the two commands and once
\* before or after. auditctl is on PATH or nowhere.
SPECIFICATION FairSpec
CONSTANTS
  Arches <- MCArches
  Native = "b64"
  Calls <- MCCalls
  Numerals <- MCNumerals
  Number <- MCNumber
  Letters <- MCLetters
  Facts <- MCFacts
  MachineArch = "x86_64"
  RuleChoices <- MCLiveChoices
  RuleLists <- MCLiveLists
  Dirs = {}
  Reaches = {"missing"}
  Nothing = Nothing
  MaxEdits = 2
INVARIANTS
  TypeOK
PROPERTIES
  EventuallyReports
  Attested
CHECK_DEADLOCK FALSE
