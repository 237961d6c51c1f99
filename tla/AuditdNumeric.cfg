\* Rules that name execve by its number.
SPECIFICATION Spec
CONSTANTS
  Arches <- MCArches
  Native = "b64"
  Calls <- MCCalls
  Numerals <- MCNumerals
  Number <- MCNumber
  Letters <- MCLetters
  Facts <- MCFacts
  RuleChoices <- MCNumeric
  Machines = {"x86_64"}
  MaxRules = 3
INVARIANT NumericIsNotGuessed
