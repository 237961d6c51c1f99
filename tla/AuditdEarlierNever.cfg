\* Off x86-64, with a never,exit rule in front.
SPECIFICATION Spec
CONSTANTS
  Arches <- MCArches
  Native = "b64"
  Calls <- MCCalls
  Numerals <- MCNumerals
  Number <- MCNumber
  Letters <- MCLetters
  Facts <- MCFacts
  RuleChoices <- MCArchless
  Machines = {"aarch64"}
  MaxRules = 2
INVARIANT EarlierNeverPreventsCovered
