\* A line of up to three tokens and one of up to two: a line can repeat an option,
\* or hold a watch with perms and a filter; the second shows what the first leaves.
SPECIFICATION Spec
CONSTANTS
  Words <- MCWords
  AddValues <- MCAddValues
  SyscallLists <- MCSyscallLists
  Filters <- MCFilters
  Paths <- MCPaths
  Perms <- MCPerms
  NoValue = NoValue
  MaxLines = 2
  MaxTokens = 3
INVARIANTS
  TypeOK
  EveryLineAccountedFor
  RuleMeansItsTokens
CHECK_DEADLOCK FALSE
