\* The summary, the head of the rule section and four lines of it: two blocks with a
\* filter each, or one with three.
SPECIFICATION Spec
CONSTANTS
  EventTypes = {"ProcessCreate", "NetworkConnect"}
  Fields = {"image", "port"}
  MaxLines = 6
INVARIANTS
  TypeOK
  VerdictIsRight
  DriftIsOwned
CHECK_DEADLOCK FALSE
