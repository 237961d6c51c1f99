\* The same with a changed line anywhere, the summary and the head of the section included.
SPECIFICATION Spec
CONSTANTS
  EventTypes = {"ProcessCreate", "NetworkConnect"}
  Fields = {"image"}
  MaxLines = 6
INVARIANT ParserGapsAreIndeterminate
CHECK_DEADLOCK FALSE
