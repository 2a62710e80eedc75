SPECIFICATION MapSpec
CONSTANTS
  WordBits = 7
  IntBits = 5
  Room = 3
  Calls <- MCCalls
  Statuses <- MCStatuses
  LineNumbers <- MCLineNumbers
  Maps <- MCMaps
  DescriptorSizes <- MCDescriptorSizes
  PageBytes = 8
  Kilobyte = 2
  MaxEvents = 2
INVARIANTS
  TypeOK
  OwnArguments
  OverrunExplained
  ReportTells
  MapTypeOK
  ListsMap
  TotalAddsUp
  WildExplained
PROPERTIES
  SaysItsArgument
  Returns
\* EfiPrintF returns, EfiHalt spins: real stops.
CHECK_DEADLOCK FALSE
