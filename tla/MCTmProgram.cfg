\* Command lines of every sort, with files of up to four lines or statements.
SPECIFICATION ProgramSpec
CONSTANTS
  Topic = {1, 2, 3, 4, 5, 6, 7, 8, 9, 10, 11, 12, 13, 14, 15, 16, 17, 18, 19, 20,
           21, 22, 23, 24, 25, 26}
  MaxVid = 26
  NoValue = NoValue
  PropOrder <- MCPropOrder
  Kind <- MCKind
  Subjects = {}
  Forms = {}
  MaxCalls = 100
  File <- MCFile
  MaxOpen = 4
  BufSize = 4
  Invocations <- MCInvocations
  QueryOf <- MCQueryOf
INVARIANTS
  ProgramTypeOK
  LoadedModelsComplete
  TransactionsPaired
  MapAsWritten
  ViewsReportAll
PROPERTIES
  RunsEnd
