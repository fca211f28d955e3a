\* Any number of executions, with any sequence of calls.
CONSTANTS
  Riot = Riot
  Low = Low
  High = High
  NULL = NULL
  Values = {0, 1}
  Gots <- MCGots
  Contexts <- MCContexts

SPECIFICATION Spec

INVARIANTS
  TypeOK
  OwnGot

PROPERTIES
  ImplementsSyscalls
  StatusReported
