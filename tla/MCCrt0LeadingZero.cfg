\* Programs whose .rom begins with a zero byte.
CONSTANTS
  ByteBase = 16
  MAGIC_NUMBER_AND_VERSION = 4818
  FirstBytes = {0}
  Files <- MCFiles
  Contexts <- MCContexts

SPECIFICATION Spec

CHECK_DEADLOCK FALSE

INVARIANTS
  SkipsOnlyPadding
