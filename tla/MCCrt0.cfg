\* The loader on files of every shape the linker script allows, and on
\* files it must refuse.
CONSTANTS
  ByteBase = 16
  MAGIC_NUMBER_AND_VERSION = 4818
  FirstBytes = {5}
  Files <- MCFiles
  Contexts <- MCContexts

SPECIFICATION Spec

\* The loader stops when it has started the program or died.
CHECK_DEADLOCK FALSE

INVARIANTS
  TypeOK
  WritesWithinRam
  FreeMemoryIsFree
  RamStaysZero
  BurstsAligned
  TextAligned
  GdbAgrees

PROPERTIES
  ImplementsLoad
  GotSettled
  Terminates
