\* Files that build_fae.py wrote, without data.
CONSTANTS
  ByteBase = 16
  MAGIC_NUMBER_AND_VERSION = 4818
  WithData = FALSE
  Damaged = FALSE
  Files <- MCFiles
  Arguments <- MCArguments
  Names <- MCNames

SPECIFICATION Spec

CHECK_DEADLOCK FALSE

INVARIANTS
  HexdumpLinesFollow
