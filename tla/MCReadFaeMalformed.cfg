\* Built, damaged and cut files.
CONSTANTS
  ByteBase = 16
  MAGIC_NUMBER_AND_VERSION = 4818
  WithData = TRUE
  Damaged = TRUE
  Files <- MCFiles
  Arguments <- MCArguments
  Names <- MCNames

SPECIFICATION Spec

CHECK_DEADLOCK FALSE

INVARIANTS
  RefusesMalformed
