\* Files that build_fae.py wrote, with data between .rom and the footer.
CONSTANTS
  ByteBase = 16
  MAGIC_NUMBER_AND_VERSION = 4818
  WithData = TRUE
  Damaged = FALSE
  Files <- MCFiles
  Arguments <- MCArguments
  Names <- MCNames

SPECIFICATION Spec

CHECK_DEADLOCK FALSE

INVARIANTS
  ShowsRomAsRom
