\* The inspection tool on built, damaged and cut files.
CONSTANTS
  ByteBase = 16
  MAGIC_NUMBER_AND_VERSION = 4818
  WithData = TRUE
  Damaged = TRUE
  Files <- MCFiles
  Arguments <- MCAllArguments
  Names <- MCNames

SPECIFICATION Spec

\* The tool ends.
CHECK_DEADLOCK FALSE

INVARIANTS
  TypeOK
  AcceptsBuilt
  SectionsTilePartition
  SoundForLoader

PROPERTIES
  Terminates
