\* Builds that do not touch the files of each other.
CONSTANTS
  Makers = {"first", "second"}
  EditDuringRecipes = TRUE
  Elfs <- MCElfs
  dirname <- MCDirname
  WellNamed <- MCWellNamed
  int <- MCInt
  OwnCrt0 = {"own"}
  Lines <- MCAllLines
  Careful = TRUE
  Changing = {"app/b.elf", "src/include"}
  MaxBuilds = 3
  MaxChanges = 1

SPECIFICATION Spec

\* There is a bound on the number of builds.
CHECK_DEADLOCK FALSE

INVARIANTS
  TypeOK
  GdbinitMatches

PROPERTIES
  OutputIsOfElf
  EmbeddedCrt0Current
  EveryBuildEnds
