\* Two builds at once in one directory.
CONSTANTS
  Makers = {"first", "second"}
  EditDuringRecipes = TRUE
  Elfs <- MCElfs
  dirname <- MCDirname
  WellNamed <- MCWellNamed
  int <- MCInt
  OwnCrt0 = {"own"}
  Lines <- MCSharedLines
  Careful = FALSE
  Changing = {}
  MaxBuilds = 2
  MaxChanges = 0

SPECIFICATION Spec

\* There is a bound on the number of builds.
CHECK_DEADLOCK FALSE

PROPERTIES
  OutputIsOfElf
