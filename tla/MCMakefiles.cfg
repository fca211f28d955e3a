\* Four runs of make and an edit, not inside of a recipe.
CONSTANTS
  Makers = {"developer"}
  EditDuringRecipes = FALSE
  MaxMakes = 4
  MaxEdits = 1

SPECIFICATION Spec

\* The developer may stop.
CHECK_DEADLOCK FALSE

INVARIANTS
  TypeOK
  LibraryCurrent
  CleanBuildCurrent
  NoNeedlessWork
