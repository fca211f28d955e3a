\* A run of make, an edit of crt0.c, and another run of make.
CONSTANTS
  Makers = {"developer"}
  EditDuringRecipes = FALSE
  MaxMakes = 2
  MaxEdits = 1

SPECIFICATION Spec

\* The developer may stop.
CHECK_DEADLOCK FALSE

INVARIANTS
  LoaderCurrent
