SPECIFICATION Spec
CONSTANTS
  Menus <- MCMenus
  StoreTwice = FALSE
  MaxSteps = 80
INVARIANTS
  OptimisationsPreserveMeaning
  EnoughDataDeclared
CHECK_DEADLOCK FALSE
