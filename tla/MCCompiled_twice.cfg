SPECIFICATION Spec
CONSTANTS
  Menus <- MCMenus
  StoreTwice = TRUE
  MaxSteps = 80
INVARIANT
  OptimisationsPreserveMeaning
CHECK_DEADLOCK FALSE
