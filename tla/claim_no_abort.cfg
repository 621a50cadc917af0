SPECIFICATION Spec
CONSTANTS
  Programs <- SmallPrograms
  Root = "main"
INVARIANTS NeverAborts
CHECK_DEADLOCK FALSE
