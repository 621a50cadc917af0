SPECIFICATION Spec
CONSTANTS
  Workspaces <- MCWorkspaces
  NewNames = {"a", "b", "c", "x", "exp", "_p", "_c_", "in"}
  Reserved = {"in"}
  Underscored = {"_p", "_c_"}
  ReadOnly = {"z"}
  MaxRenames = 2
INVARIANT NamesKeepTheirMeaning
CHECK_DEADLOCK FALSE
