SPECIFICATION FairSpec
CONSTANTS
  Programs <- AllPrograms
  Root = "main"
INVARIANTS ImporterIsCurrent NeverInsideItself FailedIsReported ReadsAreComplete ResultsAgree
PROPERTIES Terminates
CHECK_DEADLOCK FALSE
