SPECIFICATION Spec
CONSTANT Programs <- AllPrograms
INVARIANT QueriesCorrect
INVARIANT QueriesIndependent
CHECK_DEADLOCK FALSE
