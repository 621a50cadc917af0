SPECIFICATION Spec
CONSTANT Programs <- DerivedFieldPrograms
INVARIANT OwnPointOnly
CHECK_DEADLOCK FALSE
