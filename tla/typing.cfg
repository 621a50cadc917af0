SPECIFICATION MCSpec
CONSTANT Substituted <- SubstitutedResult
CONSTANT Extra = 2
CONSTANT ChainLifted = FALSE
CONSTANT PushAnyMap = FALSE
INVARIANT MassSound
INVARIANT SupportSound
INVARIANT DrawsNormalized
INVARIANT PhaseSound
CHECK_DEADLOCK FALSE
