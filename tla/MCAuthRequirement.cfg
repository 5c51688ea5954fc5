CONSTANT Requirements <- MCRequirements
SPECIFICATION Spec
CHECK_DEADLOCK FALSE
INVARIANT EmptyIffNoJWT
