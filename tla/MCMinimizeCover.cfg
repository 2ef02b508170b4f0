SPECIFICATION Spec
INVARIANTS
    CoverIsKept
